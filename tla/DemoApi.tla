------------------------------- MODULE DemoApi -------------------------------
(***************************************************************************)
(* The facility, status, account and storage adapters of the demo, over    *)
(* the one world they share (DemoState): the seed of DemoWorld and what    *)
(* the generator of DemoSeed adds to it.  The world is complete before the *)
(* first request and never changes after it, so a client is followed       *)
(* through one session: it goes from link to link, reads a collection page *)
(* by page, or asks where its data may go.                                 *)
(*                                                                         *)
(* Objects are their ids.  The filters by name, text, type and date are    *)
(* left out; find and find_by_id of the models are external.               *)
(***************************************************************************)
EXTENDS Integers, DemoWorld

CONSTANTS Reporting,  \* names of the resources that the generator picks from
          Draws,      \* resource_ids that an incident may be given
          Iterations, \* 1000 in the code
          Limits      \* page sizes, without a limit (None) if negative

ASSUME DemoApiAssumption ==
  /\ \A name \in Reporting : \E r \in ToSet(resources) : r.name = name
  /\ Draws \subseteq Seq(ToSet(Ids(resources)))
  /\ Iterations \in Nat
  /\ Limits \subseteq Int \ {0}

VARIABLES statuses, last_incidents, events, incidents, d,  \* as in DemoSeed
          resource_ids,  \* resource_ids[n]: the resources that the n-th incident names
          client         \* how far the client has come

seed == <<statuses, last_incidents, events, incidents, d, resource_ids>>
vars == <<seed, client>>

Seed == INSTANCE DemoSeed
          WITH Resources <- Reporting, Iterations <- Iterations, MaxGap <- 1,
               statuses <- statuses, last_incidents <- last_incidents,
               events <- events, incidents <- incidents, d <- d

NoId == <<>>
None == "none"

-----------------------------------------------------------------------------
(* What names what: the ids in the answer for an id.                       *)

Kind(id)     == id[1]
event_ids    == [n \in DOMAIN events |-> demo_uuid("event", events[n].id)]
incident_ids == [n \in DOMAIN incidents |-> demo_uuid("incident", incidents[n].id)]

EndpointsOf(resource) ==
  IF resource \in DOMAIN access_endpoints THEN access_endpoints[resource] ELSE <<>>

\* The collections that ids are looked up in, and the first hit there.
Collection(kind) ==
  CASE kind = "facility"           -> <<facility.id>>
    [] kind = "site"               -> Ids(sites)
    [] kind = "resource"           -> Ids(resources)
    [] kind = "capability"         -> capabilities
    [] kind = "endpoint"           -> Ids(FlattenSeq([n \in DOMAIN resources |-> EndpointsOf(resources[n].name)]))
    [] kind = "event"              -> event_ids
    [] kind = "incident"           -> incident_ids
    [] kind = "project"            -> Ids(projects)
    [] kind = "project_allocation" -> Ids(project_allocations)
    [] kind = "user_allocation"    -> Ids(user_allocations)

Place(id) == SelectInSeq(Collection(Kind(id)), LAMBDA x : x = id)

get_site(id)     == sites[Place(id)]
get_resource(id) == resources[Place(id)]

get_access_endpoints(resource, protocol, endpoint_id) ==
  LET all == EndpointsOf(resource)
  IN Keep(all, {n \in DOMAIN all : /\ protocol \in {None, all[n].protocol}
                                   /\ endpoint_id \in {NoId, all[n].id}})

\* The client knows which resource listed the endpoint, or tries them all.
get_endpoint(id) ==
  FlattenSeq([n \in DOMAIN resources |-> get_access_endpoints(resources[n].name, None, id)])[1]

get_event(id) ==
  LET e == events[Place(id)]
  IN [resource_id |-> demo_uuid("resource", e.resource),
      incident_id |-> IF e.incident = Seed!NoIncident THEN NoId ELSE incident_ids[e.incident]]

get_incident(id) ==
  LET n == Place(id)
  IN [event_ids    |-> [m \in DOMAIN incidents[n].event_ids |-> event_ids[incidents[n].event_ids[m]]],
      resource_ids |-> resource_ids[n]]

get_facility == facility.id
get_projects == Ids(projects)

get_project_allocations(project) ==
  Keep(project_allocations, {n \in DOMAIN project_allocations : project_allocations[n].project_id = project})

get_user_allocations(pa) ==
  Keep(user_allocations, {n \in DOMAIN user_allocations : user_allocations[n].project_allocation_id = pa})

Named(id) ==
  LET kind == Kind(id) IN
  CASE kind = "facility"           -> facility.site_ids
    [] kind = "site"               -> get_site(id).resource_ids
    [] kind = "resource"           -> <<get_resource(id).site_id>> \o get_resource(id).capability_ids
                                        \o Ids(get_access_endpoints(get_resource(id).name, None, NoId))
    [] kind = "endpoint"           -> <<get_endpoint(id).resource_id>>
    [] kind = "capability"         -> <<>>
    [] kind = "event"              -> LET e == get_event(id)
                                      IN IF e.incident_id = NoId THEN <<e.resource_id>>
                                         ELSE <<e.resource_id, e.incident_id>>
    [] kind = "incident"           -> get_incident(id).event_ids \o get_incident(id).resource_ids
    [] kind = "project"            -> Ids(get_project_allocations(id))
    [] kind = "project_allocation" ->
         <<project_allocations[Place(id)].project_id, project_allocations[Place(id)].capability_id>>
           \o Ids(get_user_allocations(id))
    [] kind = "user_allocation"    ->
         <<user_allocations[Place(id)].project_id, user_allocations[Place(id)].project_allocation_id>>

-----------------------------------------------------------------------------
(* Collections, a page at a time.                                          *)

\* The objects that name what the query asks for.
find(list, filter) ==
  IF filter = NoId THEN list
  ELSE Keep(list, {n \in DOMAIN list : filter \in ToSet(Named(list[n]))})

\* list[from : to]
Slice(list, from, to) == SubSeq(list, from + 1, IF to < Len(list) THEN to ELSE Len(list))

\* Mutant of paginate_list: slices from offset to limit.
paginate_listToLimit(items, offset, limit) ==
  Slice(items, offset, IF limit >= 0 THEN limit ELSE Len(items))

paginate_list(items, offset, limit) ==
  LET rest == Slice(items, offset, Len(items))
  IN IF limit >= 0 THEN Slice(rest, 0, limit) ELSE rest

list_sites(offset, limit) ==
  Slice(Ids(sites), offset, offset + IF limit >= 1 THEN limit ELSE Len(sites))

\* What the client pages through; filter is an id or NoId.
Queries ==
  {[kind |-> "site", filter |-> NoId]}
    \cup [kind : {"resource"}, filter : {NoId} \cup ToSet(Ids(sites)) \cup ToSet(capabilities)]
    \cup [kind : {"event"},    filter : {NoId} \cup ToSet(Ids(resources)) \cup ToSet(incident_ids)]
    \cup [kind : {"incident"}, filter : {NoId} \cup ToSet(Ids(resources))]

get_resources(filter, offset, limit) == paginate_list(find(Collection("resource"), filter), offset, limit)
get_events(filter, offset, limit)    == paginate_list(find(Collection("event"), filter), offset, limit)
get_incidents(filter, offset, limit) == paginate_list(find(Collection("incident"), filter), offset, limit)

Page(query, offset, limit) ==
  CASE query.kind = "site"     -> list_sites(offset, limit)
    [] query.kind = "resource" -> get_resources(query.filter, offset, limit)
    [] query.kind = "event"    -> get_events(query.filter, offset, limit)
    [] query.kind = "incident" -> get_incidents(query.filter, offset, limit)

-----------------------------------------------------------------------------
(* Storage locations.                                                      *)

\* Names of projects as they are written in paths.
slugify_project(name) ==
  CASE name = "Staff research project" -> "staff_research_project"
    [] name = "Test project"           -> "test_project"

ProjectCodes(list) == [n \in DOMAIN list |-> slugify_project(list[n].name)]

user_project_codes ==
  ProjectCodes(Keep(projects, {n \in DOMAIN projects : DEMO_USER \in projects[n].user_ids}))

user_member_of(code) == code \in ToSet(user_project_codes)

\* Mutant of apply_intent_filter: write wants what cannot be written.
apply_intent_filterReadOnly(m, intent) ==
  CASE intent = "long_term_storage" -> m.logical_name = "archive"
    [] intent = "staging"           -> m.logical_name # "archive"
    [] intent = "write"             -> ~m.write
    [] OTHER                        -> TRUE

apply_intent_filter(m, intent) ==
  CASE intent = "long_term_storage" -> m.logical_name = "archive"
    [] intent = "staging"           -> m.logical_name # "archive"
    [] intent = "write"             -> m.write
    [] OTHER                        -> TRUE

\* Mutant of project_codes: without a project, the user's first one.
project_codesFirst(project) ==
  IF project # None THEN <<project>> ELSE SubSeq(user_project_codes, 1, 1)

project_codes(project) == IF project # None THEN <<project>> ELSE user_project_codes

\* A template is kept or dropped, and then written out for each project, or once
\* if no project is in it.  A path is a template, a user and a project.
get_locations(q) ==
  LET templates == IF q.resource \in DOMAIN locations THEN locations[q.resource] ELSE <<>>
      effective_project == IF q.project # None THEN q.project ELSE q.allocation
      Wanted(m) == /\ q.logicalpath \in {None, m.logical_name}
                   /\ apply_intent_filter(m, q.intent)
      Expanded(m) == LET over == IF m.scoped THEN project_codes(effective_project) ELSE <<None>>
                     IN [n \in DOMAIN over |->
                           [logical_name |-> m.logical_name, path |-> <<m.path, DEMO_USER, over[n]>>,
                            write |-> m.write]]
  IN IF effective_project # None /\ ~user_member_of(effective_project)
     THEN [code |-> 403, list |-> <<>>]
     ELSE LET wanted == Keep(templates, {n \in DOMAIN templates : Wanted(templates[n])})
          IN [code |-> 200, list |-> FlattenSeq([n \in DOMAIN wanted |-> Expanded(wanted[n])])]

\* What may be asked: the client's projects, by code, and one that it is not in.
ProjectParams == {None, "nobodys_project"} \cup ToSet(user_project_codes)
LogicalNames  == {"home", "scratch", "project", "campaign", "archive", "shared", "temporary"}
Intents       == {None, "long_term_storage", "staging", "write"}
LocationQuery == [resource : {r.name : r \in ToSet(resources)}, logicalpath : {None} \cup LogicalNames,
                  project : ProjectParams, allocation : ProjectParams, intent : Intents]

\* The bound on questions: the two filters are set one at a time.
Questions == {q \in LocationQuery : None \in {q.logicalpath, q.intent}}

-----------------------------------------------------------------------------
(* The generator, then the client.                                         *)

Idle == [does |-> "nothing"]

Init ==
  /\ Seed!Init
  /\ resource_ids = <<>>
  /\ client = Idle

\* One iteration of the loop; random.choices names the resources of a new incident.
Generate ==
  /\ \E r \in Reporting : Seed!Iterate(r)
  /\ IF Len(incidents') = Len(incidents) THEN UNCHANGED resource_ids
     ELSE \E draw \in Draws : resource_ids' = Append(resource_ids, draw)
  /\ UNCHANGED client

\* The module is imported before requests are served.
Served == Len(events) = Iterations

Open(id) ==
  /\ Served /\ client = Idle
  /\ client' = [does |-> "read", from |-> NoId, at |-> id]
  /\ UNCHANGED seed

OpenListed(id) ==
  /\ client.does = "list" /\ id \in ToSet(client.seen)
  /\ client' = [does |-> "read", from |-> NoId, at |-> id]
  /\ UNCHANGED seed

Follow(id) ==
  /\ client.does = "read" /\ id \in ToSet(Named(client.at))
  /\ client' = [does |-> "read", from |-> client.at, at |-> id]
  /\ UNCHANGED seed

\* The first page, and then from where the last one ended until one is empty.
Ask(query, limit) ==
  /\ Served /\ client = Idle
  /\ client' = [does |-> "list", query |-> query, limit |-> limit,
                seen |-> Page(query, 0, limit), over |-> Page(query, 0, limit) = <<>>]
  /\ UNCHANGED seed

NextPage ==
  /\ client.does = "list" /\ ~client.over
  /\ LET page == Page(client.query, Len(client.seen), client.limit)
     IN client' = [client EXCEPT !.seen = @ \o page, !.over = page = <<>>]
  /\ UNCHANGED seed

Locate(q) ==
  /\ Served /\ client = Idle
  /\ client' = [does |-> "locate", query |-> q, answer |-> get_locations(q)]
  /\ UNCHANGED seed

Leave ==
  /\ client # Idle
  /\ client' = Idle
  /\ UNCHANGED seed

Next ==
  \/ Generate
  \/ \E id \in {get_facility} \cup ToSet(get_projects) : Open(id)
  \/ client.does = "list" /\ \E id \in ToSet(client.seen) : OpenListed(id)
  \/ client.does = "read" /\ \E id \in ToSet(Named(client.at)) : Follow(id)
  \/ \E query \in Queries, limit \in Limits : Ask(query, limit)
  \/ NextPage
  \/ \E q \in Questions : Locate(q)
  \/ Leave

Spec == Init /\ [][Next]_vars

-----------------------------------------------------------------------------
(* Properties: what the domains must agree on.                             *)

\* Relations that are recorded on both sides.
TwoSided == {{"site", "resource"}, {"resource", "endpoint"}, {"event", "incident"},
             {"project", "project_allocation"}, {"project_allocation", "user_allocation"}}

\* The id leads to one object.
FoundOnce(id) ==
  LET all == Collection(Kind(id))
  IN \E n \in DOMAIN all : \A m \in DOMAIN all : all[m] = id <=> m = n

\* Whatever an answer of facility, status, account or storage names is found by
\* its id, and only once; an object that is recorded on both sides of a relation
\* names the one that led to it.
LinksResolve ==
  client.does = "read" =>
    /\ FoundOnce(client.at)
    /\ client.from # NoId /\ {Kind(client.from), Kind(client.at)} \in TwoSided
         => client.from \in ToSet(Named(client.at))

\* The same for all that the generator adds to the world, whether a client goes
\* there or not: the part of the world that is of any size.
GeneratedLinksResolve ==
  \A id \in ToSet(event_ids) \cup ToSet(incident_ids) :
    /\ FoundOnce(id)
    /\ \A named \in ToSet(Named(id)) :
         /\ FoundOnce(named)
         /\ {Kind(id), Kind(named)} = {"event", "incident"} => id \in ToSet(Named(named))

\* All that a query asks for.
Whole(query) == find(Collection(query.kind), query.filter)

\* The pages that a client reads one after the other, of any length, are the
\* whole collection in its order: nothing is skipped or repeated (paginate_list,
\* list_sites).
PagesAddUp ==
  client.does = "list" =>
    /\ IsPrefix(client.seen, Whole(client.query))
    /\ client.over => client.seen = Whole(client.query)

\* Asking for the events of an incident or the resources of a site gives what
\* the incident or the site itself lists, in its order, although the two are
\* computed from different lists.
AnswersMatchLinks ==
  client.does = "list" /\ client.over =>
    LET asked == client.query IN
    /\ asked.kind = "event" /\ asked.filter \in ToSet(incident_ids)
         => client.seen = get_incident(asked.filter).event_ids
    /\ asked.kind = "resource" /\ asked.filter \in ToSet(Ids(sites))
         => client.seen = get_site(asked.filter).resource_ids

\* Without a project the answer is that of all the user's projects together,
\* without a logical path that of all of them, and every location is for
\* staging or for long term storage; no location is given twice, and none of a
\* project other than the one that was asked for (get_locations).
LocationsAddUp ==
  client.does = "locate" =>
    LET q        == client.query
        asked    == IF q.project # None THEN q.project ELSE q.allocation
        Given(p) == ToSet(get_locations(p).list)
        given    == ToSet(client.answer.list)
    IN /\ IsInjective(client.answer.list)
       /\ client.answer.code = 403 <=> asked \notin {None} \cup ToSet(user_project_codes)
       /\ asked # None => \A l \in given : l.path[3] \in {None, asked}
       /\ asked = None => given = UNION {Given([q EXCEPT !.project = code]) : code \in ToSet(user_project_codes)}
       /\ q.logicalpath = None => given = UNION {Given([q EXCEPT !.logicalpath = name]) : name \in LogicalNames}
       /\ q.intent = None =>
            LET staging == Given([q EXCEPT !.intent = "staging"])
                tape    == Given([q EXCEPT !.intent = "long_term_storage"])
            IN given = staging \cup tape /\ staging \cap tape = {}

\* What the account domain allocates can be used: some resource of the status
\* domain has the capability, and the storage domain, asked with the project's
\* code, gives a location on it that the user can write to.
AllocationsAreUsable ==
  client.does = "read" /\ Kind(client.at) = "project_allocation" =>
    LET pa      == project_allocations[Place(client.at)]
        project == CHOOSE p \in ToSet(projects) : p.id = pa.project_id
    IN \E r \in ToSet(resources) :
         /\ pa.capability_id \in ToSet(r.capability_ids)
         /\ \E l \in ToSet(get_locations([resource |-> r.name, logicalpath |-> None, allocation |-> None,
                                          project |-> slugify_project(project.name), intent |-> "write"]).list) : l.write

\* The inductive invariant of a session: it begins when the world is complete,
\* and a client that reads pages has read a beginning of the collection, which
\* is all of it once a page was empty.
SessionInv ==
  /\ client.does \in {"nothing", "read", "list", "locate"}
  /\ client.does # "nothing" => Served
  /\ client.does = "list" =>
       LET whole == Whole(client.query)
           n     == Len(client.seen)
       IN /\ client \in [does : {"list"}, query : Queries, limit : Limits,
                         seen : {SubSeq(whole, 1, n)}, over : BOOLEAN]
          /\ n \in 0 .. Len(whole)
          /\ client.over => n = Len(whole)

\* The id is in the collection of its kind.
Kinds == {"facility", "site", "resource", "capability", "endpoint", "event", "incident",
          "project", "project_allocation", "user_allocation"}
Known(id) == Kind(id) \in Kinds /\ id \in ToSet(Collection(Kind(id)))

\* The inductive invariant of a client that follows links: it is somewhere in
\* the world, and came there from an object that names where it is.
ReachInv ==
  client.does = "read" =>
    /\ Known(client.at)
    /\ client.from = NoId \/ (Known(client.from) /\ client.at \in ToSet(Named(client.from)))

\* The answer that a client has is the one to its question.
LocateInv ==
  client.does = "locate" => client.query \in LocationQuery /\ client.answer = get_locations(client.query)

\* Every incident has the resources of a draw.
DrawsInv == resource_ids \in Seq(Draws) /\ Len(resource_ids) = Len(incidents)
=============================================================================
