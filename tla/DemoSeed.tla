------------------------------ MODULE DemoSeed ------------------------------
(***************************************************************************)
(* The generator of demo events and incidents in DemoState._init_state     *)
(* (demo_adapter/state.py).  One action is one iteration of its loop: it   *)
(* reports the status of a random resource, files the report under the     *)
(* resource's open incident and closes that incident if the resource is up *)
(* again, then may flip the status and open a new incident.                *)
(***************************************************************************)
EXTENDS Naturals, Sequences, SequencesExt

CONSTANTS Resources,  \* names of self.resources
          Iterations, \* 1000 in the code
          MaxGap      \* largest step of the clock, 15 minutes in the code

ASSUME DemoSeedAssumption == Iterations \in Nat /\ MaxGap \in Nat \ {0}

VARIABLES statuses,       \* statuses[r]: "up" or "down"
          last_incidents, \* last_incidents[r]: the open incident of r, or NoIncident
          events,         \* self.events
          incidents,      \* self.incidents
          d               \* the clock

vars == <<statuses, last_incidents, events, incidents, d>>

-----------------------------------------------------------------------------

NoIncident == 0   \* r.name is not in last_incidents; event.incident_id is None

\* Events and incidents are named by their places in the lists; id is what
\* demo_uuid is computed from.
Event    == [id : Resources \X Nat, resource : Resources, status : {"up", "down"},
             occurred_at : Nat, incident : Nat]
Incident == [id : Resources \X Nat, event_ids : Seq(Nat), start : Nat, end : Nat]

TypeOK ==
  /\ statuses \in [Resources -> {"up", "down"}]
  /\ last_incidents \in [Resources -> 0 .. Len(incidents)]
  /\ events \in Seq(Event)
  /\ \A e \in ToSet(events) : e.incident \in 0 .. Len(incidents)
  /\ incidents \in Seq(Incident)
  /\ \A i \in ToSet(incidents) : ToSet(i.event_ids) \subseteq DOMAIN events
  /\ d \in Nat

Init ==
  /\ statuses = [r \in Resources |-> "up"]
  /\ last_incidents = [r \in Resources |-> NoIncident]
  /\ events = <<>>
  /\ incidents = <<>>
  /\ d = 0

-----------------------------------------------------------------------------

\* The event of this iteration, and its incident if the resource has one open.
NewEvent(r) == [id |-> <<r, d>>, resource |-> r, status |-> statuses[r],
                occurred_at |-> d, incident |-> last_incidents[r]]

\* Mutant of Filed: the closing event is not added to event_ids.
FiledWithoutClosing(r) ==
  LET i == last_incidents[r]
      n == Len(events) + 1
  IN IF i = NoIncident THEN incidents
     ELSE [incidents EXCEPT ![i].event_ids = IF statuses[r] = "up" THEN @ ELSE Append(@, n),
                            ![i].end = IF statuses[r] = "up" THEN d ELSE @]

\* Mutant of Filed: the end of the incident is not set.
FiledOpenEnded(r) ==
  LET i == last_incidents[r] IN
  IF i = NoIncident THEN incidents
  ELSE [incidents EXCEPT ![i].event_ids = Append(@, Len(events) + 1)]

\* Mutant of Filed: the incident ends when the next event may come.
FiledLate(r) ==
  LET i == last_incidents[r] IN
  IF i = NoIncident THEN incidents
  ELSE [incidents EXCEPT ![i].event_ids = Append(@, Len(events) + 1),
                         ![i].end = IF statuses[r] = "up" THEN d + MaxGap ELSE @]

\* Mutant of StillOpen: any event closes the incident.
ClosedByAnyEvent(r) == [last_incidents EXCEPT ![r] = NoIncident]

\* Mutant of StillOpen: no event closes the incident.
NeverClosed(r) == last_incidents

\* The open incident takes the event in, and ends if the resource is up.
Filed(r) ==
  LET i == last_incidents[r]
      n == Len(events) + 1
  IN IF i = NoIncident THEN incidents
     ELSE [incidents EXCEPT ![i].event_ids = Append(@, n),
                            ![i].end = IF statuses[r] = "up" THEN d ELSE @]

StillOpen(r) == IF statuses[r] = "up" THEN [last_incidents EXCEPT ![r] = NoIncident]
                                      ELSE last_incidents

NewIncident(r) == [id |-> <<r, d>>, event_ids |-> <<>>, start |-> d, end |-> d]

Keep(r) ==
  /\ incidents' = Filed(r)
  /\ last_incidents' = StillOpen(r)
  /\ UNCHANGED statuses

\* Mutant of Flip: the new incident is looked up one place too far.
FlipOffByOne(r) ==
  \/ /\ statuses[r] = "down"
     /\ statuses' = [statuses EXCEPT ![r] = "up"]
     /\ incidents' = Filed(r)
     /\ last_incidents' = StillOpen(r)
  \/ /\ statuses[r] = "up"
     /\ statuses' = [statuses EXCEPT ![r] = "down"]
     /\ incidents' = Append(Filed(r), NewIncident(r))
     /\ last_incidents' = [StillOpen(r) EXCEPT ![r] = Len(incidents) + 2]

\* random.random() > 0.9: the resource recovers, or goes down with a new incident.
Flip(r) ==
  \/ /\ statuses[r] = "down"
     /\ statuses' = [statuses EXCEPT ![r] = "up"]
     /\ incidents' = Filed(r)
     /\ last_incidents' = StillOpen(r)
  \/ /\ statuses[r] = "up"
     /\ statuses' = [statuses EXCEPT ![r] = "down"]
     /\ incidents' = Append(Filed(r), NewIncident(r))
     /\ last_incidents' = [StillOpen(r) EXCEPT ![r] = Len(incidents) + 1]

\* Mutant of Iterate: int(random() * 15) without the + 1.
IterateWithoutGap(r) ==
  /\ Len(events) < Iterations
  /\ events' = Append(events, NewEvent(r))
  /\ Keep(r) \/ Flip(r)
  /\ \E gap \in 0 .. MaxGap : d' = d + gap

Iterate(r) ==
  /\ Len(events) < Iterations
  /\ events' = Append(events, NewEvent(r))
  /\ Keep(r) \/ Flip(r)
  /\ \E gap \in 1 .. MaxGap : d' = d + gap

Next == \E r \in Resources : Iterate(r)

Spec == Init /\ [][Next]_vars

-----------------------------------------------------------------------------

\* event.incident_id and incident.event_ids are two records of one relation.
LinksAgree ==
  \A e \in DOMAIN events, i \in DOMAIN incidents :
    events[e].incident = i <=> e \in ToSet(incidents[i].event_ids)

\* Every report of a resource being down belongs to an incident of that resource.
OutagesAreExplained ==
  \A e \in ToSet(events) : e.status = "down" =>
    e.incident # NoIncident /\ incidents[e.incident].id[1] = e.resource

\* An incident holds reports of being down, then one of being up once it is
\* closed: an incident that is still open is never dropped for a newer one.
IncidentsAreOutages ==
  \A i \in DOMAIN incidents :
    LET ids    == incidents[i].event_ids
        isOpen == \E r \in Resources : last_incidents[r] = i
    IN /\ \A n \in 1 .. Len(ids) - 1 : events[ids[n]].status = "down"
       /\ ids # <<>> => (events[Last(ids)].status = "up" <=> ~isOpen)
       /\ ids = <<>> => isOpen

\* A closed incident spans its events; its start is before them all.
IncidentSpansItsEvents ==
  \A i \in DOMAIN incidents :
    LET inc == incidents[i] IN
    \A e \in ToSet(inc.event_ids) :
      /\ inc.start < events[e].occurred_at
      /\ (\A r \in Resources : last_incidents[r] # i) => events[e].occurred_at <= inc.end

\* The incidents of one resource do not overlap in time.
IncidentsDoNotOverlap ==
  \A i, j \in DOMAIN incidents :
    i < j /\ incidents[i].id[1] = incidents[j].id[1]
      => incidents[i].end <= incidents[j].start

-----------------------------------------------------------------------------

\* The parts of the inductive invariant on which the properties above rest.

\* The open incident of a resource is one of its own, so no two resources share
\* one, and it is the latest of its incidents.
OpenIncidentIsLatest ==
  \A r \in Resources : last_incidents[r] # NoIncident =>
    /\ incidents[last_incidents[r]].id[1] = r
    /\ \A j \in DOMAIN incidents :
         incidents[j].id[1] = r => j <= last_incidents[r]

\* A resource that is down has an open incident.  One that is up may have one as
\* well, until its next report closes it.
DownMeansOpen ==
  \A r \in Resources : statuses[r] = "down" => last_incidents[r] # NoIncident

\* Everything reported so far lies before the clock.
ClockIsAhead ==
  /\ \A e \in DOMAIN events : events[e].occurred_at < d
  /\ \A i \in DOMAIN incidents : incidents[i].start < d /\ incidents[i].end < d

\* The inductive invariant.
IInv ==
  /\ TypeOK
  /\ OpenIncidentIsLatest
  /\ DownMeansOpen
  /\ ClockIsAhead
  /\ LinksAgree
  /\ OutagesAreExplained
  /\ IncidentsAreOutages
  /\ IncidentSpansItsEvents
  /\ IncidentsDoNotOverlap

\* Ids are computed from a resource and the clock (demo_uuid), so two events, or
\* two incidents, get one id unless the clock moves on between them.
IdsAreUnique ==
  /\ \A e, f \in DOMAIN events : events[e].id = events[f].id => e = f
  /\ \A i, j \in DOMAIN incidents : incidents[i].id = incidents[j].id => i = j

\* An incident lists its events in the order of self.events, each of them once.
EventsAreInOrder ==
  \A i \in DOMAIN incidents :
    LET ids == incidents[i].event_ids
    IN \A m, n \in DOMAIN ids : m < n => ids[m] < ids[n]

\* The date in an id is in the past.
IdsAreDated ==
  /\ \A e \in DOMAIN events : events[e].id[2] < d
  /\ \A i \in DOMAIN incidents : incidents[i].id[2] < d

\* With TypeOK, an inductive invariant of its own.
OrderInv == IdsAreUnique /\ EventsAreInOrder /\ IdsAreDated
=============================================================================
