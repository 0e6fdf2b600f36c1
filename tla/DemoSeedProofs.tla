----------------------------- MODULE DemoSeedProofs -----------------------------
(***************************************************************************)
(* Proofs about DemoSeed, for any resources, any number of iterations and  *)
(* any gaps of the clock.                                                  *)
(***************************************************************************)
EXTENDS DemoSeed, SequenceTheorems, TLAPS

\* The members of a sequence that has grown by one.
LEMMA ToSetAppend ==
  ASSUME NEW S, NEW s \in Seq(S), NEW e \in S
  PROVE  ToSet(Append(s, e)) = ToSet(s) \cup {e}
<1>1. DOMAIN s = 1 .. Len(s) /\ DOMAIN Append(s, e) = 1 .. Len(s) + 1 /\ Len(s) \in Nat
  BY AppendProperties, LenProperties
<1>2. \A i \in 1 .. Len(s) : Append(s, e)[i] = s[i]
  BY AppendProperties
<1>3. Append(s, e)[Len(s) + 1] = e
  BY AppendProperties
<1> QED
  BY <1>1, <1>2, <1>3 DEF ToSet

\* What Filed makes of the open incident of a resource, and that it leaves all
\* the others alone.
LEMMA FiledProperties ==
  ASSUME TypeOK, NEW r \in Resources
  PROVE  /\ Filed(r) \in Seq(Incident)
         /\ Len(Filed(r)) = Len(incidents)
         /\ \A j \in 1 .. Len(incidents) :
              /\ Filed(r)[j].id = incidents[j].id
              /\ Filed(r)[j].start = incidents[j].start
              /\ j # last_incidents[r] => Filed(r)[j] = incidents[j]
              /\ j = last_incidents[r] =>
                   /\ Filed(r)[j].event_ids = Append(incidents[j].event_ids, Len(events) + 1)
                   /\ Filed(r)[j].end = IF statuses[r] = "up" THEN d ELSE incidents[j].end
<1> DEFINE i == last_incidents[r]
           n == Len(events) + 1
           inc == [incidents[i] EXCEPT !.event_ids = Append(@, n),
                                       !.end = IF statuses[r] = "up" THEN d ELSE @]
<1> USE DEF TypeOK
<1>1. i \in 0 .. Len(incidents) /\ Len(incidents) \in Nat
  BY LenProperties
<1>2. n \in Nat
  BY LenProperties
<1>3. CASE i = NoIncident
  BY <1>1, <1>3, LenProperties DEF Filed, NoIncident
<1>4. CASE i # NoIncident
  <2>1. i \in 1 .. Len(incidents)
    BY <1>1, <1>4 DEF NoIncident
  <2>2. incidents[i] \in Incident
    BY <2>1, ElementOfSeq
  <2>3. Append(incidents[i].event_ids, n) \in Seq(Nat)
    BY <1>2, <2>2, AppendProperties DEF Incident
  <2>4. /\ inc \in Incident
        /\ inc.id = incidents[i].id
        /\ inc.start = incidents[i].start
        /\ inc.event_ids = Append(incidents[i].event_ids, n)
        /\ inc.end = IF statuses[r] = "up" THEN d ELSE incidents[i].end
    BY <2>2, <2>3 DEF Incident
  <2>5. Filed(r) = [incidents EXCEPT ![i] = inc]
    BY <1>4, <2>1, <2>2 DEF Filed, Incident
  <2>6. /\ Filed(r) \in Seq(Incident)
        /\ Len(Filed(r)) = Len(incidents)
        /\ \A j \in 1 .. Len(incidents) : Filed(r)[j] = IF j = i THEN inc ELSE incidents[j]
    <3> HIDE DEF inc
    <3> QED
      BY <2>1, <2>4, <2>5, ExceptSeq
  <2> HIDE DEF inc
  <2> QED
    BY <2>4, <2>6
<1> QED
  BY <1>3, <1>4

-----------------------------------------------------------------------------

\* What an iteration for resource r makes of the state, entry by entry: a new
\* event, the open incident filed, and perhaps a new incident opened.
IterateEffect(r) ==
  /\ Len(events') = Len(events) + 1
  /\ \A e \in 1 .. Len(events) : events'[e] = events[e]
  /\ events'[Len(events) + 1] = NewEvent(r)
  /\ Len(incidents') \in {Len(incidents), Len(incidents) + 1}
  /\ \A j \in 1 .. Len(incidents) : incidents'[j] = Filed(r)[j]
  /\ Len(incidents') # Len(incidents) =>
       /\ statuses[r] = "up"
       /\ incidents'[Len(incidents) + 1] = NewIncident(r)
  /\ \A s \in Resources \ {r} : /\ last_incidents'[s] = last_incidents[s]
                                /\ statuses'[s] = statuses[s]
  /\ last_incidents'[r] = IF Len(incidents') # Len(incidents) THEN Len(incidents) + 1
                          ELSE IF statuses[r] = "up" THEN NoIncident
                          ELSE last_incidents[r]
  /\ statuses'[r] = "down" => statuses[r] = "down" \/ Len(incidents') # Len(incidents)
  /\ d < d'

\* Every iteration has this effect, and keeps the types of the lists.
LEMMA IterateHasEffect ==
  ASSUME TypeOK, NEW r \in Resources, Iterate(r)
  PROVE  /\ IterateEffect(r)
         /\ events' \in Seq(Event)
         /\ incidents' \in Seq(Incident)
         /\ statuses' \in [Resources -> {"up", "down"}]
         /\ last_incidents' \in [Resources -> Nat]
         /\ d' \in Nat
<1> USE DEF TypeOK
<1>1. Len(events) \in Nat /\ Len(incidents) \in Nat /\ last_incidents[r] \in Nat
  BY LenProperties
<1>2. NewEvent(r) \in Event
  BY <1>1 DEF NewEvent, Event
<1>3. /\ events' \in Seq(Event)
      /\ Len(events') = Len(events) + 1
      /\ \A e \in 1 .. Len(events) : events'[e] = events[e]
      /\ events'[Len(events) + 1] = NewEvent(r)
  BY <1>2, AppendProperties DEF Iterate
<1>4. NewIncident(r) \in Incident
  BY EmptySeq DEF NewIncident, Incident
<1>5. d' \in Nat /\ d < d'
  BY DemoSeedAssumption DEF Iterate
<1>6. Filed(r) \in Seq(Incident) /\ Len(Filed(r)) = Len(incidents)
  BY FiledProperties
<1>7. StillOpen(r) \in [Resources -> Nat]
  BY <1>1, LenProperties DEF StillOpen, NoIncident
<1>8. CASE incidents' = Filed(r)
  <2>1. last_incidents' = StillOpen(r) /\ \E v \in {"up", statuses[r]} : statuses' = [statuses EXCEPT ![r] = v]
    <3>1. Len(Append(Filed(r), NewIncident(r))) # Len(Filed(r))
      BY <1>1, <1>4, <1>6, AppendProperties
    <3> QED
      BY <1>8, <3>1 DEF Iterate, Keep, Flip
  <2> QED
    BY <1>1, <1>3, <1>5, <1>6, <1>7, <1>8, <2>1 DEF IterateEffect, StillOpen
<1>9. CASE incidents' # Filed(r)
  <2>1. /\ incidents' = Append(Filed(r), NewIncident(r))
        /\ statuses[r] = "up"
        /\ statuses' = [statuses EXCEPT ![r] = "down"]
        /\ last_incidents' = [StillOpen(r) EXCEPT ![r] = Len(incidents) + 1]
    BY <1>9 DEF Iterate, Keep, Flip
  <2>2. /\ incidents' \in Seq(Incident)
        /\ Len(incidents') = Len(incidents) + 1
        /\ \A j \in 1 .. Len(incidents) : incidents'[j] = Filed(r)[j]
        /\ incidents'[Len(incidents) + 1] = NewIncident(r)
    BY <1>4, <1>6, <2>1, AppendProperties
  <2>3. last_incidents' \in [Resources -> Nat]
        /\ \A s \in Resources : last_incidents'[s] = IF s = r THEN Len(incidents) + 1
                                                              ELSE last_incidents[s]
    BY <1>1, <1>7, <2>1 DEF StillOpen
  <2> QED
    BY <1>1, <1>3, <1>5, <2>1, <2>2, <2>3 DEF IterateEffect
<1> QED
  BY <1>8, <1>9

\* Every iteration keeps the types.
LEMMA TypeInductive == TypeOK /\ [Next]_vars => TypeOK'
<1> SUFFICES ASSUME TypeOK, [Next]_vars PROVE TypeOK'
  OBVIOUS
<1>1. ASSUME NEW r \in Resources, Iterate(r)
      PROVE  TypeOK'
  <2> DEFINE m == Len(incidents)
             n == Len(events)
  <2>1. IterateEffect(r) /\ events' \in Seq(Event) /\ incidents' \in Seq(Incident)
        /\ statuses' \in [Resources -> {"up", "down"}]
        /\ last_incidents' \in [Resources -> Nat] /\ d' \in Nat
    BY <1>1, IterateHasEffect
  <2>2. /\ m \in Nat /\ n \in Nat
        /\ last_incidents \in [Resources -> 0 .. m]
    BY LenProperties DEF TypeOK
  <2>3. /\ Len(incidents') = m \/ Len(incidents') = m + 1
        /\ Len(events') = n + 1
    BY <2>1 DEF IterateEffect
  <2>4. DOMAIN incidents = 1 .. m /\ DOMAIN events = 1 .. n
    BY LenProperties DEF TypeOK
  <2>5. DOMAIN incidents' = 1 .. Len(incidents') /\ DOMAIN events' = 1 .. n + 1
    BY <2>1, <2>3, LenProperties
  <2>6. last_incidents' \in [Resources -> 0 .. Len(incidents')]
    <3> SUFFICES ASSUME NEW s \in Resources PROVE last_incidents'[s] \in 0 .. Len(incidents')
      BY <2>1
    <3>1. last_incidents[s] \in 0 .. m
      BY <2>2
    <3>2. CASE last_incidents'[s] = last_incidents[s]
      BY <2>2, <2>3, <3>1, <3>2
    <3>3. CASE last_incidents'[s] # last_incidents[s]
      <4>1. s = r
        BY <2>1, <3>3 DEF IterateEffect
      <4>2. last_incidents'[s] = NoIncident
              \/ (Len(incidents') = m + 1 /\ last_incidents'[s] = m + 1)
        BY <2>1, <2>3, <3>3, <4>1 DEF IterateEffect
      <4> QED
        BY <2>2, <2>3, <4>2 DEF NoIncident
    <3> QED
      BY <3>2, <3>3
  <2>7. \A e \in ToSet(events') : e.incident \in 0 .. Len(incidents')
    <3>1. ASSUME NEW e \in 1 .. n
          PROVE  events'[e].incident \in 0 .. Len(incidents')
      <4>1. events'[e] = events[e]
        BY <2>1 DEF IterateEffect
      <4>2. events[e] \in ToSet(events)
        BY <2>4 DEF ToSet
      <4>3. events[e].incident \in 0 .. m
        BY <4>2 DEF TypeOK
      <4> QED
        BY <2>2, <2>3, <4>1, <4>3
    <3>2. events'[n + 1].incident \in 0 .. Len(incidents')
      <4>1. events'[n + 1].incident = last_incidents[r]
        BY <2>1 DEF IterateEffect, NewEvent
      <4> QED
        BY <2>2, <2>3, <4>1
    <3>3. \A e \in 1 .. n + 1 : e \in 1 .. n \/ e = n + 1
      BY <2>2
    <3>4. \A e \in 1 .. n + 1 : events'[e].incident \in 0 .. Len(incidents')
      BY <3>1, <3>2, <3>3
    <3> QED
      BY <2>5, <3>4 DEF ToSet
  <2>8. \A inc \in ToSet(incidents') : ToSet(inc.event_ids) \subseteq 1 .. n + 1
    <3>1. ASSUME NEW j \in 1 .. m
          PROVE  ToSet(incidents'[j].event_ids) \subseteq 1 .. n + 1
      <4>1. incidents[j] \in Incident
        BY ElementOfSeq DEF TypeOK
      <4>2. incidents[j] \in ToSet(incidents)
        BY <2>4 DEF ToSet
      <4>3. ToSet(incidents[j].event_ids) \subseteq 1 .. n
        BY <2>4, <4>2 DEF TypeOK
      <4>4. incidents'[j].event_ids \in {incidents[j].event_ids,
                                         Append(incidents[j].event_ids, n + 1)}
        <5>1. incidents'[j] = Filed(r)[j]
          BY <2>1 DEF IterateEffect
        <5> QED
          BY <5>1, FiledProperties
      <4>5. ToSet(Append(incidents[j].event_ids, n + 1))
              = ToSet(incidents[j].event_ids) \cup {n + 1}
        <5>1. incidents[j].event_ids \in Seq(Nat) /\ n + 1 \in Nat
          BY <2>2, <4>1 DEF Incident
        <5> QED
          BY <5>1, ToSetAppend
      <4>6. ToSet(incidents'[j].event_ids) \subseteq ToSet(incidents[j].event_ids) \cup {n + 1}
        BY <4>4, <4>5
      <4>7. 1 .. n \subseteq 1 .. n + 1 /\ n + 1 \in 1 .. n + 1
        BY <2>2
      <4> QED
        BY <4>3, <4>6, <4>7
    <3>2. ASSUME Len(incidents') = m + 1
          PROVE  ToSet(incidents'[m + 1].event_ids) \subseteq 1 .. n + 1
      <4>1. incidents'[m + 1] = NewIncident(r)
        BY <2>1, <2>2, <3>2 DEF IterateEffect
      <4>2. incidents'[m + 1].event_ids = <<>>
        BY <4>1 DEF NewIncident
      <4> QED
        BY <4>2, EmptySeq DEF ToSet
    <3>3. \A j \in 1 .. Len(incidents') : j \in 1 .. m \/ (j = m + 1 /\ Len(incidents') = m + 1)
      BY <2>2, <2>3
    <3>4. \A j \in 1 .. Len(incidents') : ToSet(incidents'[j].event_ids) \subseteq 1 .. n + 1
      BY <3>1, <3>2, <3>3
    <3> QED
      BY <2>5, <3>4 DEF ToSet
  <2>9. \A inc \in ToSet(incidents') : ToSet(inc.event_ids) \subseteq DOMAIN events'
    BY <2>5, <2>8
  <2> QED
    BY <2>1, <2>6, <2>7, <2>9 DEF TypeOK
<1>2. CASE UNCHANGED vars
  BY <1>2 DEF vars, TypeOK
<1> QED
  BY <1>1, <1>2 DEF Next

\* The type invariant holds in every reachable state: every event names an
\* incident of the list or none, and every incident events of the list.
THEOREM TypeCorrect == Spec => []TypeOK
<1>1. Init => TypeOK
  BY EmptySeq DEF Init, TypeOK, ToSet, NoIncident
<1>2. QED
  BY <1>1, TypeInductive, PTL DEF Spec

-----------------------------------------------------------------------------

\* The incident is the open one of some resource.
IsOpen(j) == \E r \in Resources : last_incidents[r] = j

\* What the lists hold: the numbers and records that the parts speak of.
LEMMA ListProperties ==
  ASSUME TypeOK
  PROVE  /\ Len(events) \in Nat /\ DOMAIN events = 1 .. Len(events)
         /\ Len(incidents) \in Nat /\ DOMAIN incidents = 1 .. Len(incidents)
         /\ \A e \in 1 .. Len(events) : /\ events[e] \in Event
                                        /\ events[e].incident \in 0 .. Len(incidents)
         /\ \A j \in 1 .. Len(incidents) :
              /\ incidents[j] \in Incident
              /\ ToSet(incidents[j].event_ids) \subseteq 1 .. Len(events)
<1>1. /\ Len(events) \in Nat /\ DOMAIN events = 1 .. Len(events)
      /\ Len(incidents) \in Nat /\ DOMAIN incidents = 1 .. Len(incidents)
  BY LenProperties DEF TypeOK
<1>2. ASSUME NEW e \in 1 .. Len(events)
      PROVE  events[e] \in Event /\ events[e].incident \in 0 .. Len(incidents)
  BY <1>1, ElementOfSeq DEF TypeOK, ToSet
<1>3. ASSUME NEW j \in 1 .. Len(incidents)
      PROVE  incidents[j] \in Incident /\ ToSet(incidents[j].event_ids) \subseteq 1 .. Len(events)
  BY <1>1, ElementOfSeq DEF TypeOK, ToSet
<1> QED
  BY <1>1, <1>2, <1>3

\* An iteration leaves an incident as it was, unless it is the open one of the
\* resource: that takes the new event in, and closes if the resource is up.
LEMMA IncidentAfter ==
  ASSUME TypeOK, OpenIncidentIsLatest, NEW r \in Resources, IterateEffect(r),
         NEW j \in 1 .. Len(incidents)
  PROVE  /\ incidents'[j].id = incidents[j].id
         /\ incidents'[j].start = incidents[j].start
         /\ j # last_incidents[r] => /\ incidents'[j] = incidents[j]
                                     /\ IsOpen(j)' <=> IsOpen(j)
         /\ j = last_incidents[r] =>
              /\ incidents'[j].event_ids = Append(incidents[j].event_ids, Len(events) + 1)
              /\ incidents'[j].end = IF statuses[r] = "up" THEN d ELSE incidents[j].end
              /\ IsOpen(j)' <=> statuses[r] # "up"
              /\ IsOpen(j)
<1>1. incidents'[j] = Filed(r)[j]
  BY DEF IterateEffect
<1>2. /\ incidents'[j].id = incidents[j].id
      /\ incidents'[j].start = incidents[j].start
      /\ j # last_incidents[r] => incidents'[j] = incidents[j]
      /\ j = last_incidents[r] =>
           /\ incidents'[j].event_ids = Append(incidents[j].event_ids, Len(events) + 1)
           /\ incidents'[j].end = IF statuses[r] = "up" THEN d ELSE incidents[j].end
  BY <1>1, FiledProperties
<1>3. Len(incidents) \in Nat /\ j # NoIncident /\ j # Len(incidents) + 1
  BY ListProperties DEF NoIncident
<1>4. \A s \in Resources \ {r} : last_incidents'[s] = last_incidents[s]
  BY DEF IterateEffect
<1>5. last_incidents'[r] = j <=> last_incidents[r] = j /\ statuses[r] # "up"
  BY <1>3 DEF IterateEffect
<1>6. j # last_incidents[r] => (IsOpen(j)' <=> IsOpen(j))
  BY <1>4, <1>5 DEF IsOpen
\* Nobody else has that incident open.
<1>7. j = last_incidents[r] => \A s \in Resources \ {r} : last_incidents[s] # j
  BY <1>3 DEF OpenIncidentIsLatest
<1>8. j = last_incidents[r] => IsOpen(j) /\ (IsOpen(j)' <=> statuses[r] # "up")
  BY <1>4, <1>5, <1>7 DEF IsOpen
<1> QED
  BY <1>2, <1>6, <1>8

\* A new incident is the open one of its resource, has no event yet, and starts
\* and ends now.
LEMMA IncidentOpened ==
  ASSUME TypeOK, NEW r \in Resources, IterateEffect(r),
         NEW j \in 1 .. Len(incidents'), j \notin 1 .. Len(incidents)
  PROVE  /\ j = Len(incidents) + 1
         /\ statuses[r] = "up"
         /\ last_incidents'[r] = j
         /\ IsOpen(j)'
         /\ incidents'[j].id[1] = r
         /\ incidents'[j].event_ids = <<>>
         /\ ToSet(incidents'[j].event_ids) = {}
         /\ incidents'[j].start = d
         /\ incidents'[j].end = d
<1>1. Len(incidents) \in Nat
  BY ListProperties
<1>2. j = Len(incidents) + 1 /\ Len(incidents') # Len(incidents)
  BY <1>1 DEF IterateEffect
<1>3. statuses[r] = "up" /\ last_incidents'[r] = j /\ IsOpen(j)'
  BY <1>2 DEF IterateEffect, IsOpen
<1>4. incidents'[j] = NewIncident(r)
  BY <1>2 DEF IterateEffect
<1>5. NewIncident(r).event_ids = <<>> /\ ToSet(NewIncident(r).event_ids) = {}
  BY EmptySeq DEF NewIncident, ToSet
<1>6. NewIncident(r).id[1] = r /\ NewIncident(r).start = d /\ NewIncident(r).end = d
  BY DEF NewIncident
<1> QED
  BY <1>2, <1>3, <1>4, <1>5, <1>6

\* The inductive invariant is preserved: one step per part.  An incident of the
\* list is as it was, or has just taken the new event in, or is new.
LEMMA InvariantInductive == IInv /\ [Next]_vars => IInv'
<1> SUFFICES ASSUME IInv, [Next]_vars PROVE IInv'
  OBVIOUS
<1>0. TypeOK /\ TypeOK' /\ OpenIncidentIsLatest
  BY TypeInductive DEF IInv
<1>1. ASSUME NEW r \in Resources, Iterate(r)
      PROVE  IInv'
  <2> DEFINE m == Len(incidents)
             n == Len(events)
             i == last_incidents[r]
  <2>1. IterateEffect(r)
    BY <1>0, <1>1, IterateHasEffect
  <2>2. /\ m \in Nat /\ n \in Nat /\ i \in 0 .. m
        /\ Len(events') = n + 1
        /\ Len(incidents') = m \/ Len(incidents') = m + 1
    BY <1>0, <2>1, ListProperties DEF IterateEffect, TypeOK
  <2>3. /\ DOMAIN events = 1 .. n /\ DOMAIN events' = 1 .. n + 1
        /\ DOMAIN incidents = 1 .. m /\ DOMAIN incidents' = 1 .. Len(incidents')
    BY <1>0, <2>1, LenProperties DEF TypeOK, IterateEffect
  <2>4. /\ \A e \in 1 .. n : events'[e] = events[e]
        /\ events'[n + 1] = NewEvent(r)
    BY <2>1 DEF IterateEffect
  <2>5. /\ \A e \in 1 .. n : events[e] \in Event /\ events[e].incident \in 0 .. m
        /\ \A j \in 1 .. m : /\ incidents[j] \in Incident
                             /\ incidents[j].event_ids \in Seq(Nat)
                             /\ ToSet(incidents[j].event_ids) \subseteq 1 .. n
    BY <1>0, ListProperties DEF Incident
  <2>6. \A j \in 1 .. m : ToSet(Append(incidents[j].event_ids, n + 1))
                            = ToSet(incidents[j].event_ids) \cup {n + 1}
    BY <2>2, <2>5, ToSetAppend
  <2>7. d \in Nat /\ d < d'
    BY <1>0, <2>1 DEF TypeOK, IterateEffect
  <2>8. OpenIncidentIsLatest'
    <3> SUFFICES ASSUME NEW s \in Resources, last_incidents'[s] # NoIncident
                 PROVE  /\ incidents'[last_incidents'[s]].id[1] = s
                        /\ \A j \in 1 .. Len(incidents') :
                             incidents'[j].id[1] = s => j <= last_incidents'[s]
      BY <2>3 DEF OpenIncidentIsLatest
    <3>1. CASE Len(incidents') # m /\ s = r
      <4>1. last_incidents'[s] = m + 1 /\ incidents'[m + 1] = NewIncident(r)
        BY <2>1, <3>1 DEF IterateEffect
      <4> QED
        BY <2>2, <3>1, <4>1 DEF NewIncident
    <3>2. CASE Len(incidents') = m \/ s # r
      <4>1. last_incidents'[s] = last_incidents[s]
        BY <2>1, <3>2 DEF IterateEffect
      <4>2. last_incidents[s] \in 1 .. m
        BY <1>0, <2>2, <4>1 DEF TypeOK, NoIncident
      <4>3. /\ incidents[last_incidents[s]].id[1] = s
            /\ \A j \in 1 .. m : incidents[j].id[1] = s => j <= last_incidents[s]
        BY <1>0, <2>3, <4>1 DEF OpenIncidentIsLatest
      <4>4. ASSUME NEW j \in 1 .. Len(incidents'), incidents'[j].id[1] = s
            PROVE  j \in 1 .. m
        <5> SUFFICES ASSUME j \notin 1 .. m PROVE FALSE
          OBVIOUS
        <5>1. j = m + 1 /\ incidents'[j].id[1] = r
          BY <1>0, <2>1, IncidentOpened
        <5> QED
          BY <2>2, <3>2, <4>4, <5>1
      <4>5. \A j \in 1 .. m : incidents'[j].id = incidents[j].id
        BY <1>0, <2>1, IncidentAfter
      <4> QED
        BY <4>1, <4>2, <4>3, <4>4, <4>5
    <3> QED
      BY <3>1, <3>2
  <2>9. DownMeansOpen'
    <3> SUFFICES ASSUME NEW s \in Resources, statuses'[s] = "down"
                 PROVE  last_incidents'[s] # NoIncident
      BY DEF DownMeansOpen
    <3>1. CASE s # r
      BY <2>1, <3>1 DEF IInv, DownMeansOpen, IterateEffect
    <3>2. CASE s = r /\ Len(incidents') # m
      BY <2>1, <2>2, <3>2 DEF IterateEffect, NoIncident
    <3>3. CASE s = r /\ Len(incidents') = m
      BY <2>1, <3>3 DEF IInv, DownMeansOpen, IterateEffect
    <3> QED
      BY <3>1, <3>2, <3>3
  <2>10. ClockIsAhead'
    <3>1. \A e \in 1 .. n + 1 : events'[e].occurred_at < d'
      <4> SUFFICES ASSUME NEW e \in 1 .. n + 1 PROVE events'[e].occurred_at < d'
        OBVIOUS
      <4>1. events'[e].occurred_at \in Nat /\ events'[e].occurred_at <= d
        <5>1. CASE e \in 1 .. n
          BY <2>3, <2>4, <2>5, <2>7, <5>1 DEF IInv, ClockIsAhead, Event
        <5>2. CASE e = n + 1
          BY <2>4, <2>7, <5>2 DEF NewEvent
        <5> QED
          BY <2>2, <5>1, <5>2
      <4> QED
        BY <1>0, <2>7, <4>1 DEF TypeOK
    <3>2. \A j \in 1 .. Len(incidents') : incidents'[j].start < d' /\ incidents'[j].end < d'
      <4> SUFFICES ASSUME NEW j \in 1 .. Len(incidents')
                   PROVE  incidents'[j].start < d' /\ incidents'[j].end < d'
        OBVIOUS
      <4>1. CASE j \in 1 .. m
        <5>1. /\ incidents[j].start \in Nat /\ incidents[j].start < d
              /\ incidents[j].end \in Nat /\ incidents[j].end < d
          BY <2>3, <2>5, <4>1 DEF IInv, ClockIsAhead, Incident
        <5>2. /\ incidents'[j].start = incidents[j].start
              /\ incidents'[j].end \in {incidents[j].end, d}
          BY <1>0, <2>1, <4>1, IncidentAfter
        <5>3. d \in Nat /\ d' \in Nat /\ d < d'
          BY <1>0, <2>7 DEF TypeOK
        <5> QED
          BY <5>1, <5>2, <5>3
      <4>2. CASE j \notin 1 .. m
        BY <1>0, <2>1, <2>7, <4>2, IncidentOpened
      <4> QED
        BY <4>1, <4>2
    <3> QED
      BY <2>3, <3>1, <3>2 DEF ClockIsAhead
  <2>11. LinksAgree'
    <3> SUFFICES ASSUME NEW e \in 1 .. n + 1, NEW j \in 1 .. Len(incidents')
                 PROVE  events'[e].incident = j <=> e \in ToSet(incidents'[j].event_ids)
      BY <2>3 DEF LinksAgree
    <3>1. events'[e].incident = IF e = n + 1 THEN i ELSE events[e].incident
      BY <2>2, <2>4 DEF NewEvent
    <3>2. CASE j \in 1 .. m
      <4>1. e \in 1 .. n => (events[e].incident = j <=> e \in ToSet(incidents[j].event_ids))
        BY <2>3, <3>2 DEF IInv, LinksAgree
      <4>2. n + 1 \notin ToSet(incidents[j].event_ids)
        <5>1. ToSet(incidents[j].event_ids) \subseteq 1 .. n
          BY <2>5, <3>2
        <5> QED
          BY <2>2, <5>1
      <4>3. ToSet(incidents'[j].event_ids) = IF j = i THEN ToSet(incidents[j].event_ids) \cup {n + 1}
                                             ELSE ToSet(incidents[j].event_ids)
        <5>1. incidents'[j].event_ids = IF j = i THEN Append(incidents[j].event_ids, n + 1)
                                        ELSE incidents[j].event_ids
          BY <1>0, <2>1, <3>2, IncidentAfter
        <5> QED
          BY <2>6, <3>2, <5>1
      <4>4. e = n + 1 \/ (e \in 1 .. n /\ e # n + 1)
        BY <2>2
      <4> QED
        BY <3>1, <4>1, <4>2, <4>3, <4>4
    <3>3. CASE j \notin 1 .. m
      <4>1. j = m + 1 /\ ToSet(incidents'[j].event_ids) = {}
        BY <1>0, <2>1, <3>3, IncidentOpened
      <4>2. events'[e].incident \in 0 .. m
        BY <2>2, <2>5, <3>1
      <4> QED
        BY <2>2, <4>1, <4>2
    <3> QED
      BY <3>2, <3>3
  <2>12. OutagesAreExplained'
    <3> SUFFICES ASSUME NEW e \in 1 .. n + 1, events'[e].status = "down"
                 PROVE  /\ events'[e].incident # NoIncident
                        /\ incidents'[events'[e].incident].id[1] = events'[e].resource
      BY <2>3 DEF OutagesAreExplained, ToSet
    <3>1. \A j \in 1 .. m : incidents'[j].id = incidents[j].id
      BY <1>0, <2>1, IncidentAfter
    <3>2. CASE e \in 1 .. n
      <4>1. events'[e] = events[e] /\ events[e] \in ToSet(events)
        BY <2>3, <2>4, <3>2 DEF ToSet
      <4>2. events[e].incident # NoIncident
            /\ incidents[events[e].incident].id[1] = events[e].resource
        BY <4>1 DEF IInv, OutagesAreExplained
      <4>3. events[e].incident \in 1 .. m
        BY <2>2, <2>5, <3>2, <4>2 DEF NoIncident
      <4> QED
        BY <3>1, <4>1, <4>2, <4>3
    <3>3. CASE e = n + 1
      <4>1. /\ events'[e].status = statuses[r] /\ events'[e].incident = i
            /\ events'[e].resource = r
        BY <2>4, <3>3 DEF NewEvent
      <4>2. i # NoIncident /\ incidents[i].id[1] = r
        BY <4>1 DEF IInv, DownMeansOpen, OpenIncidentIsLatest
      <4>3. i \in 1 .. m
        BY <2>2, <4>2 DEF NoIncident
      <4> QED
        BY <3>1, <4>1, <4>2, <4>3
    <3> QED
      BY <2>2, <3>2, <3>3
  <2>13. IncidentsAreOutages'
    <3> SUFFICES ASSUME NEW j \in 1 .. Len(incidents')
                 PROVE  LET ids == incidents'[j].event_ids
                        IN /\ \A k \in 1 .. Len(ids) - 1 : events'[ids[k]].status = "down"
                           /\ ids # <<>> => (events'[Last(ids)].status = "up" <=> ~IsOpen(j)')
                           /\ ids = <<>> => IsOpen(j)'
      BY <2>3 DEF IncidentsAreOutages, IsOpen
    <3>1. CASE j \in 1 .. m
      <4> DEFINE ids == incidents[j].event_ids
      <4>1. /\ \A k \in 1 .. Len(ids) - 1 : events[ids[k]].status = "down"
            /\ ids # <<>> => (events[Last(ids)].status = "up" <=> ~IsOpen(j))
            /\ ids = <<>> => IsOpen(j)
        BY <2>3, <3>1 DEF IInv, IncidentsAreOutages, IsOpen
      <4>2. ids \in Seq(Nat) /\ Len(ids) \in Nat /\ (ids # <<>> => Len(ids) \in 1 .. Len(ids))
        BY <2>5, <3>1, LenProperties, EmptySeq
      <4>3. \A k \in 1 .. Len(ids) : ids[k] \in 1 .. n /\ events'[ids[k]] = events[ids[k]]
        <5>1. \A k \in 1 .. Len(ids) : ids[k] \in ToSet(ids)
          BY <4>2, LenProperties DEF ToSet
        <5> QED
          BY <2>4, <2>5, <3>1, <5>1
      <4>4. CASE j # i
        <5>1. incidents'[j] = incidents[j] /\ (IsOpen(j)' <=> IsOpen(j))
          BY <1>0, <2>1, <3>1, <4>4, IncidentAfter
        <5>2. ASSUME NEW k \in 1 .. Len(ids) - 1
              PROVE  events'[ids[k]].status = "down"
          <6>1. k \in 1 .. Len(ids)
            BY <4>2
          <6> QED
            BY <4>1, <4>3, <6>1
        <5>3. ids # <<>> => events'[Last(ids)] = events[Last(ids)]
          BY <4>2, <4>3 DEF Last
        <5> QED
          BY <4>1, <5>1, <5>2, <5>3
      <4>5. CASE j = i
        <5> DEFINE new == Append(ids, n + 1)
        <5>1. /\ incidents'[j].event_ids = new
              /\ IsOpen(j)' <=> statuses[r] # "up"
              /\ IsOpen(j)
          BY <1>0, <2>1, <3>1, <4>5, IncidentAfter
        <5>2. /\ new # <<>> /\ Len(new) = Len(ids) + 1 /\ new[Len(ids) + 1] = n + 1
              /\ \A k \in 1 .. Len(ids) : new[k] = ids[k]
          <6>1. n + 1 \in Nat /\ ids \in Seq(Nat)
            BY <2>2, <4>2
          <6> HIDE DEF ids
          <6> QED
            BY <6>1, AppendProperties, SMT
        <5>3. \A k \in 1 .. Len(ids) : events'[ids[k]].status = "down"
          <6> SUFFICES ASSUME NEW k \in 1 .. Len(ids) PROVE events[ids[k]].status = "down"
            BY <4>3
          <6>1. events[ids[k]].status \in {"up", "down"}
            BY <2>5, <4>3 DEF Event
          <6>2. CASE k = Len(ids)
            <7>1. ids # <<>>
              BY <4>2, <6>2, EmptySeq
            <7> QED
              BY <4>1, <5>1, <6>1, <6>2, <7>1 DEF Last
          <6>3. CASE k # Len(ids)
            BY <4>1, <4>2, <6>3
          <6> QED
            BY <6>2, <6>3
        <5>4. \A k \in 1 .. Len(new) - 1 : events'[new[k]].status = "down"
          BY <4>2, <5>2, <5>3
        <5>5. events'[Last(new)].status = statuses[r]
          BY <2>4, <5>2 DEF Last, NewEvent
        <5> HIDE DEF new
        <5> QED
          BY <5>1, <5>2, <5>4, <5>5
      <4> QED
        BY <4>4, <4>5
    <3>2. CASE j \notin 1 .. m
      <4>1. incidents'[j].event_ids = <<>> /\ IsOpen(j)'
        BY <1>0, <2>1, <3>2, IncidentOpened
      <4>2. 1 .. Len(<<>>) - 1 = {}
        BY EmptySeq
      <4> QED
        BY <4>1, <4>2
    <3> QED
      BY <3>1, <3>2
  <2>14. IncidentSpansItsEvents'
    <3> SUFFICES ASSUME NEW j \in 1 .. Len(incidents'), NEW e \in ToSet(incidents'[j].event_ids)
                 PROVE  /\ incidents'[j].start < events'[e].occurred_at
                        /\ ~IsOpen(j)' => events'[e].occurred_at <= incidents'[j].end
      BY <2>3 DEF IncidentSpansItsEvents, IsOpen
    <3>1. j \in 1 .. m
      <4> SUFFICES ASSUME j \notin 1 .. m PROVE FALSE
        OBVIOUS
      <4>1. ToSet(incidents'[j].event_ids) = {}
        BY <1>0, <2>1, IncidentOpened
      <4> QED
        BY <4>1
    <3>2. /\ incidents[j].start \in Nat /\ incidents[j].start < d
          /\ incidents'[j].start = incidents[j].start
      BY <1>0, <2>1, <2>3, <2>5, <3>1, IncidentAfter DEF IInv, ClockIsAhead, Incident
    <3>3. CASE e \in ToSet(incidents[j].event_ids)
      <4>1. e \in 1 .. n /\ events'[e] = events[e]
        BY <2>4, <2>5, <3>1, <3>3
      <4>2. events[e].occurred_at \in Nat /\ events[e].occurred_at < d
        BY <2>3, <2>5, <4>1 DEF IInv, ClockIsAhead, Event
      <4>3. /\ incidents[j].start < events[e].occurred_at
            /\ ~IsOpen(j) => events[e].occurred_at <= incidents[j].end
        BY <2>3, <3>1, <3>3 DEF IInv, IncidentSpansItsEvents, IsOpen
      <4>4. \/ incidents'[j].end = incidents[j].end /\ (IsOpen(j)' <=> IsOpen(j))
            \/ incidents'[j].end = d
            \/ IsOpen(j)'
        BY <1>0, <2>1, <3>1, IncidentAfter
      <4> QED
        BY <2>7, <3>2, <4>1, <4>2, <4>3, <4>4
    <3>4. CASE e \notin ToSet(incidents[j].event_ids)
      <4>1. j = i /\ e = n + 1
        <5>1. incidents'[j].event_ids \in {incidents[j].event_ids,
                                           Append(incidents[j].event_ids, n + 1)}
              /\ (j # i => incidents'[j].event_ids = incidents[j].event_ids)
          BY <1>0, <2>1, <3>1, IncidentAfter
        <5>2. ToSet(incidents'[j].event_ids) \subseteq ToSet(incidents[j].event_ids) \cup {n + 1}
          BY <2>6, <3>1, <5>1
        <5> QED
          BY <3>4, <5>1, <5>2
      <4>2. events'[e].occurred_at = d
        BY <2>4, <4>1 DEF NewEvent
      <4>3. ~IsOpen(j)' => incidents'[j].end = d
        BY <1>0, <2>1, <3>1, <4>1, IncidentAfter
      <4> QED
        BY <2>7, <3>2, <4>2, <4>3
    <3> QED
      BY <3>3, <3>4
  <2>15. IncidentsDoNotOverlap'
    <3> SUFFICES ASSUME NEW j \in 1 .. Len(incidents'), NEW k \in 1 .. Len(incidents'),
                        j < k, incidents'[j].id[1] = incidents'[k].id[1]
                 PROVE  incidents'[j].end <= incidents'[k].start
      BY <2>3 DEF IncidentsDoNotOverlap
    <3>1. j \in 1 .. m
      BY <2>2
    <3>2. /\ incidents'[j].id = incidents[j].id
          /\ j # i => incidents'[j].end = incidents[j].end
          /\ incidents'[j].end \in {incidents[j].end, d}
      BY <1>0, <2>1, <3>1, IncidentAfter
    <3>3. CASE k \in 1 .. m
      <4>1. incidents'[k].id = incidents[k].id /\ incidents'[k].start = incidents[k].start
        BY <1>0, <2>1, <3>3, IncidentAfter
      \* An incident that ends now is the latest of its resource.
      <4>2. j # i
        <5> SUFFICES ASSUME j = i PROVE FALSE
          OBVIOUS
        <5>1. i # NoIncident
          BY <3>1 DEF NoIncident
        <5>2. incidents[j].id[1] = r /\ (incidents[k].id[1] = r => k <= j)
          BY <1>0, <2>3, <3>3, <5>1 DEF OpenIncidentIsLatest
        <5> QED
          BY <2>2, <3>2, <4>1, <5>2
      <4>3. incidents[j].end <= incidents[k].start
        BY <2>3, <3>1, <3>2, <3>3, <4>1 DEF IInv, IncidentsDoNotOverlap
      <4> QED
        BY <3>2, <4>1, <4>2, <4>3
    <3>4. CASE k \notin 1 .. m
      <4>1. incidents'[k].start = d
        BY <1>0, <2>1, <3>4, IncidentOpened
      <4>2. incidents[j].end \in Nat /\ incidents[j].end < d
        BY <2>3, <2>5, <3>1 DEF IInv, ClockIsAhead, Incident
      <4> QED
        BY <2>7, <3>2, <4>1, <4>2
    <3> QED
      BY <3>3, <3>4
  <2> QED
    BY <1>0, <2>8, <2>9, <2>10, <2>11, <2>12, <2>13, <2>14, <2>15 DEF IInv
<1>2. CASE UNCHANGED vars
  BY <1>2 DEF vars, IInv, TypeOK, OpenIncidentIsLatest, DownMeansOpen, ClockIsAhead, LinksAgree,
     OutagesAreExplained, IncidentsAreOutages, IncidentSpansItsEvents, IncidentsDoNotOverlap
<1> QED
  BY <1>1, <1>2 DEF Next

\* The inductive invariant holds in every reachable state.
THEOREM InvariantCorrect == Spec => []IInv
<1>1. Init => IInv
  <2> SUFFICES ASSUME Init PROVE IInv
    OBVIOUS
  <2>1. TypeOK
    BY EmptySeq DEF Init, TypeOK, ToSet, NoIncident
  <2>2. DOMAIN events = {} /\ DOMAIN incidents = {} /\ ToSet(events) = {}
    BY EmptySeq DEF Init, ToSet
  <2>3. OpenIncidentIsLatest /\ DownMeansOpen
    BY DEF Init, OpenIncidentIsLatest, DownMeansOpen
  <2>4. ClockIsAhead /\ LinksAgree /\ OutagesAreExplained
    BY <2>2 DEF ClockIsAhead, LinksAgree, OutagesAreExplained
  <2>5. IncidentsAreOutages /\ IncidentSpansItsEvents /\ IncidentsDoNotOverlap
    BY <2>2 DEF IncidentsAreOutages, IncidentSpansItsEvents, IncidentsDoNotOverlap
  <2> QED
    BY <2>1, <2>3, <2>4, <2>5 DEF IInv
<1>2. QED
  BY <1>1, InvariantInductive, PTL DEF Spec

-----------------------------------------------------------------------------

\* The two directions of the relation of events and incidents never disagree:
\* an event names the incident that lists it, and no other lists it.
THEOREM LinksAgreeCorrect == Spec => []LinksAgree
<1>1. IInv => LinksAgree
  BY DEF IInv
<1>2. QED
  BY <1>1, InvariantCorrect, PTL

\* Every report of a resource being down names an incident of that resource.
THEOREM OutagesAreExplainedCorrect == Spec => []OutagesAreExplained
<1>1. IInv => OutagesAreExplained
  BY DEF IInv
<1>2. QED
  BY <1>1, InvariantCorrect, PTL

\* An incident holds reports of being down and, once closed, one of being up.
THEOREM IncidentsAreOutagesCorrect == Spec => []IncidentsAreOutages
<1>1. IInv => IncidentsAreOutages
  BY DEF IInv
<1>2. QED
  BY <1>1, InvariantCorrect, PTL

\* An incident starts before all its events, and ends no earlier than they do.
THEOREM IncidentSpansItsEventsCorrect == Spec => []IncidentSpansItsEvents
<1>1. IInv => IncidentSpansItsEvents
  BY DEF IInv
<1>2. QED
  BY <1>1, InvariantCorrect, PTL

\* No two incidents of one resource overlap.
THEOREM IncidentsDoNotOverlapCorrect == Spec => []IncidentsDoNotOverlap
<1>1. IInv => IncidentsDoNotOverlap
  BY DEF IInv
<1>2. QED
  BY <1>1, InvariantCorrect, PTL

-----------------------------------------------------------------------------

\* The order of the lists is preserved: the clock is ahead of the dates in all
\* ids, and an event that is filed is the latest.
LEMMA OrderInductive == TypeOK /\ OrderInv /\ [Next]_vars => OrderInv'
<1> SUFFICES ASSUME TypeOK, OrderInv, [Next]_vars PROVE OrderInv'
  OBVIOUS
<1>1. ASSUME NEW r \in Resources, Iterate(r) PROVE OrderInv'
  <2> DEFINE n == Len(events)
             m == Len(incidents)
  <2>1. TypeOK'
    BY TypeInductive, <1>1 DEF Next
  <2>2. IterateEffect(r)
    BY IterateHasEffect, <1>1
  <2>0. /\ n \in Nat /\ m \in Nat /\ d \in Nat /\ d' \in Nat /\ d < d'
        /\ Len(incidents') = m \/ Len(incidents') = m + 1
    BY <2>1, <2>2, ListProperties DEF IterateEffect, TypeOK
  <2>3. /\ DOMAIN events = 1 .. n /\ DOMAIN incidents = 1 .. m
        /\ DOMAIN events' = 1 .. n + 1
        /\ DOMAIN incidents' = 1 .. Len(incidents')
    BY <2>1, <2>2, ListProperties, LenProperties DEF IterateEffect, TypeOK
  <2>4. ASSUME NEW e \in 1 .. n + 1
        PROVE  /\ e \in 1 .. n => events'[e] = events[e] /\ events[e].id[2] \in Nat
                                  /\ events[e].id[2] < d
               /\ e \notin 1 .. n => e = n + 1 /\ events'[e].id[2] = d
    <3>1. CASE e \in 1 .. n
      BY <2>2, <2>3, <3>1, ListProperties DEF IterateEffect, Event, OrderInv, IdsAreDated
    <3>2. CASE e \notin 1 .. n
      <4>1. e = n + 1
        BY <2>0, <3>2
      <4>2. events'[n + 1] = NewEvent(r)
        BY <2>2 DEF IterateEffect
      <4> QED
        BY <3>2, <4>1, <4>2 DEF NewEvent
    <3> QED
      BY <3>1, <3>2
  <2>5. ASSUME NEW j \in 1 .. Len(incidents')
        PROVE  /\ j \in 1 .. m => incidents'[j].id = incidents[j].id /\ incidents[j].id[2] \in Nat
                                  /\ incidents[j].id[2] < d
               /\ j \notin 1 .. m => j = m + 1 /\ incidents'[j].id[2] = d
                                     /\ incidents'[j].event_ids = <<>>
    <3>1. CASE j \in 1 .. m
      <4>1. incidents'[j].id = incidents[j].id
        BY <1>1, <2>2, <3>1, FiledProperties DEF IterateEffect
      <4>2. incidents[j].id \in Resources \X Nat
        BY <3>1, ListProperties DEF Incident
      <4>3. incidents[j].id[2] < d
        BY <2>3, <3>1 DEF OrderInv, IdsAreDated
      <4> QED
        BY <3>1, <4>1, <4>2, <4>3
    <3>2. CASE j \notin 1 .. m
      <4>1. j = m + 1 /\ Len(incidents') # m
        BY <2>0, <3>2
      <4>2. incidents'[m + 1] = NewIncident(r)
        BY <2>2, <4>1 DEF IterateEffect
      <4> QED
        BY <3>2, <4>1, <4>2 DEF NewIncident
    <3> QED
      BY <3>1, <3>2
  <2>6. IdsAreDated'
    <3>1. ASSUME NEW e \in 1 .. n + 1 PROVE events'[e].id[2] < d'
      <4>1. events'[e].id[2] \in Nat /\ events'[e].id[2] <= d
        BY <2>0, <2>4
      <4> QED
        BY <2>0, <4>1
    <3>2. ASSUME NEW j \in 1 .. Len(incidents') PROVE incidents'[j].id[2] < d'
      <4>1. incidents'[j].id[2] \in Nat /\ incidents'[j].id[2] <= d
        BY <2>0, <2>5
      <4> QED
        BY <2>0, <4>1
    <3> QED
      BY <2>3, <3>1, <3>2 DEF IdsAreDated
  <2>7. IdsAreUnique'
    <3>1. ASSUME NEW e \in 1 .. n + 1, NEW f \in 1 .. n + 1, events'[e].id = events'[f].id
          PROVE  e = f
      <4>1. CASE e \in 1 .. n /\ f \in 1 .. n
        BY <2>3, <2>4, <3>1, <4>1 DEF OrderInv, IdsAreUnique
      <4>2. CASE ~(e \in 1 .. n /\ f \in 1 .. n)
        BY SMTT(30), <2>0, <2>4, <3>1, <4>2
      <4> QED
        BY <4>1, <4>2
    <3>2. ASSUME NEW i \in 1 .. Len(incidents'), NEW j \in 1 .. Len(incidents'),
                 incidents'[i].id = incidents'[j].id
          PROVE  i = j
      <4>1. CASE i \in 1 .. m /\ j \in 1 .. m
        BY <2>3, <2>5, <3>2, <4>1 DEF OrderInv, IdsAreUnique
      <4>2. CASE ~(i \in 1 .. m /\ j \in 1 .. m)
        <5>1. incidents'[i].id[2] = incidents'[j].id[2]
          BY <3>2
        <5>2. \A k \in {i, j} : k \in 1 .. m => incidents'[k].id[2] \in Nat /\ incidents'[k].id[2] < d
          BY <2>5
        <5>3. \A k \in {i, j} : k \notin 1 .. m => k = m + 1 /\ incidents'[k].id[2] = d
          BY <2>5
        <5> QED
          BY SMTT(30), <2>0, <4>2, <5>1, <5>2, <5>3
      <4> QED
        BY <4>1, <4>2
    <3> QED
      BY <2>3, <3>1, <3>2 DEF IdsAreUnique
  <2>8. EventsAreInOrder'
    <3> SUFFICES ASSUME NEW j \in 1 .. Len(incidents'),
                        NEW a \in DOMAIN incidents'[j].event_ids,
                        NEW b \in DOMAIN incidents'[j].event_ids, a < b
                 PROVE  incidents'[j].event_ids[a] < incidents'[j].event_ids[b]
      BY <2>3 DEF EventsAreInOrder
    <3> DEFINE ids == incidents[j].event_ids
    <3>1. j \in 1 .. m
      BY <2>5, EmptySeq
    <3>2. /\ ids \in Seq(Nat) /\ DOMAIN ids = 1 .. Len(ids) /\ Len(ids) \in Nat
          /\ \A k \in 1 .. Len(ids) : ids[k] \in 1 .. n
      <4>1. ids \in Seq(Nat) /\ ToSet(ids) \subseteq 1 .. n
        BY <3>1, ListProperties DEF Incident
      <4> QED
        BY <4>1, LenProperties DEF ToSet
    <3>3. \A k, l \in 1 .. Len(ids) : k < l => ids[k] < ids[l]
      BY <2>3, <3>1, <3>2 DEF OrderInv, EventsAreInOrder
    <3>4. \/ incidents'[j].event_ids = ids
          \/ incidents'[j].event_ids = Append(ids, n + 1)
      BY <1>1, <2>2, <3>1, FiledProperties DEF IterateEffect
    <3>5. CASE incidents'[j].event_ids = ids
      BY <3>2, <3>3, <3>5
    <3>6. CASE incidents'[j].event_ids = Append(ids, n + 1)
      <4> DEFINE new == Append(ids, n + 1)
      <4>1. /\ DOMAIN new = 1 .. Len(ids) + 1
            /\ \A k \in 1 .. Len(ids) : new[k] = ids[k]
            /\ new[Len(ids) + 1] = n + 1
        BY <2>0, <3>2, AppendProperties, LenProperties
      <4> HIDE DEF new
      <4>2. a \in 1 .. Len(ids) /\ b \in 1 .. Len(ids) + 1
        BY <3>2, <3>6, <4>1 DEF new
      <4>3. new[a] \in 1 .. n /\ new[a] = ids[a]
        BY <3>2, <4>1, <4>2
      <4>4. Len(ids) \in Nat
        BY <3>2
      <4>5. new[a] < new[b]
        <5>1. CASE b \in 1 .. Len(ids)
          <6>1. new[b] = ids[b] /\ ids[a] < ids[b]
            BY <3>3, <4>1, <4>2, <5>1
          <6> QED
            BY <4>3, <6>1
        <5>2. CASE b \notin 1 .. Len(ids)
          <6>1. b = Len(ids) + 1
            BY <4>2, <4>4, <5>2
          <6> QED
            BY <2>0, <4>1, <4>3, <6>1
        <5> QED
          BY <5>1, <5>2
      <4> QED
        BY <3>6, <4>5 DEF new
    <3> QED
      BY <3>4, <3>5, <3>6
  <2> QED
    BY <2>6, <2>7, <2>8 DEF OrderInv
<1>2. CASE UNCHANGED vars
  BY <1>2 DEF vars, OrderInv, IdsAreUnique, EventsAreInOrder, IdsAreDated
<1> QED
  BY <1>1, <1>2 DEF Next

\* The lists are in order in every reachable state.
THEOREM OrderCorrect == Spec => []OrderInv
<1>1. Init => OrderInv
  <2> SUFFICES ASSUME Init PROVE OrderInv
    OBVIOUS
  <2>1. DOMAIN events = {} /\ DOMAIN incidents = {}
    BY EmptySeq DEF Init
  <2> QED
    BY <2>1 DEF OrderInv, IdsAreUnique, EventsAreInOrder, IdsAreDated
<1>2. QED
  BY <1>1, OrderInductive, TypeCorrect, PTL DEF Spec

\* No two events and no two incidents get one id: an id that is looked up leads
\* to one object.
THEOREM IdsAreUniqueCorrect == Spec => []IdsAreUnique
<1>1. OrderInv => IdsAreUnique
  BY DEF OrderInv
<1>2. QED
  BY <1>1, OrderCorrect, PTL
=============================================================================
