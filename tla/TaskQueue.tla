----------------------------- MODULE TaskQueue -----------------------------
(***************************************************************************)
(* DemoTaskQueue and TaskDemoAdapter (demo_adapter/task/adapter.py).       *)
(*                                                                         *)
(* No worker drives the queue: every call of the task API first runs       *)
(* process_tasks, which walks the list, activates the tasks that have      *)
(* waited long enough, hands those that have been active long enough to    *)
(* on_task, drops the old finished ones, and replaces the list.  The walk  *)
(* stops only in the await of on_task, so a call is one step up to the     *)
(* first task to execute, one step per task executed, and the rest of the  *)
(* call belongs to the last of these steps.                                *)
(*                                                                         *)
(* Yields says whether the filesystem adapter behind on_task ever gives    *)
(* the event loop away.  The demo one does not (it blocks in subprocess);  *)
(* one that awaits its storage does, and then calls overlap.               *)
(***************************************************************************)
EXTENDS Naturals, SequencesExt, Lists

CONSTANTS Callers,    \* requests the task API serves at the same time
          Users,      \* user names
          UpdateSecs, \* DEMO_QUEUE_UPDATE_SECS, in ticks
          PurgeSecs,  \* 5 * 60, in ticks
          Yields,     \* whether on_task may suspend
          MaxTasks,   \* bound: tasks ever created
          MaxLag      \* bound: ticks one call of process_tasks may take

ASSUME TaskQueueAssumption ==
  /\ UpdateSecs \in Nat /\ PurgeSecs \in Nat
  /\ MaxTasks \in Nat /\ MaxLag \in Nat
  /\ Yields \in BOOLEAN
  /\ IsFiniteSet(Callers)
  /\ Users # {}

VARIABLES tasks, \* DemoTaskQueue.tasks, a sequence of task objects
          task,  \* task[t]: the fields of task object t
          call,  \* call[c]: the call c is making, suspended in on_task, or NoCall
          runs   \* runs[t]: how often on_task was called for t: 0, 1 or, for more, 2

vars == <<tasks, task, call, runs>>

-----------------------------------------------------------------------------

\* A task object is its place in the order of creation.
Objects  == 1 .. MaxTasks
Terminal == {"completed", "canceled", "failed"}
Statuses == {"unborn", "pending", "active"} \cup Terminal

\* age is the time since t.start; beyond OldAge every comparison comes out the same.
OldAge == PurgeSecs + MaxLag + UpdateSecs + 1

Task == [id : Nat, user : Users, status : Statuses, age : 0 .. OldAge, result : BOOLEAN]

Unborn == [id |-> 0, user |-> CHOOSE u \in Users : TRUE, status |-> "unborn",
           age |-> 0, result |-> FALSE]

\* What a caller asked for, the list it still has to walk (its head is the
\* task in on_task), the list it has built, and the ticks since it read the clock.
NoCall == [kind |-> "none"]
Request == [kind : {"query", "put"}, user : Users]
             \cup [kind : {"delete"}, user : Users, id : 0 .. MaxTasks]
Call   == [request : Request, rest : Seq(Objects), kept : Seq(Objects), lag : 0 .. MaxLag]

InCall(c) == call[c] # NoCall

TypeOK ==
  /\ tasks \in Seq(Objects)
  /\ task  \in [Objects -> Task]
  /\ runs  \in [Objects -> 0 .. 2]
  /\ call  \in [Callers -> {NoCall} \cup Call]
  /\ \A c \in Callers : InCall(c) => call[c].rest # <<>>

Init ==
  /\ tasks = <<>>
  /\ task  = [t \in Objects |-> Unborn]
  /\ call  = [c \in Callers |-> NoCall]
  /\ runs  = [t \in Objects |-> 0]

-----------------------------------------------------------------------------

\* Mutant of Old: the status of an old task is not looked at.
OldAnyStatus(v, lag) == v.age > PurgeSecs + lag

\* Mutant of Ripe: any waiting task is activated, also one that has ended.
RipeAnyStatus(v, lag) == v.status # "active" /\ v.age > UpdateSecs + lag

\* The three branches of process_tasks, for a caller whose now is lag ticks old.
Old(v, lag)  == v.status \in Terminal /\ v.age > PurgeSecs + lag
Ripe(v, lag) == v.status = "pending" /\ v.age > UpdateSecs + lag
Due(v, lag)  == v.status = "active" /\ v.age > UpdateSecs + lag

\* Mutant of Activate: a status that TaskStatus does not have.
ActivateMisspelt(table, walked, lag) ==
  [t \in Objects |->
     IF t \in ToSet(walked) /\ Ripe(table[t], lag)
       THEN [table[t] EXCEPT !.status = "running", !.age = lag]
       ELSE table[t]]

\* Mutant of Activate: the clock is restarted, the status is not changed.
ActivateStampOnly(table, walked, lag) ==
  [t \in Objects |->
     IF t \in ToSet(walked) /\ Ripe(table[t], lag)
       THEN [table[t] EXCEPT !.age = lag]
       ELSE table[t]]

\* t.start = now, which is lag ticks ago.
Activate(table, walked, lag) ==
  [t \in Objects |->
     IF t \in ToSet(walked) /\ Ripe(table[t], lag)
       THEN [table[t] EXCEPT !.status = "active", !.age = lag]
       ELSE table[t]]

\* The first task of the list with this owner and id: 0 if there is none.
Lookup(list, table, u, i) ==
  LET hits == {n \in DOMAIN list : table[list[n]].user = u /\ table[list[n]].id = i}
  IN IF hits = {} THEN 0 ELSE list[Min(hits)]

Born(table) == Cardinality({t \in Objects : table[t].status # "unborn"})

\* The body of the call once process_tasks has put the new list in place.
Finish(request, list, table) ==
  CASE request.kind = "query" ->
         tasks' = list /\ task' = table
    [] request.kind = "put" ->
         LET t == Born(table) + 1 IN
         /\ tasks' = Append(list, t)
         /\ task' = [table EXCEPT ![t] = [id |-> Len(list), user |-> request.user,
                                          status |-> "pending", age |-> 0, result |-> FALSE]]
    [] request.kind = "delete" ->
         LET t == Lookup(list, table, request.user, request.id) IN
         /\ tasks' = list
         /\ task' = IF t = 0 THEN table
                    ELSE [table EXCEPT ![t].status = "canceled", ![t].result = FALSE]

\* process_tasks from here on: up to the next task to execute, or to the end.
Walk(c, request, rest, kept, lag, table) ==
  LET due    == {n \in DOMAIN rest : Due(table[rest[n]], lag)}
      ahead  == IF due = {} THEN Len(rest) ELSE Min(due) - 1
      walked == SubSeq(rest, 1, ahead)
      list   == kept \o Keep(walked, {n \in DOMAIN walked : ~Old(table[walked[n]], lag)})
      swept  == Activate(table, walked, lag)
  IN \/ /\ due = {}
        /\ Finish(request, list, swept)
        /\ call' = [call EXCEPT ![c] = NoCall]
        /\ UNCHANGED runs
     \/ /\ due # {}
        /\ task' = swept
        /\ call' = [call EXCEPT ![c] = [request |-> request, lag |-> lag, kept |-> list,
                                        rest |-> SubSeq(rest, ahead + 1, Len(rest))]]
        /\ runs' = [runs EXCEPT ![rest[ahead + 1]] = Min({@ + 1, 2})]
        /\ UNCHANGED tasks

\* The event loop is free to start a call: always, if on_task gives it away.
LoopIsFree == Yields \/ \A c \in Callers : ~InCall(c)

Start(c, request) ==
  /\ ~InCall(c) /\ LoopIsFree
  /\ Walk(c, request, tasks, <<>>, 0, task)

\* get_task and get_tasks only read the list that process_tasks leaves.
GetTasks(c, u) == Start(c, [kind |-> "query", user |-> u])

\* The puts under way.
Putting == {c \in Callers : InCall(c) /\ call[c].request.kind = "put"}

\* Bound: at most MaxTasks tasks are created, the puts under way included.
PutTask(c, u) ==
  /\ Born(task) + Cardinality(Putting) < MaxTasks
  /\ Start(c, [kind |-> "put", user |-> u])

DeleteTask(c, u, i) == Start(c, [kind |-> "delete", user |-> u, id |-> i])

\* Mutant of OnTaskReturns: the status on_task returns is dropped.
OnTaskReturnsNoStatus(c, status) ==
  /\ InCall(c)
  /\ LET this == call[c]
         t    == Head(this.rest)
     IN Walk(c, this.request, Tail(this.rest), Append(this.kept, t), this.lag,
             [task EXCEPT ![t].result = TRUE])

\* on_task answers: result and status are set and the walk goes on.
OnTaskReturns(c, status) ==
  /\ InCall(c)
  /\ LET this == call[c]
         t    == Head(this.rest)
     IN Walk(c, this.request, Tail(this.rest), Append(this.kept, t), this.lag,
             [task EXCEPT ![t].status = status, ![t].result = TRUE])

\* The request is cancelled while on_task is suspended: its new list is dropped.
Cancelled(c) ==
  /\ Yields /\ InCall(c)
  /\ call' = [call EXCEPT ![c] = NoCall]
  /\ UNCHANGED <<tasks, task, runs>>

\* Time passes, between calls and during on_task.
Tick ==
  /\ \A c \in Callers : InCall(c) => call[c].lag < MaxLag
  /\ task' = [t \in Objects |-> IF task[t].status = "unborn" \/ task[t].age = OldAge
                                  THEN task[t] ELSE [task[t] EXCEPT !.age = @ + 1]]
  /\ call' = [c \in Callers |-> IF InCall(c) THEN [call[c] EXCEPT !.lag = @ + 1]
                                             ELSE NoCall]
  /\ UNCHANGED <<tasks, runs>>

Next ==
  \/ \E c \in Callers, u \in Users :
       \/ GetTasks(c, u)
       \/ PutTask(c, u)
       \/ \E i \in 0 .. MaxTasks : DeleteTask(c, u, i)
  \/ \E c \in Callers : \/ \E status \in {"completed", "failed"} : OnTaskReturns(c, status)
                        \/ Cancelled(c)
  \/ Tick

Spec == Init /\ [][Next]_vars

\* Time passes, on_task answers, and some client keeps polling: nothing in the
\* program itself drives the queue.
FairSpec ==
  /\ Spec
  /\ WF_vars(Tick)
  /\ WF_vars(\E c \in Callers, u \in Users : GetTasks(c, u))
  /\ \A c \in Callers : WF_vars(\E status \in {"completed", "failed"} :
                                  OnTaskReturns(c, status))

-----------------------------------------------------------------------------

\* A command is executed at most once, however often the queue is walked.
AtMostOnce == \A t \in Objects : runs[t] <= 1

\* A task that has been created stays in the list until it has ended, though
\* every call replaces the list by one it built itself.
NothingIsLost ==
  \A t \in Objects : task[t].status \in {"pending", "active"} => t \in ToSet(tasks)

\* How far a task has come: it runs while a call is in on_task for it, and a
\* task that was only activated still waits for that.
stage == [t \in Objects |->
            IF \E c \in Callers : InCall(c) /\ Head(call[c].rest) = t THEN "running"
            ELSE IF task[t].status \in {"pending", "active"} THEN "waiting"
            ELSE task[t].status]

Contract == INSTANCE TaskContract WITH stage <- stage, listed <- ToSet(tasks)

\* Calls that do not overlap keep the contract: one command at a time, in the
\* order of submission, none canceled before its turn, no open task dropped.
ContractSpec == Contract!Spec

\* In whatever way calls overlap, and whichever of their lists wins: a task that
\* has ended never comes back and its command never runs again, and a canceled
\* one is only given a result by a command that was still running.
EndedIsFinal ==
  [][\A t \in Objects : task[t].status \in Terminal =>
       /\ task'[t].status \in Terminal
       /\ runs'[t] = runs[t]
       /\ task[t].status = "canceled" /\ task'[t].status # "canceled"
            => \E c \in Callers : InCall(c) /\ Head(call[c].rest) = t]_vars

\* If clients keep polling, every submitted task ends.
EveryTaskEnds ==
  \A t \in Objects : task[t].status = "pending" ~> task[t].status \in Terminal

\* The client's use of the returned id ("Wait for a task to complete and return
\* its result"): the id of a task in the list is answered with that task.
EveryIdFindsItsTask ==
  \A t \in ToSet(tasks) : Lookup(tasks, task, task[t].user, task[t].id) = t

-----------------------------------------------------------------------------
(* The inductive invariant, for calls that overlap in any way.             *)

InOrder(list)    == \A i, j \in DOMAIN list : i < j => list[i] < list[j]
AllBefore(S, T)  == \A s \in S, t \in T : s < t
IsBorn(t)        == task[t].status # "unborn"
IsOpen(t)        == task[t].status \in {"pending", "active"}

\* Tasks are created one after the other.
BornInOrder == \A s, t \in Objects : s < t /\ IsBorn(t) => IsBorn(s)

\* There is a task object left for every put under way.
RoomForPuts == Born(task) + Cardinality(Putting) <= MaxTasks

\* The list, and the ones that calls are building, have the tasks in the order
\* of their creation, and no task twice.
ListsAreInOrder ==
  /\ InOrder(tasks)
  /\ \A c \in Callers : InCall(c) =>
       /\ InOrder(call[c].kept) /\ InOrder(call[c].rest)
       /\ AllBefore(ToSet(call[c].kept), ToSet(call[c].rest))

ListedAreBorn ==
  /\ \A t \in ToSet(tasks) : IsBorn(t)
  /\ \A c \in Callers : InCall(c) =>
       \A t \in ToSet(call[c].kept) \cup ToSet(call[c].rest) : IsBorn(t)

IInv == TypeOK /\ BornInOrder /\ RoomForPuts /\ ListsAreInOrder /\ ListedAreBorn

(* What calls that do not overlap add to it.                               *)

OneCallAtATime == \A c, d \in Callers : InCall(c) /\ InCall(d) => c = d

\* The list that a call builds will have whatever is still open.
CallsLoseNothing ==
  \A c \in Callers : InCall(c) =>
    /\ ToSet(call[c].kept) \cup ToSet(call[c].rest) \subseteq ToSet(tasks)
    /\ \A t \in Objects : IsOpen(t) => t \in ToSet(call[c].rest)

\* The task in on_task is the first one that has not ended.
RunningIsFirst ==
  \A c \in Callers : InCall(c) =>
    LET t == Head(call[c].rest)
    IN /\ task[t].status = "active"
       /\ \A s \in Objects : s < t => task[s].status \in Terminal

\* Only a task that is or was active has been in on_task.
RunsHaveStarted ==
  \A t \in Objects :
    /\ task[t].status \in {"unborn", "pending"} => runs[t] = 0
    /\ task[t].status = "active" /\ runs[t] # 0
         => \E c \in Callers : InCall(c) /\ Head(call[c].rest) = t

\* A task is never behind one that was submitted later.
OlderIsFurther ==
  \A s, t \in Objects : s < t /\ IsOpen(s) /\ IsOpen(t) =>
    /\ task[t].status = "active" => task[s].status = "active"
    /\ task[s].status = task[t].status => task[t].age <= task[s].age

\* An active task is at least as old as the walk that may meet it.
ActiveSinceTheWalk ==
  \A c \in Callers, t \in Objects :
    InCall(c) /\ task[t].status = "active" => call[c].lag <= task[t].age

SerialInv ==
  /\ OneCallAtATime /\ NothingIsLost /\ CallsLoseNothing /\ RunningIsFirst
  /\ AtMostOnce /\ RunsHaveStarted /\ OlderIsFurther /\ ActiveSinceTheWalk
=============================================================================
