---------------------------- MODULE TaskContract ----------------------------
(***************************************************************************)
(* What the task API promises its users, whatever drives the queue: tasks  *)
(* are accepted one after the other, their commands run one at a time and  *)
(* in the order of their submission, each at most once, a task that was    *)
(* canceled before its turn never runs, and a task can be looked up until  *)
(* it has ended.                                                           *)
(***************************************************************************)
EXTENDS Naturals

CONSTANT MaxTasks  \* bound: tasks ever created

VARIABLES stage,   \* stage[t]: how far the task submitted as the t-th has come
          listed   \* the tasks that can be looked up

vars == <<stage, listed>>

Tasks == 1 .. MaxTasks

\* Where a task may go in one step.
Moves == [unborn    |-> {"waiting"},
          waiting   |-> {"running", "canceled"},
          running   |-> {"completed", "failed", "canceled"},
          completed |-> {"canceled"},
          failed    |-> {"canceled"},
          canceled  |-> {}]

Stages == DOMAIN Moves
Open   == {"waiting", "running"}
Over   == {"completed", "failed", "canceled"}

TypeOK == stage \in [Tasks -> Stages] /\ listed \subseteq Tasks

Init ==
  /\ stage = [t \in Tasks |-> "unborn"]
  /\ listed = {}

-----------------------------------------------------------------------------

\* One step may take several tasks further: the end of one command is the
\* start of the next, and old tasks go.
Advance == \A t \in Tasks : stage'[t] \in {stage[t]} \cup Moves[stage[t]]

Submitted == {t \in Tasks : stage[t] = "unborn" /\ stage'[t] # "unborn"}

AcceptedInOrder ==
  \A t \in Submitted : \A s \in Tasks : s # t => (stage[s] = "unborn" <=> s > t)

\* A command starts when all that were submitted before have ended.
RunInOrder ==
  \A t \in Tasks : stage[t] # "running" /\ stage'[t] = "running"
    => \A s \in 1 .. t - 1 : stage'[s] \in Over

OneAtATime == \A s, t \in Tasks : stage'[s] = "running" /\ stage'[t] = "running" => s = t

FoundUntilOver ==
  /\ listed' \subseteq listed \cup Submitted
  /\ \A t \in Tasks : stage'[t] \in Open => t \in listed'

Next ==
  /\ TypeOK'
  /\ Advance /\ AcceptedInOrder /\ RunInOrder /\ OneAtATime /\ FoundUntilOver

Spec == Init /\ [][Next]_vars
=============================================================================
