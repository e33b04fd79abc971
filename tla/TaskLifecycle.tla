--------------------------- MODULE TaskLifecycle ---------------------------
(***************************************************************************)
(* What the durable task queue promises about one task, whatever threads,  *)
(* crashes and late workers do: the public state machine of                *)
(* reliable_task.py, with the attempt lineage.  A startup may settle many  *)
(* tasks in one transaction, so a step moves any number of tasks, each     *)
(* along one edge.                                                         *)
(***************************************************************************)
EXTENDS Naturals

CONSTANTS TaskIds,      \* identities of task rows
          MaxAttempts   \* reliable_tasks.max_attempts

VARIABLES status,       \* "absent" before the row exists
          attempt

lifecycleVars == <<status, attempt>>

\* Edges that stay inside one attempt.
Edges ==
    { <<"queued", "running">>, <<"queued", "canceled">>,
      <<"running", "canceling">>, <<"running", "succeeded">>,
      <<"running", "failed">>,
      <<"canceling", "canceled">>, <<"canceling", "succeeded">> }

Init == /\ status = [t \in TaskIds |-> "absent"]
        /\ attempt = [t \in TaskIds |-> 0]

Create(t) == /\ status[t] = "absent" /\ status'[t] = "queued"
             /\ attempt'[t] = 1

Advance(t) == /\ <<status[t], status'[t]>> \in Edges
              /\ attempt'[t] = attempt[t]

\* Only a failed or canceled task is queued again, as its next attempt.
Retry(t) == /\ status[t] \in {"failed", "canceled"} /\ status'[t] = "queued"
            /\ attempt'[t] = attempt[t] + 1
            /\ attempt'[t] <= MaxAttempts

Stay(t) == status'[t] = status[t] /\ attempt'[t] = attempt[t]

Next == /\ DOMAIN status' = TaskIds
        /\ DOMAIN attempt' = TaskIds
        /\ \A t \in TaskIds : Create(t) \/ Advance(t) \/ Retry(t) \/ Stay(t)

Spec == Init /\ [][Next]_lifecycleVars
=============================================================================
