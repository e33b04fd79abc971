----------------------- MODULE MCReliableTaskManager -----------------------
(***************************************************************************)
(* Instances of ReliableTaskManager for TLC.  Ask and AskNext are the chat *)
(* tasks of two questions in one conversation: own idempotency keys, one   *)
(* active key.  Study has an active key of its own and no idempotency key. *)
(***************************************************************************)
EXTENDS ReliableTaskManager, TLC

CONSTANTS t1, t2, w1, w2, ask1, ask2, chat, study, course, none

MCTasks     == {t1, t2}
OneTask     == {t1}
OneThread   == {w1}
TwoThreads  == {w1, w2}
MCKeys      == {ask1, ask2, chat, study}
MCResources == {course}

Ask     == [idem |-> ask1, active |-> chat, resource |-> course, fingerprint |-> 1]
AskNext == [idem |-> ask2, active |-> chat, resource |-> course, fingerprint |-> 2]
Study   == [idem |-> none, active |-> study, resource |-> course, fingerprint |-> 3]

TwoKinds == {Ask, Study}
Chats    == {Ask, AskNext}

\* The stream is written and never read, but for the bound on its length:
\* states that differ in the rest of it have the same future.
NoStream == <<tasks, clock, live, deleting, mgrVars,
              [t \in TaskIds |-> IF Len(events[t]) < MaxEvents THEN Len(events[t])
                                                            ELSE MaxEvents]>>

\* Three instances in one: two tasks in a pool of two threads; one task over
\* two restarts and three attempts; one task, its progress reports and a
\* database call that fails, over one restart.
OneRow == Cardinality({t \in TaskIds : Exists(t)}) <= 1
Attempts(n) == \A t \in TaskIds : tasks[t].attempt <= n
Silent == \A t \in TaskIds : tasks[t].progress = 0
PoolScope    == starts <= 1 /\ faults = 0 /\ Attempts(1) /\ Silent
RestartScope == OneRow /\ faults = 0 /\ Silent
FaultScope   == OneRow /\ starts <= 2 /\ Attempts(2)
InScope      == PoolScope \/ RestartScope \/ FaultScope

ThreadsAndTasks == Permutations(Workers) \cup Permutations(TaskIds)
=============================================================================
