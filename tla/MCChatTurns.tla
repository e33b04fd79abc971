---------------------------- MODULE MCChatTurns ----------------------------
(***************************************************************************)
(* Instances of ChatTurns for TLC: one conversation, two questions.  The   *)
(* first names its source, the second uses the conversation's selection.   *)
(***************************************************************************)
EXTENDS ChatTurns, TLC

CONSTANTS t1, t2, w1, w2, ask1, ask2, chat, conversation, lecture, none

MCTasks         == {t1, t2}
OneTask         == {t1}
MCWorkers       == {w1, w2}
MCKeys          == {ask1, ask2, chat}
MCConversations == {conversation}
MCSources       == {lecture}

Question1 == [idem |-> ask1, active |-> chat, resource |-> conversation, fingerprint |-> 1]
Question2 == [idem |-> ask2, active |-> chat, resource |-> conversation, fingerprint |-> 2]

MCRequests == {Question1, Question2}
OneQuestion == {Question2}
OneScope    == ask2 :> none
MCScopeOf  == (ask1 :> {lecture}) @@ (ask2 :> none)

\* The columns of a task that this module's guards and properties read; the
\* others, the stream and the clock are written and never read.
SeenTask(t) == <<tasks[t].status, tasks[t].attempt, tasks[t].claim, tasks[t].claims,
                 tasks[t].retryable, tasks[t].req>>
Seen == <<[t \in TaskIds |-> SeenTask(t)], live, deleting, chatVars>>

ThreadsAndTasks == Permutations(Workers) \cup Permutations(TaskIds)
=============================================================================
