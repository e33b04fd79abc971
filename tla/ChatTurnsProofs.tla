-------------------------- MODULE ChatTurnsProofs --------------------------
(***************************************************************************)
(* Proofs about ChatTurns, for any conversations, requests, threads and    *)
(* Sources, and any number of edits, process starts and failing calls.     *)
(***************************************************************************)
EXTENDS ChatTurns, ReliableTaskStoreProofs, FiniteSetTheorems

----------------------------------------------------------------------------
(***************************************************************************)
(* The inductive invariant.                                                *)
(***************************************************************************)

Final == {"completed", "refused"}

\* Where a thread is done with its turn, and where it has evidence.
Ending == {"succeed", "fail", "reject", "cancel"}
WithEvidence == {"generate", "model", "checkValidate", "validate", "checkPublish", "publish"}

\* The status of a turn, at each place of the thread that owns it.
InPlace(at, status) ==
    /\ at = "retrieve" => status = "pending"
    /\ at \in {"search", "generate"} => status = "retrieving"
    /\ at \in {"model", "checkValidate", "validate"} => status = "generating"
    /\ at \in {"checkPublish", "publish"} => status = "validating"

Works(w) == thread[w].pc # "idle"

\* A thread works under a claim that was issued, on a turn whose tokens it knows.
ThreadsInv ==
    \A w \in Workers :
        /\ ~Works(w) => thread[w] = IdleThread
        /\ Works(w) => /\ thread[w].job \in TaskIds /\ Exists(thread[w].job)
                       /\ thread[w].claim \in 1..tasks[thread[w].job].claims
                       /\ thread[w].gen <= Turn(w).tokens
        /\ thread[w].pc \in {"begin", "reserve"} => thread[w].gen = 0
        /\ thread[w].pc \in WithEvidence => thread[w].evidence # {}
        /\ thread[w].pc = "succeed" => Turn(w).status \in Final

\* No claim and no generation of a turn has two threads.
PairsInv ==
    \A v, w \in Workers :
        v # w /\ Works(v) /\ Works(w) =>
            /\ thread[v].job = thread[w].job => thread[v].claim # thread[w].claim
            /\ Question(thread[v].job) = Question(thread[w].job)
                 /\ thread[v].gen = thread[w].gen => thread[w].gen = 0

Owns(w) == Works(w) /\ OwnsTurn(w, ActiveTurn)

\* The thread that owns a turn finds it in the status it left it in, and writes
\* an answer only under a claim that is held.
OwnersInv ==
    \A w \in Workers :
        Owns(w) => /\ InPlace(thread[w].pc, Turn(w).status)
                   /\ thread[w].pc \in {"publish", "refuse"} /\ mode # "recovering" =>
                         Held(w, {"running", "canceling"})

\* A turn nobody will finish: its thread, if any, is past the place where it
\* would.
Cares(w) == thread[w].pc \notin Ending \cup {"idle"}

Lost == { k \in Questions :
            /\ turns[k].status \in ActiveTurn
            /\ ~\E w \in Workers : /\ Cares(w) /\ Question(thread[w].job) = k
                                   /\ thread[w].gen = turns[k].token }

LostInv == mode = "open" => IsFiniteSet(Lost) /\ Cardinality(Lost) <= faults

VersionsInv == \A s \in Sources : source[s].version <= edits + 1

CInv == /\ StoreInv /\ BlankInv /\ CTypeOK /\ VersionsInv /\ TurnRecordsAgree
        /\ ThreadsInv /\ PairsInv /\ OwnersInv /\ LostInv
        /\ OneActiveTurn /\ SucceededIsAnswered

----------------------------------------------------------------------------
(***************************************************************************)
(* Questions, and the store under the chat.                                *)
(***************************************************************************)

LEMMA QuestionKnown ==
    ASSUME BlankInv, NEW t \in TaskIds, Exists(t)
    PROVE  Question(t) \in Questions
BY DEF BlankInv, Question, Questions

LEMMA ConversationKnown == ASSUME NEW k \in Questions PROVE Conversation(k) \in Resources
<1>1. \E req \in Requests : req.idem = k
  BY DEF Questions
<1>2. (CHOOSE req \in Requests : req.idem = k) \in Requests
  BY <1>1
<1> QED
  BY <1>2, StoreAssumption DEF Conversation, Request

\* A thread that works is on a question.
LEMMA WorksOnQuestion ==
    ASSUME CInv, NEW w \in Workers, Works(w)
    PROVE  /\ thread[w].job \in TaskIds /\ Exists(thread[w].job)
           /\ Question(thread[w].job) \in Questions
           /\ Turn(w) \in Turns
           /\ thread[w].claim \in 1..tasks[thread[w].job].claims
<1>1. /\ thread[w].job \in TaskIds /\ Exists(thread[w].job)
      /\ thread[w].claim \in 1..tasks[thread[w].job].claims
  BY DEF CInv, ThreadsInv
<1>2. Question(thread[w].job) \in Questions
  BY <1>1, QuestionKnown DEF CInv
<1> QED
  BY <1>1, <1>2 DEF CInv, CTypeOK, Turn

\* Every step of the chat is a step of the store.
LEMMA StoreStep ==
    ASSUME CInv, [CNext]_cvars
    PROVE  [Next]_storeVars
<1>1. ASSUME NEW w \in Workers, Succeed(w) \/ Fail(w) \/ Cancel(w)
      PROVE  [Next]_storeVars
  <2>1. Works(w)
    BY <1>1 DEF Succeed, Fail, Cancel, Works
  <2>2. thread[w].job \in TaskIds /\ thread[w].claim \in 1..tasks[thread[w].job].claims
    BY <2>1, WorksOnQuestion
  <2>3. (thread[w].pc = "fail") \in BOOLEAN
    OBVIOUS
  <2> QED
    BY <1>1, <2>2, <2>3 DEF Succeed, Fail, Cancel, Next
<1>2. ASSUME NEW w \in Workers, WorkerStep(w)
      PROVE  [Next]_storeVars
  <2>1. Succeed(w) \/ Fail(w) \/ Cancel(w) \/ UNCHANGED storeVars
    BY <1>2 DEF WorkerStep, Checkpoint, Reserve, Retrieve, Search, Generate, Model, Refuse,
                Validate, Publish, FailTurn, Transition
  <2> QED
    BY <1>1, <2>1
<1>3. ASSUME NEW t \in TaskIds, NEW req \in Requests, Ask(t, req)
      PROVE  [Next]_storeVars
  BY <1>3 DEF Ask, Next
<1>4. ASSUME NEW t \in TaskIds, Retry(t) \/ AskCancel(t) \/ \E w \in Workers : Claim(w, t)
      PROVE  [Next]_storeVars
  BY <1>4 DEF Retry, AskCancel, Claim, Next
<1>5. ASSUME \/ \E c \in Resources :
                   CheckConversation(c) \/ TrashConversation(c) \/ RestoreConversation(c)
             \/ LeaveConversation
      PROVE  [Next]_storeVars
  BY <1>5 DEF CheckConversation, TrashConversation, RestoreConversation, LeaveConversation, Next
<1>6. ASSUME StartTasks
      PROVE  [Next]_storeVars
  BY <1>6 DEF StartTasks, Next
<1>7. ASSUME \/ \E c \in Resources, S \in SUBSET Sources : SelectSources(c, S)
             \/ \E s \in Sources : EditSource(s) \/ ToggleSource(s)
             \/ \E w \in Workers : StaleDies(w) \/ Fault(w)
             \/ StartTurns \/ Exit \/ Crash \/ UNCHANGED cvars
      PROVE  [Next]_storeVars
  BY <1>7 DEF SelectSources, EditSource, ToggleSource, StaleDies, Fault, StartTurns, Exit,
              Crash, cvars
<1> QED
  BY <1>2, <1>3, <1>4, <1>5, <1>6, <1>7 DEF CNext

\* A question stays what it is, and a claim that was issued stays issued.
LEMMA QuestionStays ==
    ASSUME CInv, [CNext]_cvars, NEW t \in TaskIds, Exists(t)
    PROVE  /\ Exists(t)' /\ Question(t)' = Question(t)
           /\ tasks'[t].claims >= tasks[t].claims
<1>1. Moved(tasks[t], tasks'[t])
  BY StoreStep, RowsMove DEF CInv
<1> QED
  BY <1>1 DEF Moved, Exists, Question

----------------------------------------------------------------------------
(***************************************************************************)
(* What one step of a thread may be.                                       *)
(***************************************************************************)

\* It goes on and leaves its turn alone.
Goes(w) ==
    /\ turns' = turns
    /\ \E next \in Steps \ {"idle", "begin"}, found \in SUBSET Evidence :
          /\ thread' = [thread EXCEPT ![w].pc = next, ![w].evidence = found]
          /\ next = "reserve" => thread[w].gen = 0
          /\ next \in WithEvidence => found # {}
          /\ next = "succeed" => Turn(w).status \in Final
          /\ Owns(w) => InPlace(next, Turn(w).status)
          /\ next \in {"publish", "refuse"} => Held(w, {"running"}) /\ UNCHANGED storeVars
          /\ next \in Ending /\ Owns(w) => thread[w].pc \in Ending \/ faults' = faults + 1

\* It starts its turn, with a token nobody has seen.
Begins(w) ==
    /\ Turn(w).status \in {"absent", "failed"}
    /\ OthersActive(Question(thread[w].job)) = {}
    /\ \E scope \in SUBSET Sources : SetTurn(w, Reserved(Turn(w), scope))
    /\ thread' = [thread EXCEPT ![w].pc = "retrieve", ![w].gen = Turn(w).tokens + 1]

\* It moves its turn on, and itself to where the turn is then.
Advances(w) ==
    /\ OwnsTurn(w, ActiveTurn)
    /\ \E to \in ActiveTurn, next \in Steps \ (Ending \cup {"idle", "begin", "reserve", "publish", "refuse"}) :
          /\ SetTurn(w, [Turn(w) EXCEPT !.status = to])
          /\ thread' = [thread EXCEPT ![w].pc = next]
          /\ InPlace(next, to)
          /\ next \in WithEvidence => thread[w].evidence # {}

\* It ends its turn: an answer, a refusal or a failure.
Closes(w) ==
    /\ OwnsTurn(w, ActiveTurn)
    /\ \E next \in {"succeed", "fail", "cancel"} :
          /\ thread' = [thread EXCEPT ![w].pc = next]
          /\ \/ /\ thread[w].pc = "publish" /\ EvidenceHolds(w)
                /\ SetTurn(w, Finished(Turn(w), "completed", "complete", thread[w].evidence))
             \/ /\ thread[w].pc = "refuse"
                /\ SetTurn(w, Finished(Turn(w), "refused", "complete", {}))
             \/ next # "succeed" /\ SetTurn(w, Finished(Turn(w), "failed", "failed", {}))

\* It lets go of its task, for the end of the claim or for a fault.
Stops(w) ==
    /\ turns' = turns
    /\ thread' = [thread EXCEPT ![w] = IdleThread]
    /\ thread[w].pc \in Ending \/ faults' = faults + 1

\* It takes a queued task.
Takes(w) ==
    /\ turns' = turns /\ ~Works(w)
    /\ \E t \in TaskIds, again \in BOOLEAN :
          /\ ClaimTask(t)
          /\ thread' = [thread EXCEPT ![w] =
                [IdleThread EXCEPT !.pc = "begin", !.job = t, !.claim = tasks[t].claims + 1,
                                   !.retry = again]]

ThreadStep(w) ==
    \/ Works(w) /\ (Goes(w) \/ Begins(w) \/ Advances(w) \/ Closes(w))
    \/ Stops(w) \/ Takes(w)

\* Goes, without anything found on the way.
LEMMA GoesOn ==
    ASSUME CInv, NEW w \in Workers, NEW next \in Steps \ {"idle", "begin"},
           turns' = turns, thread' = [thread EXCEPT ![w].pc = next],
           next = "reserve" => thread[w].gen = 0,
           next \in WithEvidence => thread[w].evidence # {},
           next = "succeed" => Turn(w).status \in Final,
           Owns(w) => InPlace(next, Turn(w).status),
           next \in {"publish", "refuse"} => Held(w, {"running"}) /\ UNCHANGED storeVars,
           next \in Ending /\ Owns(w) => thread[w].pc \in Ending \/ faults' = faults + 1
    PROVE  Goes(w)
<1> DEFINE found == thread[w].evidence
<1>1. /\ found \in SUBSET Evidence
      /\ thread' = [thread EXCEPT ![w].pc = next, ![w].evidence = found]
  <2>1. thread[w] = [thread[w] EXCEPT !.evidence = found]
    BY DEF CInv, CTypeOK
  <2>2. thread \in [Workers -> [pc : Steps, job : TaskIds \cup {NoKey}, claim : Nat,
                                retry : BOOLEAN, gen : Nat, evidence : SUBSET Evidence]]
    BY DEF CInv, CTypeOK
  <2> QED
    BY <2>1, <2>2
<1> QED
  BY <1>1 DEF Goes

LEMMA CheckpointShape ==
    ASSUME CInv, NEW w \in Workers,
           NEW at \in {"begin", "checkRefuse", "checkValidate", "checkPublish"},
           NEW next \in {"reserve", "refuse", "validate", "publish"},
           <<at, next>> \in {<<"begin", "reserve">>, <<"checkRefuse", "refuse">>,
                             <<"checkValidate", "validate">>, <<"checkPublish", "publish">>},
           Checkpoint(w, at, next)
    PROVE  Works(w) /\ Goes(w)
<1>1. /\ thread[w].pc = at /\ UNCHANGED storeVars /\ turns' = turns
      /\ \/ Held(w, {"running"}) /\ thread' = [thread EXCEPT ![w].pc = next]
         \/ \E e \in {"cancel", "cancelTurn", "failTurn"} :
               /\ thread' = [thread EXCEPT ![w].pc = e]
               /\ e = "cancel" => at = "begin"
  BY DEF Checkpoint, Cleared, Goto
<1>2. /\ at = "begin" => thread[w].gen = 0
      /\ Owns(w) => InPlace(at, Turn(w).status)
      /\ at \in WithEvidence => thread[w].evidence # {}
  BY <1>1 DEF CInv, ThreadsInv, OwnersInv
<1>3. ~(at = "begin" /\ Owns(w))
  <2>1. Owns(w) => Turn(w).status \in ActiveTurn /\ Turn(w).token = thread[w].gen
    BY DEF Owns, OwnsTurn
  <2>2. Owns(w) => Turn(w).token # 0
    BY <2>1, WorksOnQuestion DEF CInv, TurnRecordsAgree, Turn, Owns
  <2> QED
    BY <1>2, <2>1, <2>2
<1>4. Works(w)
  BY <1>1 DEF Works
<1>5. ASSUME Held(w, {"running"}), thread' = [thread EXCEPT ![w].pc = next]
      PROVE  Goes(w)
  <2>1. next \in Steps \ {"idle", "begin"}
    BY DEF Steps
  <2>2. /\ next = "reserve" => thread[w].gen = 0
        /\ next \in WithEvidence => thread[w].evidence # {}
        /\ next \notin Ending
        /\ Owns(w) => InPlace(next, Turn(w).status)
    BY <1>2, <1>3 DEF WithEvidence, Ending, InPlace
  <2> QED
    BY <1>1, <1>5, <2>1, <2>2, GoesOn DEF Ending
<1>6. ASSUME NEW e \in {"cancel", "cancelTurn", "failTurn"},
             thread' = [thread EXCEPT ![w].pc = e], e = "cancel" => at = "begin"
      PROVE  Goes(w)
  <2>1. e \in Steps \ {"idle", "begin"} /\ e \notin WithEvidence \cup {"publish", "refuse", "succeed", "reserve"}
    BY DEF Steps, WithEvidence
  <2>2. InPlace(e, Turn(w).status)
    BY DEF InPlace
  <2>3. ~(e \in Ending /\ Owns(w))
    BY <1>3, <1>6 DEF Ending
  <2> QED
    BY <1>1, <1>6, <2>1, <2>2, <2>3, GoesOn
<1> QED
  BY <1>1, <1>4, <1>5, <1>6

\* Before it is reserved, nobody owns a turn through a thread without token.
LEMMA NoTokenNoTurn ==
    ASSUME CInv, NEW w \in Workers, thread[w].gen = 0
    PROVE  ~Owns(w)
<1> SUFFICES ASSUME Owns(w) PROVE FALSE
  OBVIOUS
<1>1. Turn(w).status \in ActiveTurn /\ Turn(w).token = 0
  BY DEF Owns, OwnsTurn
<1>2. Question(thread[w].job) \in Questions
  BY WorksOnQuestion DEF Owns
<1> QED
  BY <1>1, <1>2 DEF CInv, TurnRecordsAgree, Turn

LEMMA ReserveShape ==
    ASSUME CInv, NEW w \in Workers, Reserve(w)
    PROVE  Works(w) /\ (Goes(w) \/ Begins(w))
<1>0. thread[w].pc = "reserve" /\ Works(w) /\ thread[w].gen = 0 /\ ~Owns(w)
  <2>1. thread[w].pc = "reserve" /\ thread[w].gen = 0
    BY DEF Reserve, CInv, ThreadsInv
  <2> QED
    BY <2>1, NoTokenNoTurn DEF Works
<1>1. ASSUME NEW next \in {"succeed", "fail", "reject"}, Goto(w, next), turns' = turns,
             next = "succeed" => Turn(w).status \in Final
      PROVE  Goes(w)
  <2>1. next \in Steps \ {"idle", "begin"}
        /\ next \notin WithEvidence \cup {"publish", "refuse", "reserve"}
    BY DEF Steps, WithEvidence
  <2> QED
    BY <1>0, <1>1, <2>1, GoesOn DEF Goto
<1>2. CASE ReserveReplay(w)
  <2>1. /\ Goto(w, ReplayEnd(w)) /\ turns' = turns /\ ReplayEnd(w) \in {"succeed", "fail"}
        /\ ReplayEnd(w) = "succeed" => Turn(w).status \in Final
    BY <1>2 DEF ReserveReplay, ReplayEnd, Final
  <2> QED
    BY <1>0, <1>1, <2>1
<1>3. CASE ReserveRetry(w)
  <2>1. CASE Goto(w, "fail") /\ turns' = turns
    BY <1>0, <1>1, <2>1
  <2>2. CASE /\ OthersActive(Question(thread[w].job)) = {}
             /\ StartTurn(w, Turn(w).scope)
    <3>1. Turn(w).status = "failed" /\ Turn(w).scope \in SUBSET Sources
      BY <1>0, <1>3, WorksOnQuestion DEF ReserveRetry, MayRetryTurn, Turns
    <3> QED
      BY <1>0, <2>2, <3>1 DEF StartTurn, Begins
  <2> QED
    BY <1>3, <1>0, <2>1, <2>2 DEF ReserveRetry
<1>4. CASE ReserveNew(w)
  <2> DEFINE k == Question(thread[w].job)
             scope == IF ScopeOf[k] = NoKey THEN selected[Conversation(k)] ELSE ScopeOf[k]
  <2>1. CASE Goto(w, "fail") /\ turns' = turns
    BY <1>0, <1>1, <2>1
  <2>2. CASE OthersActive(k) = {} /\ StartTurn(w, scope)
    <3>1. k \in Questions
      BY <1>0, WorksOnQuestion
    <3>2. selected[Conversation(k)] \in SUBSET Sources
      BY <3>1, ConversationKnown DEF CInv, CTypeOK
    <3>3. scope \in SUBSET Sources
      BY <3>1, <3>2, ChatAssumption
    <3>4. Turn(w).status = "absent"
      BY <1>4 DEF ReserveNew
    <3> QED
      BY <1>0, <2>2, <3>3, <3>4 DEF StartTurn, Begins
  <2> QED
    BY <1>4, <2>1, <2>2 DEF ReserveNew
<1>5. CASE Goto(w, "reject") /\ turns' = turns
  BY <1>0, <1>1, <1>5
<1> QED
  BY <1>0, <1>2, <1>3, <1>4, <1>5 DEF Reserve

\* A transition that is refused: the turn is another's, or nobody's.
LEMMA TransitionShape ==
    ASSUME CInv, NEW w \in Workers,
           NEW at \in {"retrieve", "generate", "validate"}, NEW from, NEW to,
           NEW next \in {"checkRefuse", "search", "model", "checkPublish"},
           Transition(w, at, from, to, next),
           <<at, from, to>> \in {<<"retrieve", "pending", "retrieving">>,
                                 <<"generate", "retrieving", "generating">>,
                                 <<"validate", "generating", "validating">>},
           InPlace(next, to), next \in WithEvidence => at \in WithEvidence
    PROVE  Works(w) /\ (Goes(w) \/ Advances(w))
<1>0. /\ thread[w].pc = at /\ Works(w)
      /\ Owns(w) => Turn(w).status = from
      /\ next \in WithEvidence => thread[w].evidence # {}
  <2>1. thread[w].pc = at /\ Works(w)
    BY DEF Transition, Works
  <2>2. Owns(w) => InPlace(at, Turn(w).status)
    BY <2>1 DEF CInv, OwnersInv
  <2>3. at \in WithEvidence => thread[w].evidence # {}
    BY <2>1 DEF CInv, ThreadsInv
  <2> QED
    BY <2>1, <2>2, <2>3 DEF InPlace
<1>1. CASE /\ OwnsTurn(w, {from})
           /\ SetTurn(w, [Turn(w) EXCEPT !.status = to])
           /\ Goto(w, next)
  <2>1. to \in ActiveTurn /\ OwnsTurn(w, ActiveTurn)
    BY <1>1 DEF OwnsTurn, ActiveTurn
  <2>2. next \in Steps \ (Ending \cup {"idle", "begin", "reserve", "publish", "refuse"})
    BY DEF Steps, Ending
  <2> QED
    BY <1>0, <1>1, <2>1, <2>2 DEF Advances, Goto
<1>2. CASE ~OwnsTurn(w, {from}) /\ Goto(w, "fail") /\ turns' = turns
  <2>1. ~Owns(w)
    BY <1>0, <1>2 DEF Owns, OwnsTurn
  <2>2. "fail" \in Steps \ {"idle", "begin"}
    BY DEF Steps
  <2> QED
    BY <1>0, <1>2, <2>1, <2>2, GoesOn DEF Goto, WithEvidence
<1> QED
  BY <1>0, <1>1, <1>2 DEF Transition

LEMMA SearchShape ==
    ASSUME CInv, NEW w \in Workers, Search(w)
    PROVE  Works(w) /\ Goes(w)
<1>0. /\ thread[w].pc = "search" /\ Works(w) /\ UNCHANGED <<storeVars, turns>>
      /\ Owns(w) => Turn(w).status = "retrieving"
  <2>1. thread[w].pc = "search" /\ Works(w) /\ UNCHANGED <<storeVars, turns>>
    BY DEF Search, Works
  <2> QED
    BY <2>1 DEF CInv, OwnersInv, InPlace
<1>1. ASSUME NEW S \in SUBSET Turn(w).scope,
             thread' = [thread EXCEPT ![w].pc = IF S = {} THEN "checkRefuse" ELSE "generate",
                                      ![w].evidence = { Current(s) : s \in S }]
      PROVE  Goes(w)
  <2> DEFINE next == IF S = {} THEN "checkRefuse" ELSE "generate"
             found == { Current(s) : s \in S }
  <2>1. found \in SUBSET Evidence
    <3>1. S \subseteq Sources
      BY <1>0, WorksOnQuestion DEF Turns
    <3>2. \A s \in Sources : source[s].version \in 1..MaxEdits + 1
      BY DEF CInv, CTypeOK
    <3> QED
      BY <3>1, <3>2 DEF Current, Evidence
  <2>2. /\ next \in Steps \ {"idle", "begin"}
        /\ next \notin {"reserve", "succeed", "publish", "refuse"} \cup Ending
    BY DEF Steps, Ending
  <2>3. next \in WithEvidence => found # {}
    <3>1. CASE S = {}
      BY <3>1 DEF WithEvidence
    <3>2. CASE S # {}
      <4>1. PICK s : s \in S
        BY <3>2
      <4> QED
        BY <4>1
    <3> QED
      BY <3>1, <3>2
  <2>4. Owns(w) => InPlace(next, Turn(w).status)
    BY <1>0 DEF InPlace
  <2>5. thread' = [thread EXCEPT ![w].pc = next, ![w].evidence = found]
    BY <1>1
  <2> HIDE DEF next, found
  <2> QED
    BY <1>0, <2>1, <2>2, <2>3, <2>4, <2>5 DEF Goes
<1>2. ASSUME thread' = [thread EXCEPT ![w].pc = "failTurn"]
      PROVE  Goes(w)
  <2>1. "failTurn" \in Steps \ {"idle", "begin"} /\ InPlace("failTurn", Turn(w).status)
    BY DEF Steps, InPlace
  <2> QED
    BY <1>0, <1>2, <2>1, GoesOn DEF WithEvidence, Ending
<1> QED
  BY <1>0, <1>1, <1>2 DEF Search

LEMMA ModelShape ==
    ASSUME CInv, NEW w \in Workers, Model(w)
    PROVE  Works(w) /\ Goes(w)
<1>0. /\ thread[w].pc = "model" /\ Works(w) /\ UNCHANGED <<storeVars, turns>>
      /\ Owns(w) => Turn(w).status = "generating"
      /\ thread[w].evidence # {}
  <2>1. thread[w].pc = "model" /\ Works(w) /\ UNCHANGED <<storeVars, turns>>
    BY DEF Model, Works
  <2>2. "model" \in WithEvidence
    BY DEF WithEvidence
  <2> QED
    BY <2>1, <2>2 DEF CInv, OwnersInv, InPlace, ThreadsInv
<1>1. PICK next \in {"failTurn", "checkRefuse", "checkValidate"} :
         thread' = [thread EXCEPT ![w].pc = next]
  BY DEF Model, Goto
<1>2. /\ next \in Steps \ {"idle", "begin"}
      /\ next \notin {"reserve", "succeed", "publish", "refuse"} \cup Ending
      /\ Owns(w) => InPlace(next, Turn(w).status)
  BY <1>0 DEF Steps, Ending, InPlace
<1> QED
  BY <1>0, <1>1, <1>2, GoesOn

LEMMA WritesShape ==
    ASSUME CInv, NEW w \in Workers, Publish(w) \/ Refuse(w) \/ FailTurn(w)
    PROVE  Works(w) /\ (Goes(w) \/ Closes(w))
<1>0. Works(w) /\ (Owns(w) <=> OwnsTurn(w, ActiveTurn))
  <2>1. thread[w].pc \in {"publish", "refuse", "failTurn", "cancelTurn"}
    BY DEF Publish, Refuse, FailTurn
  <2> QED
    BY <2>1 DEF Works, Owns
<1>1. ASSUME NEW next \in {"fail", "cancel"}, Goto(w, next), turns' = turns,
             ~OwnsTurn(w, ActiveTurn)
      PROVE  Goes(w)
  <2>1. /\ next \in Steps \ {"idle", "begin"}
        /\ next \notin WithEvidence \cup {"publish", "refuse", "reserve", "succeed"}
    BY DEF Steps, WithEvidence
  <2> QED
    BY <1>0, <1>1, <2>1, GoesOn DEF Goto
<1>2. CASE Publish(w)
  <2>1. CASE /\ OwnsTurn(w, ActiveTurn) /\ EvidenceHolds(w)
             /\ SetTurn(w, Finished(Turn(w), "completed", "complete", thread[w].evidence))
             /\ Goto(w, "succeed")
    <3>1. thread[w].pc = "publish"
      BY <1>2 DEF Publish
    <3> QED
      BY <1>0, <2>1, <3>1 DEF Closes, Goto
  <2>2. CASE OwnsTurn(w, ActiveTurn) /\ Goto(w, "failTurn") /\ turns' = turns
    <3>1. /\ "failTurn" \in Steps \ {"idle", "begin"} /\ InPlace("failTurn", Turn(w).status)
      BY DEF Steps, InPlace
    <3> QED
      BY <1>0, <2>2, <3>1, GoesOn DEF Goto, WithEvidence, Ending
  <2>3. CASE ~OwnsTurn(w, ActiveTurn) /\ Goto(w, "fail") /\ turns' = turns
    BY <1>0, <1>1, <2>3
  <2> QED
    BY <1>2, <2>1, <2>2, <2>3 DEF Publish
<1>3. CASE Refuse(w)
  <2>1. CASE /\ OwnsTurn(w, ActiveTurn)
             /\ SetTurn(w, Finished(Turn(w), "refused", "complete", {}))
             /\ Goto(w, "succeed")
    <3>1. thread[w].pc = "refuse"
      BY <1>3 DEF Refuse
    <3> QED
      BY <1>0, <2>1, <3>1 DEF Closes, Goto
  <2>2. CASE ~OwnsTurn(w, ActiveTurn) /\ Goto(w, "fail") /\ turns' = turns
    BY <1>0, <1>1, <2>2
  <2> QED
    BY <1>3, <2>1, <2>2 DEF Refuse
<1>4. CASE FailTurn(w)
  <2>1. PICK next \in {"fail", "cancel"} : Goto(w, next)
    BY <1>4 DEF FailTurn
  <2>2. CASE OwnsTurn(w, ActiveTurn)
    <3>1. SetTurn(w, Finished(Turn(w), "failed", "failed", {}))
      BY <1>4, <2>2 DEF FailTurn, MarkTurnFailed
    <3> QED
      BY <1>0, <2>1, <2>2, <3>1 DEF Closes, Goto
  <2>3. CASE ~OwnsTurn(w, ActiveTurn)
    <3>1. turns' = turns
      BY <1>4, <2>3 DEF FailTurn, MarkTurnFailed
    <3> QED
      BY <1>0, <1>1, <2>1, <2>3, <3>1
  <2> QED
    BY <2>2, <2>3
<1> QED
  BY <1>2, <1>3, <1>4

LEMMA FaultShape ==
    ASSUME CInv, NEW w \in Workers, Fault(w) \/ StaleDies(w)
    PROVE  ThreadStep(w)
<1>1. CASE StaleDies(w)
  BY <1>1 DEF StaleDies, ThreadStep, Stops
<1>2. CASE Fault(w)
  <2>1. /\ Works(w) /\ faults' = faults + 1 /\ turns' = turns
        /\ \/ thread' = [thread EXCEPT ![w] = IdleThread]
           \/ thread' = [thread EXCEPT ![w].pc = AfterFault(thread[w].pc)]
    BY <1>2 DEF Fault, Works
  <2>2. CASE thread' = [thread EXCEPT ![w] = IdleThread]
    BY <2>1, <2>2 DEF ThreadStep, Stops
  <2>3. CASE /\ thread' = [thread EXCEPT ![w].pc = AfterFault(thread[w].pc)]
             /\ AfterFault(thread[w].pc) # "idle"
    <3>1. AfterFault(thread[w].pc) \in {"fail", "failTurn"}
      BY <2>3 DEF AfterFault
    <3>2. PICK next \in {"fail", "failTurn"} : thread' = [thread EXCEPT ![w].pc = next]
      BY <2>3, <3>1
    <3>3. /\ next \in Steps \ {"idle", "begin"} /\ InPlace(next, Turn(w).status)
          /\ next \notin WithEvidence \cup {"publish", "refuse", "reserve", "succeed"}
      BY DEF Steps, WithEvidence, InPlace
    <3> QED
      BY <2>1, <3>2, <3>3, GoesOn DEF ThreadStep
  <2> QED
    BY <1>2, <2>2, <2>3 DEF Fault
<1> QED
  BY <1>1, <1>2

\* Every step of a thread is one of these.
LEMMA ThreadShapes ==
    ASSUME CInv, NEW w \in Workers,
           \/ WorkerStep(w) \/ StaleDies(w) \/ Fault(w)
           \/ \E t \in TaskIds : Claim(w, t)
    PROVE  ThreadStep(w)
<1>1. ASSUME NEW t \in TaskIds, Claim(w, t)
      PROVE  ThreadStep(w)
  <2>1. /\ turns' = turns /\ ~Works(w) /\ ClaimTask(t)
        /\ thread' = [thread EXCEPT ![w] =
              [IdleThread EXCEPT !.pc = "begin", !.job = t, !.claim = tasks[t].claims + 1,
                                 !.retry = tasks[t].attempt > 1]]
    <3>1. thread[w] = IdleThread => ~Works(w)
      BY DEF IdleThread, Works
    <3> QED
      BY <1>1, <3>1 DEF Claim
  <2>2. (tasks[t].attempt > 1) \in BOOLEAN
    OBVIOUS
  <2> QED
    BY <2>1, <2>2 DEF ThreadStep, Takes
<1>2. ASSUME Succeed(w) \/ Fail(w) \/ Cancel(w)
      PROVE  ThreadStep(w)
  BY <1>2 DEF Succeed, Fail, Cancel, Leave, ThreadStep, Stops, Ending
<1>3. ASSUME \/ Checkpoint(w, "begin", "reserve") \/ Checkpoint(w, "checkRefuse", "refuse")
             \/ Checkpoint(w, "checkValidate", "validate")
             \/ Checkpoint(w, "checkPublish", "publish")
      PROVE  ThreadStep(w)
  BY <1>3, CheckpointShape DEF ThreadStep
<1>4. ASSUME Retrieve(w) \/ Generate(w) \/ Validate(w)
      PROVE  ThreadStep(w)
  <2>1. CASE Retrieve(w)
    <3>1. PICK next \in {"checkRefuse", "search"} :
             Transition(w, "retrieve", "pending", "retrieving", next)
      BY <2>1 DEF Retrieve
    <3>2. InPlace(next, "retrieving") /\ next \notin WithEvidence
      BY DEF InPlace, WithEvidence
    <3> QED
      BY <3>1, <3>2, TransitionShape DEF ThreadStep
  <2>2. CASE Generate(w)
    <3>1. InPlace("model", "generating") /\ "generate" \in WithEvidence
      BY DEF InPlace, WithEvidence
    <3> QED
      BY <2>2, <3>1, TransitionShape DEF Generate, ThreadStep
  <2>3. CASE Validate(w)
    <3>1. InPlace("checkPublish", "validating") /\ "validate" \in WithEvidence
      BY DEF InPlace, WithEvidence
    <3> QED
      BY <2>3, <3>1, TransitionShape DEF Validate, ThreadStep
  <2> QED
    BY <1>4, <2>1, <2>2, <2>3
<1> QED
  BY <1>1, <1>2, <1>3, <1>4, FaultShape, ReserveShape, SearchShape, ModelShape, WritesShape
     DEF WorkerStep, ThreadStep

----------------------------------------------------------------------------
(***************************************************************************)
(* What one step of the chat may be.                                       *)
(***************************************************************************)

\* Threads stay where they are, turns too or they are interrupted.
Interrupts ==
    /\ thread' = thread
    /\ \E S \in SUBSET Questions :
          turns' = [k \in Questions |-> IF k \in S THEN Interrupted(turns[k]) ELSE turns[k]]

\* The process is gone, with its threads.
Dies == turns' = turns /\ thread' = [w \in Workers |-> IdleThread] /\ mode' = "down"

LEMMA ChatShapes ==
    ASSUME CInv, [CNext]_cvars
    PROVE  Interrupts \/ Dies \/ \E w \in Workers : ThreadStep(w)
<1>1. ASSUME UNCHANGED <<turns, thread>>
      PROVE  Interrupts
  <2>1. turns \in [Questions -> Turns]
    BY DEF CInv, CTypeOK
  <2>2. turns' = [k \in Questions |-> IF k \in {} THEN Interrupted(turns[k]) ELSE turns[k]]
    BY <1>1, <2>1
  <2>3. {} \in SUBSET Questions
    OBVIOUS
  <2> QED
    BY <1>1, <2>2, <2>3 DEF Interrupts
<1>2. ASSUME \/ \E t \in TaskIds, req \in Requests : Ask(t, req)
             \/ \E t \in TaskIds : Retry(t) \/ AskCancel(t)
             \/ \E c \in Resources, S \in SUBSET Sources : SelectSources(c, S)
             \/ \E s \in Sources : EditSource(s) \/ ToggleSource(s)
             \/ \E c \in Resources : CheckConversation(c) \/ RestoreConversation(c)
             \/ LeaveConversation
             \/ StartTasks \/ Exit \/ UNCHANGED cvars
      PROVE  Interrupts
  <2>1. UNCHANGED <<turns, thread>>
    BY <1>2 DEF Ask, Retry, AskCancel, SelectSources, EditSource, ToggleSource,
                CheckConversation, RestoreConversation, LeaveConversation,
                StartTasks, Exit, cvars, chatVars
  <2> QED
    BY <1>1, <2>1
<1>3. ASSUME NEW c \in Resources, TrashConversation(c)
      PROVE  Interrupts
  <2> DEFINE S == { k \in Questions : Conversation(k) = c }
  <2>1. turns' = [k \in Questions |-> IF k \in S THEN Interrupted(turns[k]) ELSE turns[k]]
    BY <1>3 DEF TrashConversation
  <2>2. thread' = thread
    BY <1>3 DEF TrashConversation
  <2>3. S \in SUBSET Questions
    OBVIOUS
  <2> HIDE DEF S
  <2> QED
    BY <2>1, <2>2, <2>3 DEF Interrupts
<1>4. ASSUME StartTurns
      PROVE  Interrupts
  <2>1. turns' = [k \in Questions |-> IF k \in Questions THEN Interrupted(turns[k]) ELSE turns[k]]
    BY <1>4 DEF StartTurns
  <2> QED
    BY <1>4, <2>1 DEF StartTurns, Interrupts
<1>5. ASSUME Crash
      PROVE  Dies
  BY <1>5 DEF Crash, Dies
<1> QED
  BY <1>2, <1>3, <1>4, <1>5, ThreadShapes DEF CNext

\* The mode changes at starts and ends of the process only, and recovery ends
\* with every turn interrupted or with no thread left.
LEMMA ModeSteps ==
    ASSUME CInv, [CNext]_cvars
    PROVE  /\ faults' \in {faults, faults + 1}
           /\ \/ mode' = mode
              \/ mode' = "recovering"
              \/ Dies
              \/ mode = "open" /\ mode' = "down" /\ UNCHANGED <<storeVars, turns, thread>>
              \/ /\ mode' = "open" /\ UNCHANGED <<storeVars, thread>>
                 /\ turns' = [k \in Questions |-> Interrupted(turns[k])]
<1>0. faults \in Nat
  BY ChatAssumption DEF CInv, CTypeOK
<1>1. ASSUME NEW w \in Workers, WorkerStep(w)
      PROVE  faults' = faults /\ mode' = mode
  BY <1>1 DEF WorkerStep, Checkpoint, Reserve, ReserveReplay, ReserveRetry, ReserveNew, Retrieve,
              Search, Generate, Model, Refuse, Validate, Publish, FailTurn, Transition,
              Succeed, Fail, Cancel, Goto, Leave
<1>2. ASSUME NEW w \in Workers, StaleDies(w) \/ Fault(w) \/ \E t \in TaskIds : Claim(w, t)
      PROVE  (faults' = faults \/ faults' = faults + 1) /\ mode' = mode
  BY <1>2 DEF StaleDies, Fault, Claim
<1>3. ASSUME \/ \E t \in TaskIds, req \in Requests : Ask(t, req)
             \/ \E t \in TaskIds : Retry(t) \/ AskCancel(t)
             \/ \E c \in Resources, S \in SUBSET Sources : SelectSources(c, S)
             \/ \E s \in Sources : EditSource(s) \/ ToggleSource(s)
             \/ \E c \in Resources :
                   CheckConversation(c) \/ TrashConversation(c) \/ RestoreConversation(c)
             \/ LeaveConversation
             \/ UNCHANGED cvars
      PROVE  faults' = faults /\ mode' = mode
  BY <1>3 DEF Ask, Retry, AskCancel, SelectSources, EditSource, ToggleSource,
              CheckConversation, TrashConversation, RestoreConversation,
              LeaveConversation, cvars, chatVars
<1>4. ASSUME StartTasks \/ StartTurns \/ Exit \/ Crash
      PROVE  /\ faults' = faults
             /\ \/ mode' = "recovering"
                \/ Dies
                \/ mode = "open" /\ mode' = "down" /\ UNCHANGED <<storeVars, turns, thread>>
                \/ /\ mode' = "open" /\ UNCHANGED <<storeVars, thread>>
                   /\ turns' = [k \in Questions |-> Interrupted(turns[k])]
  BY <1>4 DEF StartTasks, StartTurns, Exit, Crash, Dies
<1> QED
  BY <1>0, <1>1, <1>2, <1>3, <1>4 DEF CNext

\* A claim that is held stays held until its own thread ends it, over everything
\* other threads and users do, or until startup settles the tasks.
LEMMA HeldStays ==
    ASSUME CInv, [CNext]_cvars, NEW w \in Workers, Works(w),
           Held(w, {"running", "canceling"})
    PROVE  \/ mode' = "recovering"
           \/ Stops(w)
           \/ /\ tasks'[thread[w].job].status \in {"running", "canceling"}
              /\ tasks'[thread[w].job].claim = thread[w].claim
<1> DEFINE j == thread[w].job
           StillHeld == tasks'[j].status \in {"running", "canceling"} /\ tasks'[j].claim = thread[w].claim
<1>0. /\ j \in TaskIds /\ tasks[j].status \in {"running", "canceling"}
      /\ tasks[j].claim = thread[w].claim
      /\ tasks \in [TaskIds -> Row] /\ tasks[j] \in Row
  BY WorksOnQuestion DEF Held, ClaimHeld, CInv, StoreInv, TypeOK
<1>1. ASSUME tasks'[j] = tasks[j] PROVE StillHeld
  BY <1>0, <1>1
<1>2. ASSUME NEW t \in TaskIds, t # j \/ tasks'[j] = tasks[j], NEW new,
             tasks' = [tasks EXCEPT ![t] = new]
      PROVE  StillHeld
  BY <1>0, <1>2
<1>3. ASSUME NEW t \in TaskIds,
             \/ \E req \in Requests : Ask(t, req)
             \/ Retry(t) \/ \E v \in Workers : Claim(v, t)
      PROVE  StillHeld
  <2>1. t # j
    BY <1>0, <1>3 DEF Ask, Retry, Claim, CreateTask, Exists, RetryTask, MayRetry, ClaimTask
  <2>2. \E new : tasks' = [tasks EXCEPT ![t] = new]
    BY <1>3 DEF Ask, Retry, Claim, CreateTask, RetryTask, ClaimTask
  <2> QED
    BY <1>2, <2>1, <2>2
<1>4. ASSUME NEW t \in TaskIds, AskCancel(t)
      PROVE  StillHeld
  <2>1. CASE t # j
    <3>1. \E new : tasks' = [tasks EXCEPT ![t] = new]
      BY <1>4 DEF AskCancel, RequestTaskCancel, CancelQueued, CancelRunning
    <3> QED
      BY <1>2, <2>1, <3>1
  <2>2. CASE t = j
    <3>1. tasks' = [tasks EXCEPT ![j] = CancelAsked(tasks[j])]
      BY <1>0, <1>4, <2>2 DEF AskCancel, RequestTaskCancel, CancelQueued, CancelRunning
    <3>2. tasks'[j] = CancelAsked(tasks[j])
      BY <1>0, <3>1
    <3> QED
      BY <1>0, <3>2 DEF CancelAsked, Row
  <2> QED
    BY <2>1, <2>2
<1>5. ASSUME NEW v \in Workers, Succeed(v) \/ Fail(v) \/ Cancel(v)
      PROVE  Stops(w) \/ StillHeld
  <2>1. Works(v) /\ Stops(v)
    BY <1>5 DEF Succeed, Fail, Cancel, Works, Leave, Stops, Ending
  <2>2. CASE v = w
    BY <2>1, <2>2
  <2>3. CASE v # w
    <3>1. \/ UNCHANGED tasks
          \/ /\ tasks[thread[v].job].claim = thread[v].claim
             /\ \E new : tasks' = [tasks EXCEPT ![thread[v].job] = new]
      BY <1>5 DEF Succeed, Fail, Cancel, SucceedTask, FailTask, MarkTaskCanceled, ClaimHeld,
                  storeVars
    <3>2. thread[v].job = j => thread[v].claim # thread[w].claim
      BY <2>1, <2>3 DEF CInv, PairsInv
    <3>3. thread[v].job \in TaskIds
      BY <2>1, WorksOnQuestion
    <3> QED
      BY <1>0, <1>1, <1>2, <3>1, <3>2, <3>3
  <2> QED
    BY <2>2, <2>3
<1>6. ASSUME NEW v \in Workers, WorkerStep(v)
      PROVE  Stops(w) \/ StillHeld
  <2>1. Succeed(v) \/ Fail(v) \/ Cancel(v) \/ UNCHANGED tasks
    BY <1>6 DEF WorkerStep, Checkpoint, Reserve, Retrieve, Search, Generate, Model, Refuse,
                Validate, Publish, FailTurn, Transition, storeVars
  <2> QED
    BY <1>1, <1>5, <2>1
<1>7. ASSUME \/ \E c \in Resources, S \in SUBSET Sources : SelectSources(c, S)
             \/ \E s \in Sources : EditSource(s) \/ ToggleSource(s)
             \/ \E v \in Workers : StaleDies(v) \/ Fault(v)
             \/ \E c \in Resources :
                   CheckConversation(c) \/ TrashConversation(c) \/ RestoreConversation(c)
             \/ LeaveConversation
             \/ StartTurns \/ Exit \/ Crash \/ UNCHANGED cvars
      PROVE  StillHeld
  <2>1. UNCHANGED tasks
    BY <1>7 DEF SelectSources, EditSource, ToggleSource, StaleDies, Fault, StartTurns, Exit,
                CheckConversation, TrashConversation, RestoreConversation, LeaveConversation,
                RequireNoActiveTasks, TrashResource, RestoreResource, AbandonDeletion,
                Crash, cvars, storeVars
  <2> QED
    BY <1>1, <2>1
<1>8. ASSUME StartTasks
      PROVE  mode' = "recovering"
  BY <1>8 DEF StartTasks
<1> HIDE DEF StillHeld, j
<1>9. Stops(w) \/ StillHeld \/ mode' = "recovering"
  BY <1>3, <1>4, <1>6, <1>7, <1>8 DEF CNext
<1> QED
  BY <1>9 DEF StillHeld, j

----------------------------------------------------------------------------
(***************************************************************************)
(* Turns.                                                                  *)
(***************************************************************************)

\* TurnRecordsAgree, of one turn.
Agrees(turn) ==
    /\ (turn.status \in ActiveTurn) <=> (turn.message = "generating")
    /\ (turn.status \in ActiveTurn) <=> (turn.token # 0)
    /\ turn.token \in {0, turn.tokens}
    /\ (turn.status \in {"completed", "refused"}) <=> (turn.message = "complete")
    /\ (turn.status = "completed") <=> (turn.cited # {})

LEMMA AllAgree == TurnRecordsAgree <=> \A k \in Questions : Agrees(turns[k])
BY DEF TurnRecordsAgree, Agrees

\* What a transaction writes into a turn is a turn, with its message.
LEMMA TurnWrites ==
    ASSUME NEW turn \in Turns, Agrees(turn), NEW scope \in SUBSET Sources,
           NEW cited \in SUBSET Evidence, NEW to \in ActiveTurn
    PROVE  /\ Interrupted(turn) \in Turns /\ Agrees(Interrupted(turn))
           /\ turn.status \in {"absent", "failed"} =>
                 /\ Reserved(turn, scope) \in Turns /\ Agrees(Reserved(turn, scope))
           /\ turn.status \in ActiveTurn =>
                 /\ [turn EXCEPT !.status = to] \in Turns /\ Agrees([turn EXCEPT !.status = to])
                 /\ Finished(turn, "completed", "complete", cited) \in Turns
                 /\ cited # {} => Agrees(Finished(turn, "completed", "complete", cited))
                 /\ /\ Finished(turn, "refused", "complete", {}) \in Turns
                    /\ Agrees(Finished(turn, "refused", "complete", {}))
                 /\ /\ Finished(turn, "failed", "failed", {}) \in Turns
                    /\ Agrees(Finished(turn, "failed", "failed", {}))
<1> USE DEF Turns, Agrees, TurnStatuses, ActiveTurn
<1>1. Interrupted(turn) \in Turns /\ Agrees(Interrupted(turn))
  BY DEF Interrupted
<1>2. Reserved(turn, scope) \in Turns
  <2>0. PICK n \in Nat : n = turn.tokens + 1
    OBVIOUS
  <2> DEFINE s == [turn EXCEPT !.status = "pending", !.token = n, !.tokens = n]
  <2>1. s \in Turns
    OBVIOUS
  <2>2. Reserved(turn, scope) =
           [s EXCEPT !.scope = scope, !.message = "generating", !.cited = {}]
    BY <2>0 DEF Reserved
  <2> HIDE DEF s
  <2> QED
    BY <2>1, <2>2
<1>3. Agrees(Reserved(turn, scope))
  <2> DEFINE s == Reserved(turn, scope)
  <2>1. /\ s.status = "pending" /\ s.message = "generating" /\ s.cited = {}
        /\ s.token = turn.tokens + 1 /\ s.tokens = turn.tokens + 1
    BY DEF Reserved
  <2>2. turn.tokens + 1 # 0
    OBVIOUS
  <2> HIDE DEF s
  <2>3. Agrees(s)
    BY <2>1, <2>2
  <2> QED
    BY <2>3 DEF s
<1>4. turn.status \in ActiveTurn =>
         [turn EXCEPT !.status = to] \in Turns /\ Agrees([turn EXCEPT !.status = to])
  OBVIOUS
<1>5. turn.status \in ActiveTurn =>
         /\ Finished(turn, "completed", "complete", cited) \in Turns
         /\ cited # {} => Agrees(Finished(turn, "completed", "complete", cited))
  BY DEF Finished
<1>6. turn.status \in ActiveTurn => /\ Finished(turn, "refused", "complete", {}) \in Turns
                                    /\ Agrees(Finished(turn, "refused", "complete", {}))
  BY DEF Finished
<1>7. turn.status \in ActiveTurn => /\ Finished(turn, "failed", "failed", {}) \in Turns
                                    /\ Agrees(Finished(turn, "failed", "failed", {}))
  BY DEF Finished
<1> QED
  BY <1>1, <1>2, <1>3, <1>4, <1>5, <1>6, <1>7

\* What one step does to a turn: nothing is taken back from an answer, and a turn
\* is active under the token it had, or under a new one.
Went(r, s) ==
    /\ s.tokens >= r.tokens
    /\ r.status \in Final => s = r
    /\ s.status \in ActiveTurn => \/ r.status \in ActiveTurn /\ s.token = r.token
                                  \/ r.status \notin ActiveTurn /\ s.token > r.tokens

LEMMA WritesGo ==
    ASSUME NEW turn \in Turns, NEW scope \in SUBSET Sources,
           NEW cited \in SUBSET Evidence, NEW to \in ActiveTurn
    PROVE  /\ Went(turn, turn)
           /\ Went(turn, Interrupted(turn))
           /\ turn.status \in {"absent", "failed"} => Went(turn, Reserved(turn, scope))
           /\ turn.status \in ActiveTurn =>
                 /\ Went(turn, [turn EXCEPT !.status = to])
                 /\ Went(turn, Finished(turn, "completed", "complete", cited))
                 /\ Went(turn, Finished(turn, "refused", "complete", {}))
                 /\ Went(turn, Finished(turn, "failed", "failed", {}))
<1> USE DEF Turns, Went, Final, ActiveTurn
<1>1. Went(turn, turn)
  OBVIOUS
<1>2. Went(turn, Interrupted(turn))
  BY DEF Interrupted
<1>3. turn.status \in {"absent", "failed"} => Went(turn, Reserved(turn, scope))
  BY DEF Reserved
<1>4. turn.status \in ActiveTurn => Went(turn, [turn EXCEPT !.status = to])
  OBVIOUS
<1>5. turn.status \in ActiveTurn =>
         /\ Went(turn, Finished(turn, "completed", "complete", cited))
         /\ Went(turn, Finished(turn, "refused", "complete", {}))
         /\ Went(turn, Finished(turn, "failed", "failed", {}))
  BY DEF Finished
<1> QED
  BY <1>1, <1>2, <1>3, <1>4, <1>5

\* A write of a thread, to the turn it works on.
WritesTurn(w, new) ==
    /\ Works(w) /\ SetTurn(w, new)
    /\ \/ /\ Turn(w).status \in {"absent", "failed"}
          /\ \E scope \in SUBSET Sources : new = Reserved(Turn(w), scope)
       \/ /\ Turn(w).status \in ActiveTurn
          /\ \/ \E to \in ActiveTurn : new = [Turn(w) EXCEPT !.status = to]
             \/ \E cited \in SUBSET Evidence :
                   cited # {} /\ new = Finished(Turn(w), "completed", "complete", cited)
             \/ new = Finished(Turn(w), "refused", "complete", {})
             \/ new = Finished(Turn(w), "failed", "failed", {})

LEMMA ThreadWrites ==
    ASSUME CInv, NEW w \in Workers, ThreadStep(w)
    PROVE  turns' = turns \/ \E new : WritesTurn(w, new)
<1>1. CASE (Works(w) /\ Goes(w)) \/ Stops(w) \/ Takes(w)
  BY <1>1 DEF Goes, Stops, Takes
<1>2. CASE Works(w) /\ Begins(w)
  BY <1>2 DEF Begins, WritesTurn
<1>3. CASE Works(w) /\ Advances(w)
  <2>1. PICK to \in ActiveTurn : SetTurn(w, [Turn(w) EXCEPT !.status = to])
    BY <1>3 DEF Advances
  <2>2. Turn(w).status \in ActiveTurn
    BY <1>3 DEF Advances, OwnsTurn
  <2> QED
    BY <1>3, <2>1, <2>2 DEF WritesTurn
<1>4. CASE Works(w) /\ Closes(w)
  <2>1. Turn(w).status \in ActiveTurn
    BY <1>4 DEF Closes, OwnsTurn
  <2>2. CASE /\ thread[w].pc = "publish"
             /\ SetTurn(w, Finished(Turn(w), "completed", "complete", thread[w].evidence))
    <3>1. thread[w].evidence \in SUBSET Evidence /\ thread[w].evidence # {}
      BY <2>2 DEF CInv, CTypeOK, ThreadsInv, WithEvidence
    <3> QED
      BY <1>4, <2>1, <2>2, <3>1 DEF WritesTurn
  <2>3. CASE SetTurn(w, Finished(Turn(w), "refused", "complete", {}))
    BY <1>4, <2>1, <2>3 DEF WritesTurn
  <2>4. CASE SetTurn(w, Finished(Turn(w), "failed", "failed", {}))
    BY <1>4, <2>1, <2>4 DEF WritesTurn
  <2> QED
    BY <1>4, <2>2, <2>3, <2>4 DEF Closes
<1> QED
  BY <1>1, <1>2, <1>3, <1>4 DEF ThreadStep

\* Every turn goes the way of its life cycle, whoever writes it.
LEMMA TurnsGo ==
    ASSUME CInv, [CNext]_cvars
    PROVE  /\ turns' \in [Questions -> Turns]
           /\ \A k \in Questions : Agrees(turns'[k]) /\ Went(turns[k], turns'[k])
<1>0. /\ turns \in [Questions -> Turns]
      /\ \A k \in Questions : turns[k] \in Turns /\ Agrees(turns[k])
  BY AllAgree DEF CInv, CTypeOK
<1>1. \A k \in Questions :
         /\ Went(turns[k], turns[k])
         /\ Interrupted(turns[k]) \in Turns /\ Agrees(Interrupted(turns[k]))
         /\ Went(turns[k], Interrupted(turns[k]))
  <2> TAKE k \in Questions
  <2>1. {} \in SUBSET Sources /\ {} \in SUBSET Evidence /\ "pending" \in ActiveTurn
    BY DEF ActiveTurn
  <2> QED
    BY <1>0, <2>1, TurnWrites, WritesGo
<1>2. CASE turns' = turns
  BY <1>0, <1>1, <1>2
<1>3. CASE Interrupts
  <2>1. PICK S \in SUBSET Questions :
           turns' = [k \in Questions |-> IF k \in S THEN Interrupted(turns[k]) ELSE turns[k]]
    BY <1>3 DEF Interrupts
  <2> QED
    BY <1>0, <1>1, <2>1
<1>4. ASSUME NEW w \in Workers, NEW new, WritesTurn(w, new)
      PROVE  /\ turns' \in [Questions -> Turns]
             /\ \A k \in Questions : Agrees(turns'[k]) /\ Went(turns[k], turns'[k])
  <2>1. Question(thread[w].job) \in Questions /\ Turn(w) \in Turns /\ Agrees(Turn(w))
    <3>1. Question(thread[w].job) \in Questions
      BY <1>4, WorksOnQuestion DEF WritesTurn
    <3> QED
      BY <1>0, <3>1 DEF Turn
  <2>2. new \in Turns /\ Agrees(new) /\ Went(Turn(w), new)
    <3>1. {} \in SUBSET Sources /\ {} \in SUBSET Evidence /\ "pending" \in ActiveTurn
      BY DEF ActiveTurn
    <3>2. CASE /\ Turn(w).status \in {"absent", "failed"}
               /\ \E scope \in SUBSET Sources : new = Reserved(Turn(w), scope)
      BY <2>1, <3>1, <3>2, TurnWrites, WritesGo
    <3>3. CASE /\ Turn(w).status \in ActiveTurn
               /\ \E to \in ActiveTurn : new = [Turn(w) EXCEPT !.status = to]
      BY <2>1, <3>1, <3>3, TurnWrites, WritesGo
    <3>4. CASE /\ Turn(w).status \in ActiveTurn
               /\ \E cited \in SUBSET Evidence :
                     cited # {} /\ new = Finished(Turn(w), "completed", "complete", cited)
      BY <2>1, <3>1, <3>4, TurnWrites, WritesGo
    <3>5. CASE /\ Turn(w).status \in ActiveTurn
               /\ \/ new = Finished(Turn(w), "refused", "complete", {})
                  \/ new = Finished(Turn(w), "failed", "failed", {})
      BY <2>1, <3>1, <3>5, TurnWrites, WritesGo
    <3> QED
      BY <1>4, <3>2, <3>3, <3>4, <3>5 DEF WritesTurn
  <2>3. turns' = [turns EXCEPT ![Question(thread[w].job)] = new]
    BY <1>4 DEF WritesTurn, SetTurn
  <2> QED
    BY <1>0, <1>1, <2>1, <2>2, <2>3 DEF Turn
<1> QED
  BY <1>2, <1>3, <1>4, ChatShapes, ThreadWrites DEF Dies

LEMMA TurnsStep == ASSUME CInv, [CNext]_cvars PROVE TurnRecordsAgree'
BY TurnsGo DEF TurnRecordsAgree, Agrees

\* A thread writes its own turn only.
LEMMA OtherTurnsStay ==
    ASSUME CInv, NEW w \in Workers, ThreadStep(w), NEW k \in Questions,
           ~(Works(w) /\ Question(thread[w].job) = k)
    PROVE  turns'[k] = turns[k]
<1>1. ASSUME NEW new, WritesTurn(w, new)
      PROVE  turns'[k] = turns[k]
  <2>1. turns' = [turns EXCEPT ![Question(thread[w].job)] = new] /\ Question(thread[w].job) # k
    BY <1>1 DEF WritesTurn, SetTurn
  <2> QED
    BY <2>1 DEF CInv, CTypeOK
<1> QED
  BY <1>1, ThreadWrites

\* A turn becomes active in the hands of a thread that begins it.
LEMMA Activated ==
    ASSUME CInv, [CNext]_cvars, NEW k \in Questions,
           turns[k].status \notin ActiveTurn, turns'[k].status \in ActiveTurn
    PROVE  \E w \in Workers : Works(w) /\ Begins(w) /\ Question(thread[w].job) = k
<1>1. CASE turns' = turns
  BY <1>1
<1>2. CASE Interrupts
  BY <1>2 DEF Interrupts, Interrupted
<1>3. ASSUME NEW w \in Workers, ThreadStep(w)
      PROVE  Works(w) /\ Begins(w) /\ Question(thread[w].job) = k
  <2>1. Works(w) /\ Question(thread[w].job) = k
    BY <1>3, OtherTurnsStay
  <2>2. Turn(w).status \notin ActiveTurn
    BY <2>1 DEF Turn
  <2>3. ~Advances(w) /\ ~Closes(w)
    BY <2>2 DEF Advances, Closes, OwnsTurn
  <2>4. ~Goes(w) /\ ~Stops(w) /\ ~Takes(w)
    BY DEF Goes, Stops, Takes
  <2> QED
    BY <1>3, <2>1, <2>3, <2>4 DEF ThreadStep
<1> QED
  BY <1>1, <1>2, <1>3, ChatShapes DEF Dies

LEMMA OneActiveStep == ASSUME CInv, [CNext]_cvars PROVE OneActiveTurn'
<1> SUFFICES ASSUME NEW k \in Questions, NEW q \in Questions,
                    turns'[k].status \in ActiveTurn, turns'[q].status \in ActiveTurn,
                    Conversation(k) = Conversation(q), k # q
             PROVE  FALSE
  BY DEF OneActiveTurn, Conversation
<1>1. ASSUME NEW a \in Questions, NEW b \in Questions, a # b,
             Conversation(a) = Conversation(b), turns[a].status \notin ActiveTurn,
             turns'[a].status \in ActiveTurn, turns'[b].status \in ActiveTurn
      PROVE  FALSE
  <2>1. PICK w \in Workers : Works(w) /\ Begins(w) /\ Question(thread[w].job) = a
    BY <1>1, Activated
  <2>2. turns'[b] = turns[b]
    BY <1>1, <2>1, OtherTurnsStay DEF ThreadStep
  <2>3. b \in OthersActive(a)
    BY <1>1, <2>2 DEF OthersActive
  <2> QED
    BY <2>1, <2>3 DEF Begins
<1>2. turns[k].status \in ActiveTurn /\ turns[q].status \in ActiveTurn
  BY <1>1
<1> QED
  BY <1>2 DEF CInv, OneActiveTurn

----------------------------------------------------------------------------
(***************************************************************************)
(* Threads.                                                                *)
(***************************************************************************)

\* What one step makes of a thread that works afterwards: it is where it was, it
\* moved on itself, or it took a task.
LEMMA ThreadsGo ==
    ASSUME CInv, [CNext]_cvars, NEW w \in Workers, thread'[w].pc # "idle"
    PROVE  \/ Works(w) /\ thread'[w] = thread[w]
           \/ Works(w) /\ (Goes(w) \/ Begins(w) \/ Advances(w) \/ Closes(w))
           \/ Takes(w)
<1>0. thread \in [Workers -> [pc : Steps, job : TaskIds \cup {NoKey}, claim : Nat,
                              retry : BOOLEAN, gen : Nat, evidence : SUBSET Evidence]]
  BY DEF CInv, CTypeOK
<1>1. CASE Interrupts
  BY <1>1 DEF Interrupts, Works
<1>2. CASE Dies
  BY <1>2 DEF Dies, IdleThread
<1>3. ASSUME NEW v \in Workers, ThreadStep(v), v # w
      PROVE  thread'[w] = thread[w]
  BY <1>0, <1>3 DEF ThreadStep, Goes, Begins, Advances, Closes, Stops, Takes
<1>4. CASE ThreadStep(w)
  <2>1. ~Stops(w)
    BY <1>0 DEF Stops, IdleThread
  <2> QED
    BY <1>4, <2>1 DEF ThreadStep
<1> QED
  BY <1>1, <1>2, <1>3, <1>4, ChatShapes DEF Works

\* Its task, its claim and its token.
LEMMA ThreadKeeps ==
    ASSUME CInv, [CNext]_cvars, NEW w \in Workers, thread'[w].pc # "idle"
    PROVE  \/ /\ Works(w)
              /\ thread'[w].job = thread[w].job /\ thread'[w].claim = thread[w].claim
              /\ \/ thread'[w].gen = thread[w].gen
                 \/ /\ Begins(w) /\ thread'[w].gen = Turn(w).tokens + 1
                    /\ thread'[w].pc = "retrieve"
           \/ /\ Takes(w) /\ thread'[w].gen = 0 /\ thread'[w].pc = "begin"
              /\ \E t \in TaskIds : /\ ClaimTask(t) /\ thread'[w].job = t
                                    /\ thread'[w].claim = tasks[t].claims + 1
<1>0. /\ thread \in [Workers -> [pc : Steps, job : TaskIds \cup {NoKey}, claim : Nat,
                                 retry : BOOLEAN, gen : Nat, evidence : SUBSET Evidence]]
  BY DEF CInv, CTypeOK
<1>1. CASE Works(w) /\ thread'[w] = thread[w]
  BY <1>1
<1>2. CASE Works(w) /\ (Goes(w) \/ Advances(w) \/ Closes(w))
  <2>1. /\ thread'[w].job = thread[w].job /\ thread'[w].claim = thread[w].claim
        /\ thread'[w].gen = thread[w].gen
    <3>1. CASE Goes(w)
      BY <1>0, <3>1 DEF Goes
    <3>2. CASE Advances(w) \/ Closes(w)
      <4>1. PICK next \in Steps : thread' = [thread EXCEPT ![w].pc = next]
        BY <3>2 DEF Advances, Closes, Steps
      <4> QED
        BY <1>0, <4>1
    <3> QED
      BY <1>2, <3>1, <3>2
  <2> QED
    BY <1>2, <2>1
<1>3. CASE Works(w) /\ Begins(w)
  <2>1. /\ thread'[w].job = thread[w].job /\ thread'[w].claim = thread[w].claim
        /\ thread'[w].gen = Turn(w).tokens + 1 /\ thread'[w].pc = "retrieve"
    BY <1>0, <1>3 DEF Begins
  <2> QED
    BY <1>3, <2>1
<1>4. CASE Takes(w)
  <2>1. PICK t \in TaskIds, again \in BOOLEAN :
           /\ ClaimTask(t)
           /\ thread' = [thread EXCEPT ![w] =
                 [IdleThread EXCEPT !.pc = "begin", !.job = t, !.claim = tasks[t].claims + 1,
                                    !.retry = again]]
    BY <1>4 DEF Takes
  <2>2. /\ thread'[w].gen = 0 /\ thread'[w].pc = "begin" /\ thread'[w].job = t
        /\ thread'[w].claim = tasks[t].claims + 1
    BY <1>0, <2>1 DEF IdleThread
  <2> QED
    BY <1>4, <2>1, <2>2
<1> QED
  BY <1>1, <1>2, <1>3, <1>4, ThreadsGo

\* A thread that keeps its task stays on its question.
LEMMA TurnStays ==
    ASSUME CInv, [CNext]_cvars, NEW w \in Workers, Works(w), thread'[w].job = thread[w].job
    PROVE  /\ Question(thread[w].job) \in Questions
           /\ Turn(w) = turns[Question(thread[w].job)]
           /\ Turn(w)' = turns'[Question(thread[w].job)]
           /\ Turn(w) \in Turns /\ Turn(w)' \in Turns
           /\ Agrees(Turn(w)') /\ Went(Turn(w), Turn(w)')
<1>1. thread[w].job \in TaskIds /\ Exists(thread[w].job) /\ Question(thread[w].job) \in Questions
  BY WorksOnQuestion
<1>2. tasks'[thread[w].job].req.idem = tasks[thread[w].job].req.idem
  BY <1>1, QuestionStays DEF Question
<1>3. Turn(w)' = turns'[Question(thread[w].job)]
  BY <1>2 DEF Turn, Question
<1> QED
  BY <1>1, <1>3, WorksOnQuestion, TurnsGo DEF Turn

Threads == [pc : Steps, job : TaskIds \cup {NoKey}, claim : Nat, retry : BOOLEAN, gen : Nat,
            evidence : SUBSET Evidence]

\* Threads keep to their places, and an idle one has forgotten its task.
LEMMA ThreadsTyped ==
    ASSUME CInv, [CNext]_cvars
    PROVE  /\ thread' \in [Workers -> Threads]
           /\ \A w \in Workers : thread'[w].pc = "idle" => thread'[w] = IdleThread
<1>0. /\ thread \in [Workers -> Threads]
      /\ \A w \in Workers : thread[w] \in Threads /\ (thread[w].pc = "idle" => thread[w] = IdleThread)
  BY DEF CInv, CTypeOK, ThreadsInv, Works, Threads
<1>1. IdleThread \in Threads
  BY DEF IdleThread, Threads, Steps
<1>2. ASSUME NEW w \in Workers, NEW new \in Threads, thread' = [thread EXCEPT ![w] = new],
             new.pc = "idle" => new = IdleThread
      PROVE  /\ thread' \in [Workers -> Threads]
             /\ \A v \in Workers : thread'[v].pc = "idle" => thread'[v] = IdleThread
  BY <1>0, <1>2
<1>3. ASSUME NEW w \in Workers, Works(w), Goes(w) \/ Begins(w) \/ Advances(w) \/ Closes(w)
      PROVE  \E new \in Threads : thread' = [thread EXCEPT ![w] = new] /\ new.pc # "idle"
  <2>1. thread[w] \in Threads
    BY <1>0
  <2>2. CASE Goes(w)
    <3>1. PICK next \in Steps \ {"idle", "begin"}, found \in SUBSET Evidence :
             thread' = [thread EXCEPT ![w].pc = next, ![w].evidence = found]
      BY <2>2 DEF Goes
    <3> DEFINE new == [thread[w] EXCEPT !.pc = next, !.evidence = found]
    <3>2. new \in Threads /\ new.pc # "idle"
      BY <2>1 DEF Threads
    <3>3. thread' = [thread EXCEPT ![w] = new]
      BY <1>0, <3>1
    <3> QED
      BY <3>2, <3>3
  <2>3. CASE Begins(w)
    <3> DEFINE new == [thread[w] EXCEPT !.pc = "retrieve", !.gen = Turn(w).tokens + 1]
    <3>1. Turn(w).tokens + 1 \in Nat
      BY <1>3, WorksOnQuestion DEF Turns
    <3>2. new \in Threads /\ new.pc # "idle"
      BY <2>1, <3>1 DEF Threads, Steps
    <3>3. thread' = [thread EXCEPT ![w] = new]
      BY <1>0, <2>3 DEF Begins
    <3> QED
      BY <3>2, <3>3
  <2>4. CASE Advances(w) \/ Closes(w)
    <3>1. PICK next \in Steps \ {"idle"} : thread' = [thread EXCEPT ![w].pc = next]
      BY <2>4 DEF Advances, Closes, Steps
    <3> DEFINE new == [thread[w] EXCEPT !.pc = next]
    <3>2. new \in Threads /\ new.pc # "idle"
      BY <2>1 DEF Threads
    <3>3. thread' = [thread EXCEPT ![w] = new]
      BY <1>0, <3>1
    <3> QED
      BY <3>2, <3>3
  <2> QED
    BY <1>3, <2>2, <2>3, <2>4
<1>4. ASSUME NEW w \in Workers, Takes(w)
      PROVE  \E new \in Threads : thread' = [thread EXCEPT ![w] = new] /\ new.pc # "idle"
  <2>1. PICK t \in TaskIds, again \in BOOLEAN :
           /\ ClaimTask(t)
           /\ thread' = [thread EXCEPT ![w] =
                 [IdleThread EXCEPT !.pc = "begin", !.job = t, !.claim = tasks[t].claims + 1,
                                    !.retry = again]]
    BY <1>4 DEF Takes
  <2>2. PICK n \in Nat : n = tasks[t].claims + 1
    BY DEF CInv, StoreInv, TypeOK, Row
  <2> DEFINE new == [IdleThread EXCEPT !.pc = "begin", !.job = t, !.claim = n, !.retry = again]
  <2>3. new \in Threads /\ new.pc # "idle"
    BY <1>1 DEF Threads, Steps
  <2>4. thread' = [thread EXCEPT ![w] = new]
    BY <2>1, <2>2
  <2> HIDE DEF new
  <2> QED
    BY <2>3, <2>4
<1>5. ASSUME NEW w \in Workers, ThreadStep(w)
      PROVE  \E new \in Threads : /\ thread' = [thread EXCEPT ![w] = new]
                                  /\ new.pc = "idle" => new = IdleThread
  BY <1>1, <1>3, <1>4, <1>5 DEF ThreadStep, Stops
<1>6. ASSUME thread' = thread \/ thread' = [w \in Workers |-> IdleThread]
      PROVE  /\ thread' \in [Workers -> Threads]
             /\ \A w \in Workers : thread'[w].pc = "idle" => thread'[w] = IdleThread
  BY <1>0, <1>1, <1>6
<1>7. CASE Interrupts \/ Dies
  BY <1>6, <1>7 DEF Interrupts, Dies
<1>8. CASE \E w \in Workers : ThreadStep(w)
  BY <1>2, <1>5, <1>8
<1> QED
  BY <1>7, <1>8, ChatShapes

\* What a thread is about to do with its turn.
LEMMA PlacesStep ==
    ASSUME CInv, [CNext]_cvars, NEW w \in Workers, thread'[w].pc # "idle"
    PROVE  /\ thread'[w].pc \in {"begin", "reserve"} => thread'[w].gen = 0
           /\ thread'[w].pc \in WithEvidence => thread'[w].evidence # {}
           /\ thread'[w].pc = "succeed" => Turn(w)'.status \in Final
<1>0. /\ thread[w].pc \in {"begin", "reserve"} => thread[w].gen = 0
      /\ thread[w].pc \in WithEvidence => thread[w].evidence # {}
      /\ thread[w].pc = "succeed" => Turn(w).status \in Final
      /\ thread \in [Workers -> Threads]
  BY DEF CInv, CTypeOK, ThreadsInv, Threads
<1>1. ASSUME Works(w), thread'[w].job = thread[w].job, Turn(w).status \in Final
      PROVE  Turn(w)'.status \in Final
  BY <1>1, TurnStays DEF Went
<1>2. CASE Works(w) /\ thread'[w] = thread[w]
  BY <1>0, <1>1, <1>2
<1>3. CASE Works(w) /\ Goes(w)
  <2>1. PICK next \in Steps \ {"idle", "begin"}, found \in SUBSET Evidence :
           /\ thread' = [thread EXCEPT ![w].pc = next, ![w].evidence = found]
           /\ next = "reserve" => thread[w].gen = 0
           /\ next \in WithEvidence => found # {}
           /\ next = "succeed" => Turn(w).status \in Final
    BY <1>3 DEF Goes
  <2>2. /\ thread'[w].pc = next /\ thread'[w].evidence = found
        /\ thread'[w].gen = thread[w].gen /\ thread'[w].job = thread[w].job
    BY <1>0, <2>1
  <2> QED
    BY <1>1, <1>3, <2>1, <2>2
<1>4. CASE Works(w) /\ Begins(w)
  <2>1. thread'[w].pc = "retrieve"
    BY <1>0, <1>4 DEF Begins
  <2> QED
    BY <2>1 DEF WithEvidence
<1>5. CASE Works(w) /\ Advances(w)
  <2>1. PICK next \in Steps \ (Ending \cup {"idle", "begin", "reserve", "publish", "refuse"}) :
           /\ thread' = [thread EXCEPT ![w].pc = next]
           /\ next \in WithEvidence => thread[w].evidence # {}
    BY <1>5 DEF Advances
  <2>2. thread'[w].pc = next /\ thread'[w].evidence = thread[w].evidence
    BY <1>0, <2>1
  <2> QED
    BY <2>1, <2>2 DEF Ending
<1>6. CASE Works(w) /\ Closes(w)
  <2>1. PICK next \in {"succeed", "fail", "cancel"} :
          /\ thread' = [thread EXCEPT ![w].pc = next]
          /\ next = "succeed" =>
                \/ SetTurn(w, Finished(Turn(w), "completed", "complete", thread[w].evidence))
                \/ SetTurn(w, Finished(Turn(w), "refused", "complete", {}))
    BY <1>6 DEF Closes
  <2>2. thread'[w].pc = next /\ thread'[w].job = thread[w].job
    BY <1>0, <2>1
  <2>3. ASSUME next = "succeed" PROVE Turn(w)'.status \in Final
    <3>1. Question(thread[w].job) \in Questions /\ Turn(w) \in Turns
      BY <1>6, WorksOnQuestion
    <3>2. ASSUME SetTurn(w, Finished(Turn(w), "completed", "complete", thread[w].evidence))
          PROVE  turns'[Question(thread[w].job)].status \in Final
      BY <3>1, <3>2 DEF SetTurn, Finished, Turns, CInv, CTypeOK, Final
    <3>3. ASSUME SetTurn(w, Finished(Turn(w), "refused", "complete", {}))
          PROVE  turns'[Question(thread[w].job)].status \in Final
      BY <3>1, <3>3 DEF SetTurn, Finished, Turns, CInv, CTypeOK, Final
    <3>4. Turn(w)' = turns'[Question(thread[w].job)]
      BY <1>6, <2>2, TurnStays
    <3> QED
      BY <2>1, <2>3, <3>2, <3>3, <3>4
  <2>4. next \notin WithEvidence \cup {"begin", "reserve"}
    BY DEF WithEvidence
  <2> QED
    BY <2>2, <2>3, <2>4
<1>7. CASE Takes(w)
  <2>1. thread'[w].pc = "begin" /\ thread'[w].gen = 0
    BY <1>7, ThreadKeeps DEF Takes
  <2> QED
    BY <2>1 DEF WithEvidence
<1> QED
  BY <1>2, <1>3, <1>4, <1>5, <1>6, <1>7, ThreadsGo

\* Claims and tokens.
LEMMA ThreadsStep == ASSUME CInv, [CNext]_cvars PROVE ThreadsInv'
<1>1. ASSUME NEW w \in Workers, thread'[w].pc # "idle"
      PROVE  /\ thread'[w].job \in TaskIds /\ Exists(thread[w].job)'
             /\ thread'[w].claim \in 1..tasks'[thread'[w].job].claims
             /\ thread'[w].gen <= Turn(w)'.tokens
  <2>0. tasks' \in [TaskIds -> Row]
    BY StoreStep, Inductive, StepTypeOK DEF CInv, StoreInv, TypeOK
  <2>1. CASE Works(w) /\ thread'[w].job = thread[w].job /\ thread'[w].claim = thread[w].claim
    <3>1. /\ thread[w].job \in TaskIds /\ Exists(thread[w].job)
          /\ thread[w].claim \in 1..tasks[thread[w].job].claims
          /\ thread[w].gen <= Turn(w).tokens /\ thread[w].gen \in Nat
      BY <2>1 DEF CInv, ThreadsInv, CTypeOK
    <3>2. /\ tasks'[thread[w].job].claims >= tasks[thread[w].job].claims
          /\ tasks'[thread[w].job].status # "absent"
          /\ tasks'[thread[w].job].claims \in Nat /\ tasks[thread[w].job].claims \in Nat
      BY <2>0, <3>1, QuestionStays DEF Exists, CInv, StoreInv, TypeOK, Row
    <3>3. /\ Turn(w)'.tokens >= Turn(w).tokens
          /\ Turn(w)'.tokens \in Nat /\ Turn(w).tokens \in Nat
      BY <2>1, TurnStays DEF Went, Turns
    <3>4. ASSUME Begins(w) PROVE Turn(w)'.tokens = Turn(w).tokens + 1
      <4>1. PICK scope \in SUBSET Sources : SetTurn(w, Reserved(Turn(w), scope))
        BY <3>4 DEF Begins
      <4>2. turns'[Question(thread[w].job)].tokens = Turn(w).tokens + 1
        BY <2>1, <4>1, WorksOnQuestion DEF SetTurn, Reserved, Turns, CInv, CTypeOK
      <4> QED
        BY <2>1, <4>2, TurnStays
    <3>5. thread'[w].gen <= Turn(w)'.tokens
      <4>1. \/ thread'[w].gen = thread[w].gen
            \/ Begins(w) /\ thread'[w].gen = Turn(w).tokens + 1
        <5>1. Takes(w) => ~Works(w)
          BY DEF Takes
        <5>2. \/ thread'[w].gen = thread[w].gen
              \/ Begins(w) /\ thread'[w].gen = Turn(w).tokens + 1
              \/ Takes(w)
          BY <1>1, ThreadKeeps
        <5> QED
          BY <1>1, <2>1, <5>1, <5>2
      <4> QED
        BY <3>1, <3>3, <3>4, <4>1
    <3> QED
      BY <2>1, <3>1, <3>2, <3>5 DEF Exists
  <2>2. CASE Takes(w)
    <3>1. PICK t \in TaskIds : /\ ClaimTask(t) /\ thread'[w].job = t
                               /\ thread'[w].claim = tasks[t].claims + 1
      BY <1>1, <2>2, ThreadKeeps DEF Takes
    <3>2. tasks[t].status = "queued" /\ tasks[t] \in Row /\ tasks' = [tasks EXCEPT ![t] = Claimed(tasks[t])]
      BY <3>1 DEF ClaimTask, CInv, StoreInv, TypeOK
    <3>3. tasks'[t].claims = tasks[t].claims + 1 /\ tasks'[t].status = "running"
      BY <3>2 DEF Claimed, Row, CInv, StoreInv, TypeOK
    <3>4. thread'[w].gen = 0
      BY <1>1, <2>2, ThreadKeeps DEF Takes
    <3>5. Question(t) \in Questions /\ Question(t)' = Question(t)
      BY <3>2, QuestionKnown, QuestionStays DEF CInv, Exists
    <3>6. Turn(w)' = turns'[Question(t)]
      BY <3>1, <3>5 DEF Turn, Question
    <3>7. Turn(w)'.tokens \in Nat
      BY <3>5, <3>6, TurnsGo DEF Turns
    <3>8. tasks[t].claims \in Nat
      BY <3>2 DEF Row
    <3> QED
      BY <3>1, <3>3, <3>4, <3>7, <3>8 DEF Exists
  <2> QED
    BY <1>1, <2>1, <2>2, ThreadKeeps
<1>2. \A w \in Workers :
         /\ thread'[w].pc = "idle" => thread'[w] = IdleThread
         /\ IdleThread.pc = "idle" /\ "idle" \notin WithEvidence \cup {"begin", "reserve", "succeed"}
  BY ThreadsTyped DEF IdleThread, WithEvidence
<1> QED
  BY <1>1, <1>2, PlacesStep DEF ThreadsInv, Works

\* No claim is worked on twice, and no generation of a turn has two threads.
LEMMA PairsStep == ASSUME CInv, [CNext]_cvars PROVE PairsInv'
<1> DEFINE Keeps(u) == /\ Works(u)
                       /\ thread'[u].job = thread[u].job /\ thread'[u].claim = thread[u].claim
           Apart(v, w) ==
              /\ thread'[v].job = thread'[w].job => thread'[v].claim # thread'[w].claim
              /\ Question(thread[v].job)' = Question(thread[w].job)'
                   /\ thread'[v].gen = thread'[w].gen => thread'[w].gen = 0
<1>1. ASSUME NEW w \in Workers, Keeps(w)
      PROVE  /\ thread[w].job \in TaskIds /\ thread[w].claim <= tasks[thread[w].job].claims
             /\ thread[w].claim \in Nat /\ thread[w].gen \in Nat
             /\ Question(thread[w].job)' = Question(thread[w].job)
             /\ Turn(w) = turns[Question(thread[w].job)]
             /\ thread[w].gen <= Turn(w).tokens /\ Turn(w).tokens \in Nat
  <2>1. Question(thread[w].job)' = Question(thread[w].job)
    <3>1. Question(thread[w].job)' = tasks'[thread'[w].job].req.idem
      BY DEF Question
    <3>2. tasks'[thread[w].job].req.idem = tasks[thread[w].job].req.idem
      BY <1>1, WorksOnQuestion, QuestionStays DEF Question
    <3> QED
      BY <1>1, <3>1, <3>2 DEF Question
  <2> QED
    BY <1>1, <2>1, WorksOnQuestion DEF CInv, ThreadsInv, CTypeOK, Turn, Turns
<1>2. ASSUME NEW w \in Workers, Takes(w), thread'[w].pc # "idle"
      PROVE  /\ thread'[w].gen = 0 /\ ~Works(w)
             /\ thread'[w].claim = tasks[thread'[w].job].claims + 1
  <2>1. ~Works(w)
    BY <1>2 DEF Takes
  <2> QED
    BY <1>2, <2>1, ThreadKeeps
<1>3. ASSUME NEW v \in Workers, NEW w \in Workers, v # w,
             ThreadStep(v)
      PROVE  thread'[w] = thread[w]
  <2>1. thread \in [Workers -> Threads]
    BY DEF CInv, CTypeOK, Threads
  <2> QED
    BY <1>3, <2>1 DEF ThreadStep, Goes, Begins, Advances, Closes, Stops, Takes
<1>4. ASSUME NEW v \in Workers, NEW w \in Workers, v # w, Keeps(v), Keeps(w),
             thread'[v].pc # "idle", thread'[w].pc # "idle"
      PROVE  Apart(v, w)
  <2>1. /\ thread[v].job = thread[w].job => thread[v].claim # thread[w].claim
        /\ Question(thread[v].job) = Question(thread[w].job)
             /\ thread[v].gen = thread[w].gen => thread[w].gen = 0
    BY <1>4 DEF CInv, PairsInv
  <2>2. /\ thread'[v].gen = thread[v].gen \/ thread'[v].gen = Turn(v).tokens + 1
        /\ thread'[w].gen = thread[w].gen \/ thread'[w].gen = Turn(w).tokens + 1
        /\ thread'[v].gen = thread[v].gen \/ thread'[w].gen = thread[w].gen
    <3>1. /\ \/ thread'[v].gen = thread[v].gen
             \/ Begins(v) /\ thread'[v].gen = Turn(v).tokens + 1
          /\ \/ thread'[w].gen = thread[w].gen
             \/ Begins(w) /\ thread'[w].gen = Turn(w).tokens + 1
      <4>1. ASSUME NEW u \in Workers, Keeps(u), thread'[u].pc # "idle"
            PROVE  \/ thread'[u].gen = thread[u].gen
                   \/ Begins(u) /\ thread'[u].gen = Turn(u).tokens + 1
        <5>1. Works(u) /\ ~Takes(u)
          BY <4>1 DEF Takes
        <5> QED
          BY <4>1, <5>1, ThreadKeeps
      <4> QED
        BY <1>4, <4>1
    <3>2. Begins(v) => thread'[w] = thread[w]
      BY <1>3, <1>4 DEF ThreadStep
    <3> QED
      BY <3>1, <3>2
  <2>3. Question(thread[v].job) = Question(thread[w].job) => Turn(v) = Turn(w)
    BY DEF Turn
  <2> QED
    BY <1>1, <1>4, <2>1, <2>2, <2>3
<1>5. ASSUME NEW v \in Workers, NEW w \in Workers, v # w, Keeps(v), Takes(w),
             thread'[w].pc # "idle"
      PROVE  Apart(v, w) /\ Apart(w, v)
  <2>1. thread'[w].gen = 0 /\ thread'[w].claim = tasks[thread'[w].job].claims + 1
    BY <1>2, <1>5
  <2>2. /\ thread[v].claim <= tasks[thread[v].job].claims /\ thread[v].claim \in Nat
        /\ tasks[thread[v].job].claims \in Nat
    BY <1>1, <1>5 DEF CInv, StoreInv, TypeOK, Row
  <2> QED
    BY <1>5, <2>1, <2>2
<1>6. ASSUME NEW v \in Workers, NEW w \in Workers, v # w, Takes(v), Takes(w),
             thread'[w].pc # "idle"
      PROVE  FALSE
  <2>1. thread'[w] = thread[w] /\ ~Works(w)
    BY <1>3, <1>6 DEF ThreadStep, Takes
  <2> QED
    BY <1>6, <2>1 DEF Works
<1> SUFFICES ASSUME NEW v \in Workers, NEW w \in Workers, v # w, thread'[v].pc # "idle",
                    thread'[w].pc # "idle"
             PROVE  Apart(v, w)
  BY DEF PairsInv, Works
<1>7. (Keeps(v) \/ Takes(v)) /\ (Keeps(w) \/ Takes(w))
  BY ThreadKeeps
<1> HIDE DEF Keeps, Apart
<1> QED
  BY <1>4, <1>5, <1>6, <1>7

\* Who is not the thread of this step leaves the turn of another owner alone.
LEMMA OwnedStays ==
    ASSUME CInv, [CNext]_cvars, NEW w \in Workers, Works(w), thread'[w] = thread[w],
           Turn(w)'.status \in ActiveTurn, Turn(w)'.token = thread[w].gen
    PROVE  Owns(w) /\ (ThreadStep(w) \/ Turn(w)' = Turn(w))
<1>0. thread \in [Workers -> Threads] /\ turns \in [Questions -> Turns]
  BY DEF CInv, CTypeOK, Threads
<1>1. Owns(w)
  <2>1. /\ Went(Turn(w), Turn(w)') /\ thread[w].gen <= Turn(w).tokens
        /\ thread[w].gen \in Nat /\ Turn(w).tokens \in Nat /\ Turn(w)'.token \in Nat
    BY <1>0, TurnStays DEF CInv, ThreadsInv, Turns, Threads
  <2> QED
    BY <2>1 DEF Went, Owns, OwnsTurn
<1>2. /\ Turn(w) = turns[Question(thread[w].job)] /\ Question(thread[w].job) \in Questions
      /\ Turn(w)' = turns'[Question(thread[w].job)]
  BY TurnStays
<1>3. CASE turns' = turns
  BY <1>1, <1>2, <1>3
<1>4. CASE Interrupts
  <2>1. turns'[Question(thread[w].job)] \in {Turn(w), Interrupted(Turn(w))}
    BY <1>2, <1>4 DEF Interrupts
  <2>2. Interrupted(Turn(w)).status \notin ActiveTurn
    BY <1>2, <1>0 DEF Interrupted, ActiveTurn, Turns
  <2> QED
    BY <1>1, <1>2, <2>1, <2>2
<1>5. ASSUME NEW v \in Workers, ThreadStep(v), Works(v), v # w,
             Question(thread[v].job) = Question(thread[w].job)
      PROVE  Turn(w)' = Turn(w)
  <2>1. ~OwnsTurn(v, ActiveTurn)
    <3>1. OwnsTurn(v, ActiveTurn) => thread[v].gen = thread[w].gen
      BY <1>1, <1>5 DEF Owns, OwnsTurn, Turn
    <3>2. thread[w].gen # 0
      BY <1>1, NoTokenNoTurn
    <3> QED
      BY <1>5, <3>1, <3>2 DEF CInv, PairsInv
  <2>2. ~Advances(v) /\ ~Closes(v)
    BY <2>1 DEF Advances, Closes
  <2>3. ~Begins(v)
    <3>1. Turn(v).status \in ActiveTurn
      BY <1>1, <1>5 DEF Owns, OwnsTurn, Turn
    <3> QED
      BY <3>1 DEF Begins, ActiveTurn
  <2>4. turns' = turns
    BY <1>5, <2>2, <2>3 DEF ThreadStep, Goes, Stops, Takes
  <2> QED
    BY <1>2, <2>4
<1>6. ASSUME NEW v \in Workers, ThreadStep(v),
             ~(Works(v) /\ Question(thread[v].job) = Question(thread[w].job))
      PROVE  Turn(w)' = Turn(w)
  BY <1>2, <1>6, OtherTurnsStay
<1> QED
  BY <1>1, <1>3, <1>4, <1>5, <1>6, ChatShapes DEF Dies

\* An owner finds its turn as it left it, and its claim held when it writes.
LEMMA OwnersStep == ASSUME CInv, [CNext]_cvars PROVE OwnersInv'
<1>0. thread \in [Workers -> Threads] /\ turns \in [Questions -> Turns]
  BY DEF CInv, CTypeOK, Threads
<1> SUFFICES ASSUME NEW w \in Workers, thread'[w].pc # "idle", Turn(w)'.status \in ActiveTurn,
                    Turn(w)'.token = thread'[w].gen
             PROVE  /\ InPlace(thread'[w].pc, Turn(w)'.status)
                    /\ thread'[w].pc \in {"publish", "refuse"} /\ mode' # "recovering" =>
                          /\ tasks'[thread'[w].job].status \in {"running", "canceling"}
                          /\ tasks'[thread'[w].job].claim = thread'[w].claim
  BY DEF OwnersInv, Owns, OwnsTurn, Works, Held, ClaimHeld, InPlace
<1>1. ASSUME Works(w), thread'[w] = thread[w], Turn(w)' = Turn(w)
      PROVE  /\ InPlace(thread'[w].pc, Turn(w)'.status)
             /\ thread'[w].pc \in {"publish", "refuse"} /\ mode' # "recovering" =>
                   /\ tasks'[thread'[w].job].status \in {"running", "canceling"}
                   /\ tasks'[thread'[w].job].claim = thread'[w].claim
  <2>1. Owns(w)
    BY <1>1, OwnedStays
  <2>2. /\ InPlace(thread[w].pc, Turn(w).status)
        /\ thread[w].pc \in {"publish", "refuse"} /\ mode # "recovering" =>
              Held(w, {"running", "canceling"})
    BY <2>1 DEF CInv, OwnersInv
  <2>3. ASSUME thread[w].pc \in {"publish", "refuse"}, mode' # "recovering"
        PROVE  /\ tasks'[thread[w].job].status \in {"running", "canceling"}
               /\ tasks'[thread[w].job].claim = thread[w].claim
    <3>1. mode # "recovering"
      <4>1. ~Dies
        BY <1>1, <1>0 DEF Dies, IdleThread, Works
      <4>2. turns' # [k \in Questions |-> Interrupted(turns[k])]
        <5>1. Question(thread[w].job) \in Questions /\ Turn(w)' = turns'[Question(thread[w].job)]
          BY <1>1, TurnStays
        <5>2. Interrupted(turns[Question(thread[w].job)]).status \notin ActiveTurn
          BY <1>0, <5>1 DEF Interrupted, ActiveTurn, Turns
        <5> QED
          BY <5>1, <5>2
      <4> QED
        BY <2>3, <4>1, <4>2, ModeSteps
    <3>2. ~Stops(w)
      BY <1>0, <1>1 DEF Stops, IdleThread, Works
    <3> QED
      BY <1>1, <2>2, <2>3, <3>1, <3>2, HeldStays
  <2> QED
    BY <1>1, <2>2, <2>3
<1>2. CASE Works(w) /\ Goes(w)
  <2>1. PICK next \in Steps \ {"idle", "begin"}, found \in SUBSET Evidence :
           /\ thread' = [thread EXCEPT ![w].pc = next, ![w].evidence = found]
           /\ Owns(w) => InPlace(next, Turn(w).status)
           /\ next \in {"publish", "refuse"} => Held(w, {"running"}) /\ UNCHANGED storeVars
    BY <1>2 DEF Goes
  <2>2. /\ thread'[w].pc = next /\ thread'[w].gen = thread[w].gen
        /\ thread'[w].job = thread[w].job /\ thread'[w].claim = thread[w].claim
    BY <1>0, <2>1
  <2>3. Turn(w)' = Turn(w)
    BY <1>2, <2>2, TurnStays DEF Goes
  <2>4. Owns(w)
    BY <1>2, <2>2, <2>3 DEF Owns, OwnsTurn
  <2>5. ASSUME next \in {"publish", "refuse"}
        PROVE  tasks'[thread[w].job].status = "running" /\ tasks'[thread[w].job].claim = thread[w].claim
    BY <2>1, <2>5 DEF Held, ClaimHeld, storeVars
  <2> QED
    BY <2>1, <2>2, <2>3, <2>4, <2>5
<1>3. CASE Works(w) /\ Begins(w)
  <2>1. PICK scope \in SUBSET Sources : SetTurn(w, Reserved(Turn(w), scope))
    BY <1>3 DEF Begins
  <2>2. thread'[w].pc = "retrieve" /\ thread'[w].job = thread[w].job
    BY <1>0, <1>3 DEF Begins
  <2>3. Question(thread[w].job) \in Questions /\ Turn(w) \in Turns
    BY <1>3, WorksOnQuestion
  <2>4. turns'[Question(thread[w].job)].status = "pending"
    BY <1>0, <2>1, <2>3 DEF SetTurn, Reserved, Turns
  <2>5. Turn(w)'.status = "pending"
    BY <1>3, <2>2, <2>4, TurnStays
  <2> QED
    BY <2>2, <2>5 DEF InPlace
<1>4. CASE Works(w) /\ Advances(w)
  <2>1. PICK to \in ActiveTurn,
             next \in Steps \ (Ending \cup {"idle", "begin", "reserve", "publish", "refuse"}) :
          /\ SetTurn(w, [Turn(w) EXCEPT !.status = to])
          /\ thread' = [thread EXCEPT ![w].pc = next]
          /\ InPlace(next, to)
    BY <1>4 DEF Advances
  <2>2. thread'[w].pc = next /\ thread'[w].job = thread[w].job
    BY <1>0, <2>1
  <2>3. Question(thread[w].job) \in Questions /\ Turn(w) \in Turns
    BY <1>4, WorksOnQuestion
  <2>4. turns'[Question(thread[w].job)].status = to
    BY <1>0, <2>1, <2>3 DEF SetTurn, Turns
  <2>5. Turn(w)'.status = to
    BY <1>4, <2>2, <2>4, TurnStays
  <2> QED
    BY <2>1, <2>2, <2>5
<1>5. CASE Works(w) /\ Closes(w)
  <2>1. PICK next : thread' = [thread EXCEPT ![w].pc = next]
    BY <1>5 DEF Closes
  <2>2. thread'[w].job = thread[w].job
    BY <1>0, <2>1
  <2>3. Question(thread[w].job) \in Questions /\ Turn(w) \in Turns
    BY <1>5, WorksOnQuestion
  <2>4. \/ SetTurn(w, Finished(Turn(w), "completed", "complete", thread[w].evidence))
        \/ SetTurn(w, Finished(Turn(w), "refused", "complete", {}))
        \/ SetTurn(w, Finished(Turn(w), "failed", "failed", {}))
    BY <1>5 DEF Closes
  <2>5. turns'[Question(thread[w].job)].status \notin ActiveTurn
    <3>1. ASSUME NEW status \in {"completed", "refused", "failed"}, NEW message, NEW cited,
                 SetTurn(w, Finished(Turn(w), status, message, cited))
          PROVE  turns'[Question(thread[w].job)].status \notin ActiveTurn
      BY <1>0, <2>3, <3>1 DEF SetTurn, Finished, Turns, ActiveTurn
    <3> QED
      BY <2>4, <3>1
  <2> QED
    BY <1>5, <2>2, <2>5, TurnStays
<1>6. CASE Takes(w)
  <2>1. thread'[w].gen = 0 /\ thread'[w].pc = "begin"
    <3>1. ~Works(w)
      BY <1>6 DEF Takes
    <3> QED
      BY <3>1, ThreadKeeps
  <2> QED
    BY <2>1 DEF InPlace
<1>7. CASE Works(w) /\ thread'[w] = thread[w]
  <2>1. ThreadStep(w) \/ Turn(w)' = Turn(w)
    BY <1>7, OwnedStays
  <2>2. ~Stops(w)
    BY <1>0, <1>7 DEF Stops, IdleThread, Works
  <2> QED
    BY <1>1, <1>2, <1>3, <1>4, <1>5, <1>6, <1>7, <2>1, <2>2 DEF ThreadStep
<1> QED
  BY <1>2, <1>3, <1>4, <1>5, <1>6, <1>7, ThreadsGo

----------------------------------------------------------------------------
(***************************************************************************)
(* Tasks that succeed, turns that are lost.                                *)
(***************************************************************************)

\* A task succeeds through the end of a thread only.
LEMMA SucceedsBy ==
    ASSUME CInv, [CNext]_cvars, NEW t \in TaskIds, tasks'[t].status = "succeeded"
    PROVE  \/ tasks[t].status = "succeeded"
           \/ \E w \in Workers : Succeed(w) /\ thread[w].job = t
<1>0. tasks \in [TaskIds -> Row] /\ tasks[t] \in Row
  BY DEF CInv, StoreInv, TypeOK
<1>1. ASSUME NEW u \in TaskIds, NEW new, tasks' = [tasks EXCEPT ![u] = new],
             new.status # "succeeded"
      PROVE  tasks[t].status = "succeeded"
  BY <1>0, <1>1
<1>2. ASSUME UNCHANGED tasks
      PROVE  tasks[t].status = "succeeded"
  BY <1>2
<1>3. ASSUME NEW r \in Row, NEW n, NEW b
      PROVE  /\ Claimed(r).status # "succeeded" /\ CanceledInQueue(r).status # "succeeded"
             /\ CancelAsked(r).status # "succeeded" /\ Failed(r, b).status # "succeeded"
             /\ Canceled(r).status # "succeeded" /\ Retried(r, n).status # "succeeded"
  BY DEF Row, Claimed, CanceledInQueue, CancelAsked, Failed, Canceled, Retried
<1>4. ASSUME NEW u \in TaskIds, NEW req \in Requests, Ask(u, req)
      PROVE  tasks[t].status = "succeeded"
  BY <1>1, <1>4 DEF Ask, CreateTask, Created, NoRow
<1>5. ASSUME NEW u \in TaskIds, Retry(u) \/ AskCancel(u) \/ \E v \in Workers : Claim(v, u)
      PROVE  tasks[t].status = "succeeded"
  <2>1. tasks[u] \in Row
    BY <1>0
  <2>2. \/ tasks' = [tasks EXCEPT ![u] = Retried(tasks[u], clock + 1)]
        \/ tasks' = [tasks EXCEPT ![u] = CanceledInQueue(tasks[u])]
        \/ tasks' = [tasks EXCEPT ![u] = CancelAsked(tasks[u])]
        \/ tasks' = [tasks EXCEPT ![u] = Claimed(tasks[u])]
    BY <1>5 DEF Retry, AskCancel, Claim, RetryTask, RequestTaskCancel, CancelQueued,
                CancelRunning, ClaimTask
  <2> QED
    BY <1>1, <1>3, <2>1, <2>2
<1>6. ASSUME NEW v \in Workers, Fail(v) \/ Cancel(v)
      PROVE  tasks[t].status = "succeeded"
  <2>1. Works(v)
    BY <1>6 DEF Fail, Cancel, Works
  <2>2. thread[v].job \in TaskIds /\ tasks[thread[v].job] \in Row
    BY <1>0, <2>1, WorksOnQuestion
  <2>3. \/ UNCHANGED tasks
        \/ \E b : tasks' = [tasks EXCEPT ![thread[v].job] = Failed(tasks[thread[v].job], b)]
        \/ tasks' = [tasks EXCEPT ![thread[v].job] = Canceled(tasks[thread[v].job])]
    BY <1>6 DEF Fail, Cancel, FailTask, MarkTaskCanceled, storeVars
  <2> QED
    BY <1>1, <1>2, <1>3, <2>2, <2>3
<1>7. ASSUME NEW v \in Workers, Succeed(v)
      PROVE  tasks[t].status = "succeeded" \/ thread[v].job = t
  <2>1. \/ UNCHANGED tasks
        \/ \E new : tasks' = [tasks EXCEPT ![thread[v].job] = new]
    BY <1>7 DEF Succeed, SucceedTask, storeVars
  <2> QED
    BY <1>0, <2>1
<1>8. ASSUME NEW v \in Workers, WorkerStep(v)
      PROVE  \/ tasks[t].status = "succeeded"
             \/ \E w \in Workers : Succeed(w) /\ thread[w].job = t
  <2>1. Succeed(v) \/ Fail(v) \/ Cancel(v) \/ UNCHANGED tasks
    BY <1>8 DEF WorkerStep, Checkpoint, Reserve, Retrieve, Search, Generate, Model, Refuse,
                Validate, Publish, FailTurn, Transition, storeVars
  <2> QED
    BY <1>2, <1>6, <1>7, <2>1
<1>9. ASSUME \/ \E c \in Resources, S \in SUBSET Sources : SelectSources(c, S)
             \/ \E s \in Sources : EditSource(s) \/ ToggleSource(s)
             \/ \E v \in Workers : StaleDies(v) \/ Fault(v)
             \/ \E c \in Resources :
                   CheckConversation(c) \/ TrashConversation(c) \/ RestoreConversation(c)
             \/ LeaveConversation
             \/ StartTurns \/ Exit \/ Crash \/ UNCHANGED cvars
      PROVE  tasks[t].status = "succeeded"
  <2>1. UNCHANGED tasks
    BY <1>9 DEF SelectSources, EditSource, ToggleSource, StaleDies, Fault, StartTurns, Exit,
                CheckConversation, TrashConversation, RestoreConversation, LeaveConversation,
                RequireNoActiveTasks, TrashResource, RestoreResource, AbandonDeletion,
                Crash, cvars, storeVars
  <2> QED
    BY <1>2, <2>1
<1>10. ASSUME StartTasks
       PROVE  tasks[t].status = "succeeded"
  BY <1>0, <1>10 DEF StartTasks, RecoverInterruptedTasks, Recovered, Row
<1> QED
  BY <1>4, <1>5, <1>8, <1>9, <1>10 DEF CNext

LEMMA SucceededStep == ASSUME CInv, [CNext]_cvars PROVE SucceededIsAnswered'
<1> SUFFICES ASSUME NEW t \in TaskIds, tasks'[t].status = "succeeded"
             PROVE  turns'[Question(t)'].status \in Final
  BY DEF SucceededIsAnswered, Final, Question
<1>1. ASSUME NEW k \in Questions, turns[k].status \in Final
      PROVE  turns'[k].status \in Final
  BY <1>1, TurnsGo DEF Went
<1>2. Exists(t) /\ turns[Question(t)].status \in Final
  <2>1. CASE tasks[t].status = "succeeded"
    BY <2>1 DEF CInv, SucceededIsAnswered, Exists, Final
  <2>2. ASSUME NEW w \in Workers, Succeed(w), thread[w].job = t
        PROVE  Exists(t) /\ turns[Question(t)].status \in Final
    <3>1. thread[w].pc = "succeed" /\ Works(w)
      BY <2>2 DEF Succeed, Works
    <3> QED
      BY <2>2, <3>1 DEF CInv, ThreadsInv, Turn
  <2> QED
    BY <2>1, <2>2, SucceedsBy
<1> QED
  BY <1>1, <1>2, QuestionKnown, QuestionStays DEF CInv

\* A step that does not fail loses no turn, one that does loses at most its own.
LEMMA Loses ==
    ASSUME CInv, [CNext]_cvars, ~Dies, NEW k \in Questions, k \in Lost', k \notin Lost
    PROVE  \E w \in Workers : /\ ThreadStep(w) /\ Question(thread[w].job) = k
                              /\ thread'[w] # thread[w] /\ faults' = faults + 1
<1>0. thread \in [Workers -> Threads] /\ turns \in [Questions -> Turns]
  BY DEF CInv, CTypeOK, Threads
<1>1. /\ turns'[k].status \in ActiveTurn
      /\ ~\E w \in Workers : /\ thread'[w].pc \notin Ending \cup {"idle"}
                             /\ Question(thread[w].job)' = k
                             /\ thread'[w].gen = turns'[k].token
  BY DEF Lost, Cares, Question
<1>2. turns[k].status \in ActiveTurn
  <2> SUFFICES ASSUME turns[k].status \notin ActiveTurn PROVE FALSE
    OBVIOUS
  <2>1. PICK w \in Workers : Works(w) /\ Begins(w) /\ Question(thread[w].job) = k
    BY <1>1, Activated
  <2>2. /\ thread'[w].pc = "retrieve" /\ thread'[w].job = thread[w].job
        /\ thread'[w].gen = Turn(w).tokens + 1
    BY <1>0, <2>1 DEF Begins
  <2>3. PICK scope \in SUBSET Sources : SetTurn(w, Reserved(Turn(w), scope))
    BY <2>1 DEF Begins
  <2>4. Turn(w) = turns[k] /\ Turn(w) \in Turns
    BY <2>1, WorksOnQuestion DEF Turn
  <2>5. turns'[k].token = Turn(w).tokens + 1
    BY <1>0, <2>1, <2>3, <2>4 DEF SetTurn, Reserved, Turns
  <2>6. Question(thread[w].job)' = k
    <3>1. tasks'[thread[w].job].req.idem = tasks[thread[w].job].req.idem
      BY <2>1, WorksOnQuestion, QuestionStays DEF Question
    <3> QED
      BY <2>1, <2>2, <3>1 DEF Question
  <2>7. "retrieve" \notin Ending \cup {"idle"}
    BY DEF Ending
  <2> QED
    BY <1>1, <2>2, <2>5, <2>6, <2>7
<1>3. turns'[k].token = turns[k].token
  BY <1>1, <1>2, TurnsGo DEF Went
<1>4. PICK w \in Workers : /\ Cares(w) /\ Question(thread[w].job) = k
                           /\ thread[w].gen = turns[k].token
  BY <1>2 DEF Lost
<1>5. Works(w) /\ Owns(w) /\ thread[w].pc \notin Ending /\ OwnsTurn(w, ActiveTurn)
  BY <1>2, <1>4 DEF Cares, Works, Owns, OwnsTurn, Turn
<1>6. ASSUME thread'[w].job = thread[w].job
      PROVE  Question(thread[w].job)' = k
  <2>1. tasks'[thread[w].job].req.idem = tasks[thread[w].job].req.idem
    BY <1>5, WorksOnQuestion, QuestionStays DEF Question
  <2> QED
    BY <1>4, <1>6, <2>1 DEF Question
<1>7. ~(thread'[w].job = thread[w].job /\ thread'[w].gen = thread[w].gen
        /\ thread'[w].pc \notin Ending \cup {"idle"})
  BY <1>1, <1>3, <1>4, <1>6
<1>8. thread'[w] # thread[w]
  BY <1>4, <1>7 DEF Cares
<1>9. ThreadStep(w)
  <2>1. ASSUME NEW v \in Workers, ThreadStep(v), v # w
        PROVE  thread'[w] = thread[w]
    BY <1>0, <2>1 DEF ThreadStep, Goes, Begins, Advances, Closes, Stops, Takes
  <2> QED
    BY <1>8, <2>1, ChatShapes DEF Interrupts
<1>10. CASE Goes(w)
  <2>1. PICK next \in Steps \ {"idle", "begin"}, found \in SUBSET Evidence :
           /\ thread' = [thread EXCEPT ![w].pc = next, ![w].evidence = found]
           /\ next \in Ending /\ Owns(w) => thread[w].pc \in Ending \/ faults' = faults + 1
    BY <1>10 DEF Goes
  <2>2. /\ thread'[w].pc = next /\ thread'[w].gen = thread[w].gen
        /\ thread'[w].job = thread[w].job
    BY <1>0, <2>1
  <2> QED
    BY <1>4, <1>5, <1>7, <1>8, <1>9, <2>1, <2>2
<1>11. CASE Begins(w)
  BY <1>2, <1>4, <1>11 DEF Begins, Turn, ActiveTurn
<1>12. CASE Advances(w)
  <2>1. PICK next \in Steps \ (Ending \cup {"idle", "begin", "reserve", "publish", "refuse"}) :
           thread' = [thread EXCEPT ![w].pc = next]
    BY <1>12 DEF Advances
  <2>2. /\ thread'[w].pc = next /\ thread'[w].gen = thread[w].gen
        /\ thread'[w].job = thread[w].job
    BY <1>0, <2>1
  <2> QED
    BY <1>7, <2>1, <2>2
<1>13. CASE Closes(w)
  <2>1. \/ SetTurn(w, Finished(Turn(w), "completed", "complete", thread[w].evidence))
        \/ SetTurn(w, Finished(Turn(w), "refused", "complete", {}))
        \/ SetTurn(w, Finished(Turn(w), "failed", "failed", {}))
    BY <1>13 DEF Closes
  <2>2. Question(thread[w].job) \in Questions /\ Turn(w) \in Turns
    BY <1>5, WorksOnQuestion
  <2>3. ASSUME NEW status \in {"completed", "refused", "failed"}, NEW message, NEW cited,
               SetTurn(w, Finished(Turn(w), status, message, cited))
        PROVE  turns'[Question(thread[w].job)].status \notin ActiveTurn
    BY <1>0, <2>2, <2>3 DEF SetTurn, Finished, Turns, ActiveTurn
  <2> QED
    BY <1>1, <1>4, <2>1, <2>3
<1>14. CASE Stops(w)
  BY <1>4, <1>5, <1>8, <1>9, <1>14 DEF Stops
<1> QED
  BY <1>5, <1>9, <1>10, <1>11, <1>12, <1>13, <1>14 DEF ThreadStep, Takes

LEMMA LostStep == ASSUME CInv, [CNext]_cvars PROVE LostInv'
<1> SUFFICES ASSUME mode' = "open"
             PROVE  IsFiniteSet(Lost') /\ Cardinality(Lost') <= faults'
  BY DEF LostInv
<1>0. ~Dies
  BY DEF Dies
<1>3. faults \in Nat /\ faults' \in Nat /\ faults' >= faults
  <2>1. faults \in Nat
    BY ChatAssumption DEF CInv, CTypeOK
  <2> QED
    BY <2>1, ModeSteps
<1>1. CASE turns' = [k \in Questions |-> Interrupted(turns[k])]
  <2>1. \A k \in Questions : turns'[k].status \notin ActiveTurn
    BY <1>1, ZenonT(60) DEF Interrupted, ActiveTurn, CInv, CTypeOK, Turns
  <2>2. Lost' = {}
    BY <2>1 DEF Lost
  <2> QED
    BY <1>3, <2>2, FS_EmptySet
<1>2. CASE mode = "open"
  <2>1. IsFiniteSet(Lost) /\ Cardinality(Lost) <= faults /\ Cardinality(Lost) \in Nat
    BY <1>2, FS_CardinalityType DEF CInv, LostInv
  <2>2. CASE Lost' \subseteq Lost
    <3>1. IsFiniteSet(Lost') /\ Cardinality(Lost') <= Cardinality(Lost)
      BY <2>1, <2>2, FS_Subset
    <3> QED
      BY <1>3, <2>1, <3>1, FS_CardinalityType
  <2>3. CASE ~(Lost' \subseteq Lost)
    <3>1. PICK k \in Questions : k \in Lost' /\ k \notin Lost
      BY <2>3 DEF Lost
    <3>2. PICK w \in Workers : /\ ThreadStep(w) /\ Question(thread[w].job) = k
                               /\ faults' = faults + 1
      BY <1>0, <3>1, Loses
    <3>3. ASSUME NEW q \in Lost', q \notin Lost
          PROVE  q = k
      <4>1. q \in Questions
        BY DEF Lost
      <4>2. PICK v \in Workers : /\ Question(thread[v].job) = q /\ thread'[v] # thread[v]
        BY <1>0, <3>3, <4>1, Loses
      <4>3. v # w => thread'[v] = thread[v]
        BY <3>2 DEF ThreadStep, Goes, Begins, Advances, Closes, Stops, Takes, CInv, CTypeOK
      <4> QED
        BY <3>2, <4>2, <4>3
    <3>4. Lost' \subseteq Lost \cup {k}
      BY <3>3
    <3>5. /\ IsFiniteSet(Lost \cup {k})
          /\ Cardinality(Lost \cup {k}) = Cardinality(Lost) + 1
      BY <2>1, <3>1, FS_AddElement
    <3>6. IsFiniteSet(Lost') /\ Cardinality(Lost') <= Cardinality(Lost) + 1
      BY <3>4, <3>5, FS_Subset
    <3> QED
      BY <1>3, <2>1, <3>2, <3>6, FS_CardinalityType
  <2> QED
    BY <2>2, <2>3
<1> QED
  BY <1>0, <1>1, <1>2, ModeSteps

----------------------------------------------------------------------------
(***************************************************************************)
(* The invariant.                                                          *)
(***************************************************************************)

\* Sources, selections and the bounds.
SettingsOK ==
    /\ selected \in [Resources -> SUBSET Sources]
    /\ source \in [Sources -> [version : 1..MaxEdits + 1, enabled : BOOLEAN]]
    /\ mode \in {"down", "recovering", "open"}
    /\ stale \subseteq Workers
    /\ starts \in 0..MaxStarts /\ faults \in 0..MaxFaults /\ edits \in 0..MaxEdits
    /\ VersionsInv

settings == <<selected, source, mode, stale, starts, faults, edits>>

\* A thread changes the selection of a conversation, and nothing else of these.
LEMMA WorkerSettings ==
    ASSUME CInv, SettingsOK, NEW w \in Workers, WorkerStep(w)
    PROVE  SettingsOK'
<1>1. ASSUME UNCHANGED settings PROVE SettingsOK'
  BY <1>1 DEF SettingsOK, settings, VersionsInv
<1>2. ASSUME Leave(w) PROVE SettingsOK'
  <2>1. stale' \subseteq Workers /\ UNCHANGED <<selected, source, mode, starts, faults, edits>>
    BY <1>2 DEF Leave, SettingsOK
  <2> QED
    BY <2>1 DEF SettingsOK, VersionsInv
<1>3. ASSUME ReserveNew(w), thread[w].pc = "reserve" PROVE SettingsOK'
  <2> DEFINE k == Question(thread[w].job)
             scope == IF ScopeOf[k] = NoKey THEN selected[Conversation(k)] ELSE ScopeOf[k]
  <2>1. Works(w)
    BY <1>3 DEF Works
  <2>2. k \in Questions /\ Conversation(k) \in Resources
    BY <2>1, WorksOnQuestion, ConversationKnown
  <2>3. scope \in SUBSET Sources
    BY <2>2, ChatAssumption DEF SettingsOK
  <2>4. \/ UNCHANGED settings
        \/ /\ selected' = [selected EXCEPT ![Conversation(k)] = scope]
           /\ UNCHANGED <<source, mode, stale, starts, faults, edits>>
    BY <1>3 DEF ReserveNew, Goto, settings
  <2>5. ASSUME selected' = [selected EXCEPT ![Conversation(k)] = scope],
               UNCHANGED <<source, mode, stale, starts, faults, edits>>
        PROVE  SettingsOK'
    <3>1. selected' \in [Resources -> SUBSET Sources]
      BY <2>2, <2>3, <2>5 DEF SettingsOK
    <3> QED
      BY <2>5, <3>1 DEF SettingsOK, VersionsInv
  <2> QED
    BY <1>1, <2>4, <2>5
<1>4. \/ UNCHANGED settings
      \/ Leave(w)
      \/ ReserveNew(w) /\ thread[w].pc = "reserve"
  BY DEF WorkerStep, Checkpoint, Reserve, ReserveReplay, ReserveRetry, Retrieve,
         Search, Generate, Model, Refuse, Validate, Publish, FailTurn, Transition,
         Succeed, Fail, Cancel, Goto, settings
<1> QED
  BY <1>1, <1>2, <1>3, <1>4

LEMMA SettingsStep ==
    ASSUME CInv, SettingsOK, [CNext]_cvars
    PROVE  SettingsOK'
<1>0. MaxEdits \in Nat /\ MaxFaults \in Nat /\ MaxStarts \in Nat
  BY ChatAssumption
<1>1. ASSUME UNCHANGED settings PROVE SettingsOK'
  BY <1>1 DEF SettingsOK, settings, VersionsInv
<1>2. ASSUME \/ \E t \in TaskIds, req \in Requests : Ask(t, req)
             \/ \E t \in TaskIds : Retry(t) \/ AskCancel(t) \/ \E w \in Workers : Claim(w, t)
             \/ \E c \in Resources : CheckConversation(c) \/ RestoreConversation(c)
             \/ LeaveConversation \/ UNCHANGED cvars
      PROVE  SettingsOK'
  <2>1. UNCHANGED settings
    BY <1>2 DEF Ask, Retry, AskCancel, Claim, CheckConversation, RestoreConversation,
                LeaveConversation, cvars, chatVars, settings
  <2> QED
    BY <1>1, <2>1
<1>3. ASSUME NEW c \in Resources, NEW S \in SUBSET Sources, SelectSources(c, S)
      PROVE  SettingsOK'
  <2>1. selected' \in [Resources -> SUBSET Sources]
    BY <1>3 DEF SelectSources, SettingsOK
  <2>2. edits' \in 0..MaxEdits /\ edits' >= edits /\ edits \in Nat /\ edits' \in Nat
    BY <1>0, <1>3 DEF SelectSources, Edit, SettingsOK
  <2>3. UNCHANGED <<source, mode, stale, starts, faults>>
    BY <1>3 DEF SelectSources
  <2>4. \A s \in Sources : source'[s].version <= edits' + 1
    BY <2>2, <2>3 DEF SettingsOK, VersionsInv
  <2> QED
    BY <2>1, <2>2, <2>3, <2>4 DEF SettingsOK, VersionsInv
<1>4. ASSUME NEW s \in Sources, EditSource(s) \/ ToggleSource(s)
      PROVE  SettingsOK'
  <2>1. edits' = edits + 1 /\ edits < MaxEdits /\ edits \in Nat
    BY <1>0, <1>4 DEF EditSource, ToggleSource, Edit, SettingsOK
  <2>2. UNCHANGED <<selected, mode, stale, starts, faults>>
    BY <1>4 DEF EditSource, ToggleSource
  <2>3. \A r \in Sources : source[r].version \in 1..MaxEdits + 1 /\ source[r].version <= edits + 1
    BY DEF SettingsOK, VersionsInv
  <2>4. /\ source' \in [Sources -> [version : 1..MaxEdits + 1, enabled : BOOLEAN]]
        /\ \A r \in Sources : source'[r].version <= edits' + 1
    <3>1. CASE EditSource(s)
      <4>1. source' = [source EXCEPT ![s].version = source[s].version + 1]
        BY <3>1 DEF EditSource, SettingsOK
      <4>2. PICK n \in 1..MaxEdits + 1 : n = source[s].version + 1 /\ n <= edits' + 1
        BY <1>0, <2>1, <2>3
      <4>3. source' = [source EXCEPT ![s] = [source[s] EXCEPT !.version = n]]
        BY <4>1, <4>2 DEF SettingsOK
      <4>4. [source[s] EXCEPT !.version = n] \in [version : 1..MaxEdits + 1, enabled : BOOLEAN]
        BY DEF SettingsOK
      <4>5. \A r \in Sources : r # s => source'[r] = source[r]
        BY <4>3 DEF SettingsOK
      <4>6. source'[s].version = n
        BY <4>3, <4>4 DEF SettingsOK
      <4>7. \A r \in Sources : source'[r].version <= edits' + 1
        BY <1>0, <2>1, <2>3, <4>2, <4>5, <4>6
      <4> QED
        BY <4>3, <4>4, <4>7 DEF SettingsOK
    <3>2. CASE ToggleSource(s)
      <4>1. PICK b \in BOOLEAN : source' = [source EXCEPT ![s].enabled = b]
        BY <3>2 DEF ToggleSource, SettingsOK
      <4>2. source' \in [Sources -> [version : 1..MaxEdits + 1, enabled : BOOLEAN]]
        BY <4>1 DEF SettingsOK
      <4>3. \A r \in Sources : source'[r].version = source[r].version
        BY <4>1 DEF SettingsOK
      <4>4. \A r \in Sources : source'[r].version <= edits' + 1
        BY <1>0, <2>1, <2>3, <4>3
      <4> QED
        BY <4>2, <4>4
    <3> QED
      BY <1>4, <3>1, <3>2
  <2>5. edits' \in 0..MaxEdits
    BY <1>0, <2>1
  <2> QED
    BY <2>2, <2>4, <2>5 DEF SettingsOK, VersionsInv
<1>5. ASSUME NEW c \in Resources, TrashConversation(c)
      PROVE  SettingsOK'
  <2>1. edits' \in 0..MaxEdits /\ edits' >= edits /\ edits \in Nat /\ edits' \in Nat
    BY <1>0, <1>5 DEF TrashConversation, Edit, SettingsOK
  <2>2. UNCHANGED <<selected, source, mode, stale, starts, faults>>
    BY <1>5 DEF TrashConversation
  <2>3. \A s \in Sources : source'[s].version <= edits' + 1
    BY <2>1, <2>2 DEF SettingsOK, VersionsInv
  <2> QED
    BY <2>1, <2>2, <2>3 DEF SettingsOK, VersionsInv
<1>6. ASSUME NEW w \in Workers, StaleDies(w) \/ Fault(w)
      PROVE  SettingsOK'
  <2>1. faults' \in 0..MaxFaults
    BY <1>0, <1>6 DEF StaleDies, Fault, SettingsOK
  <2>2. stale' \subseteq Workers /\ UNCHANGED <<selected, source, mode, starts, edits>>
    BY <1>6 DEF StaleDies, Fault, SettingsOK
  <2> QED
    BY <2>1, <2>2 DEF SettingsOK, VersionsInv
<1>7. ASSUME StartTasks \/ StartTurns \/ Exit \/ Crash
      PROVE  SettingsOK'
  <2>1. mode' \in {"down", "recovering", "open"} /\ stale' \subseteq Workers
    BY <1>7 DEF StartTasks, StartTurns, Exit, Crash, SettingsOK
  <2>2. starts' \in 0..MaxStarts
    BY <1>0, <1>7 DEF StartTasks, StartTurns, Exit, Crash, SettingsOK
  <2>3. UNCHANGED <<selected, source, faults, edits>>
    BY <1>7 DEF StartTasks, StartTurns, Exit, Crash
  <2> QED
    BY <2>1, <2>2, <2>3 DEF SettingsOK, VersionsInv
<1> QED
  BY <1>2, <1>3, <1>4, <1>5, <1>6, <1>7, WorkerSettings DEF CNext

LEMMA TypesStep == ASSUME CInv, [CNext]_cvars PROVE CTypeOK' /\ VersionsInv'
<1>1. SettingsOK'
  BY SettingsStep DEF CInv, CTypeOK, SettingsOK
<1> QED
  BY <1>1, TurnsGo, ThreadsTyped DEF CTypeOK, SettingsOK, Threads

LEMMA CInitInv == ASSUME CInit PROVE CInv
<1>1. StoreInv /\ BlankInv
  BY InitInv, BlankInit DEF CInit
<1>2. CTypeOK /\ VersionsInv
  <2>1. \A k \in Questions : NoTurn \in Turns
    BY DEF NoTurn, Turns, TurnStatuses
  <2>2. IdleThread \in Threads
    BY DEF IdleThread, Threads, Steps
  <2>3. /\ 1 \in 1..MaxEdits + 1 /\ 0 \in 0..MaxEdits /\ 0 \in 0..MaxStarts /\ 0 \in 0..MaxFaults
        /\ TRUE \in BOOLEAN
    BY ChatAssumption
  <2>4. source \in [Sources -> [version : 1..MaxEdits + 1, enabled : BOOLEAN]]
    BY <2>3 DEF CInit
  <2>5. VersionsInv
    BY DEF CInit, VersionsInv
  <2> QED
    BY <2>1, <2>2, <2>3, <2>4, <2>5 DEF CInit, CTypeOK, Threads
<1>3. TurnRecordsAgree /\ OneActiveTurn
  BY DEF CInit, TurnRecordsAgree, OneActiveTurn, NoTurn, ActiveTurn
<1>4. ThreadsInv /\ PairsInv /\ OwnersInv
  BY DEF CInit, ThreadsInv, PairsInv, OwnersInv, Owns, Works, IdleThread, WithEvidence
<1>5. LostInv
  BY DEF CInit, LostInv
<1>6. SucceededIsAnswered
  BY DEF CInit, Init, NoRow, SucceededIsAnswered
<1> QED
  BY <1>1, <1>2, <1>3, <1>4, <1>5, <1>6 DEF CInv

\* The invariant holds in every reachable state.
THEOREM CInductive == CSpec => []CInv
<1>1. CInit => CInv
  BY CInitInv
<1>2. CInv /\ [CNext]_cvars => CInv'
  <2> SUFFICES ASSUME CInv, [CNext]_cvars PROVE CInv'
    OBVIOUS
  <2>1. StoreInv' /\ BlankInv'
    <3>1. StoreInv /\ BlankInv /\ [Next]_storeVars
      BY StoreStep DEF CInv
    <3>2. StoreInv'
      BY <3>1, StepTypeOK, RowsStep, StepOneActive, StepOneTask DEF StoreInv
    <3> QED
      BY <3>1, <3>2, BlankStep
  <2> QED
    BY <2>1, TypesStep, TurnsStep, ThreadsStep, PairsStep, OwnersStep, LostStep,
       OneActiveStep, SucceededStep DEF CInv
<1> QED
  BY <1>1, <1>2, PTL DEF CSpec

----------------------------------------------------------------------------
(***************************************************************************)
(* What follows.                                                           *)
(***************************************************************************)

\* The task table under the chat behaves as the table alone: what is proved of
\* it holds here.
THEOREM ChatRunsStore == CSpec => Spec
<1>1. CInit => Init
  BY DEF CInit
<1>2. CInv /\ [CNext]_cvars => [Next]_storeVars
  BY StoreStep
<1> QED
  BY <1>1, <1>2, CInductive, PTL DEF CSpec, Spec

LEMMA OrphansCounted == ASSUME CInv PROVE ActiveTurnOwned
<1> SUFFICES ASSUME mode = "open"
             PROVE  Cardinality({ k \in Questions :
                        /\ turns[k].status \in ActiveTurn
                        /\ ~\E w \in Workers : /\ thread[w].pc # "idle"
                                               /\ Question(thread[w].job) = k
                                               /\ thread[w].gen = turns[k].token }) <= faults
  BY DEF ActiveTurnOwned
<1> DEFINE Orphans == { k \in Questions :
                        /\ turns[k].status \in ActiveTurn
                        /\ ~\E w \in Workers : /\ thread[w].pc # "idle"
                                               /\ Question(thread[w].job) = k
                                               /\ thread[w].gen = turns[k].token }
<1>1. Orphans \subseteq Lost
  BY DEF Lost, Cares
<1>2. IsFiniteSet(Lost) /\ Cardinality(Lost) <= faults
  BY DEF CInv, LostInv
<1> HIDE DEF Orphans
<1>3. IsFiniteSet(Orphans) /\ Cardinality(Orphans) <= Cardinality(Lost)
  BY <1>1, <1>2, FS_Subset
<1>4. Cardinality(Orphans) <= faults
  BY <1>2, <1>3, FS_CardinalityType, ChatAssumption DEF CInv, CTypeOK
<1> QED
  BY <1>4 DEF Orphans

\* A turn and its message tell one story, and only failing calls orphan a turn,
\* for any number of questions, threads, edits and restarts.
THEOREM RecordsStaySound == CSpec => []RecordsSound
<1>1. CInv => RecordsSound
  BY OrphansCounted DEF CInv, RecordsSound
<1> QED
  BY <1>1, CInductive, PTL

\* A conversation works on one answer at a time, over stale threads and retries,
\* and a task that succeeded has its answer.
THEOREM TurnsStaySound == CSpec => []TurnsSound
<1>1. CInv => TurnsSound
  BY OrphansCounted DEF CInv, TurnsSound
<1> QED
  BY <1>1, CInductive, PTL

\* A step that publishes is a thread's, at the place where it publishes, of a turn
\* it owns.
LEMMA PublishedBy ==
    ASSUME CInv, [CNext]_cvars, NEW k \in Questions,
           turns[k].status \notin Final, turns'[k].status \in Final
    PROVE  \E w \in Workers :
              /\ Owns(w) /\ Question(thread[w].job) = k
              /\ thread[w].pc \in {"publish", "refuse"}
              /\ turns'[k].status = "completed" =>
                    EvidenceHolds(w) /\ turns'[k].cited = thread[w].evidence
<1>0. turns \in [Questions -> Turns]
  BY DEF CInv, CTypeOK
<1>1. CASE Interrupts
  <2>1. turns'[k] \in {turns[k], Interrupted(turns[k])}
    BY <1>1 DEF Interrupts
  <2>2. Interrupted(turns[k]).status \in {turns[k].status, "failed"}
    BY <1>0 DEF Interrupted, Turns
  <2> QED
    BY <2>1, <2>2 DEF Final
<1>2. ASSUME NEW w \in Workers, ThreadStep(w)
      PROVE  /\ Owns(w) /\ Question(thread[w].job) = k
             /\ thread[w].pc \in {"publish", "refuse"}
             /\ turns'[k].status = "completed" =>
                   EvidenceHolds(w) /\ turns'[k].cited = thread[w].evidence
  <2>1. Works(w) /\ Question(thread[w].job) = k /\ Turn(w) = turns[k] /\ turns[k] \in Turns
    <3>1. Works(w) /\ Question(thread[w].job) = k
      BY <1>2, OtherTurnsStay
    <3> QED
      BY <1>0, <3>1 DEF Turn
  <2>2. ASSUME NEW new, SetTurn(w, new) PROVE turns'[k] = new
    BY <1>0, <2>1, <2>2 DEF SetTurn
  <2>3. ~Begins(w)
    BY <2>1, <2>2, ZenonT(60) DEF Begins, Reserved, Final, Turns
  <2>4. ~Advances(w)
    <3> SUFFICES ASSUME Advances(w) PROVE FALSE
      OBVIOUS
    <3>1. PICK to \in ActiveTurn : SetTurn(w, [Turn(w) EXCEPT !.status = to])
      BY DEF Advances
    <3>2. turns'[k] = [turns[k] EXCEPT !.status = to]
      BY <2>1, <2>2, <3>1
    <3> QED
      BY <2>1, <3>2 DEF Turns, Final, ActiveTurn
  <2>5. Closes(w)
    BY <1>2, <2>3, <2>4 DEF ThreadStep, Goes, Stops, Takes
  <2>6. Owns(w)
    BY <2>1, <2>5 DEF Closes, Owns
  <2>7. CASE /\ thread[w].pc = "publish" /\ EvidenceHolds(w)
             /\ SetTurn(w, Finished(Turn(w), "completed", "complete", thread[w].evidence))
    <3>1. turns'[k] = Finished(turns[k], "completed", "complete", thread[w].evidence)
      BY <2>1, <2>2, <2>7
    <3>2. turns'[k].cited = thread[w].evidence
      BY <2>1, <3>1 DEF Finished, Turns
    <3> QED
      BY <2>1, <2>6, <2>7, <3>2
  <2>8. CASE /\ thread[w].pc = "refuse"
             /\ SetTurn(w, Finished(Turn(w), "refused", "complete", {}))
    <3>1. turns'[k] = Finished(turns[k], "refused", "complete", {})
      BY <2>1, <2>2, <2>8
    <3>2. turns'[k].status = "refused"
      BY <2>1, <3>1 DEF Finished, Turns
    <3> QED
      BY <2>1, <2>6, <2>8, <3>2
  <2>9. ~SetTurn(w, Finished(Turn(w), "failed", "failed", {}))
    <3> SUFFICES ASSUME SetTurn(w, Finished(Turn(w), "failed", "failed", {})) PROVE FALSE
      OBVIOUS
    <3>1. turns'[k] = Finished(turns[k], "failed", "failed", {})
      BY <2>1, <2>2
    <3> QED
      BY <2>1, <3>1 DEF Finished, Turns, Final
  <2> QED
    BY <2>5, <2>7, <2>8, <2>9 DEF Closes
<1> QED
  BY <1>1, <1>2, ChatShapes DEF Dies

\* What is published is final, cites what the sources say at that moment, and is
\* published by a task that may.
THEOREM PublicationStaysHeld == CSpec => PublicationHolds
<1>1. ASSUME CInv, [CNext]_cvars, NEW k \in Questions,
             turns[k].status \in {"completed", "refused"}
      PROVE  turns'[k] = turns[k]
  BY <1>1, TurnsGo DEF Went, Final
<1>2. ASSUME CInv, [CNext]_cvars, NEW k \in Questions,
             turns'[k].status = "completed", turns[k].status # "completed"
      PROVE  \A e \in turns'[k].cited : /\ e[1] \in turns[k].scope
                                        /\ source[e[1]].enabled
                                        /\ e = Current(e[1])
  <2>1. turns[k].status \notin Final /\ turns'[k].status \in Final
    BY <1>2, TurnsGo DEF Went, Final
  <2>2. PICK w \in Workers : /\ Question(thread[w].job) = k /\ EvidenceHolds(w)
                             /\ turns'[k].cited = thread[w].evidence
    BY <1>2, <2>1, PublishedBy
  <2> QED
    BY <2>2 DEF EvidenceHolds, Turn
<1>3. ASSUME CInv, [CNext]_cvars, NEW k \in Questions,
             turns'[k].status \in {"completed", "refused"}, turns[k].status \in ActiveTurn,
             mode # "recovering"
      PROVE  \E t \in TaskIds : /\ Question(t) = k
                                /\ tasks[t].status \in {"running", "canceling"}
  <2>1. turns[k].status \notin Final /\ turns'[k].status \in Final
    BY <1>3 DEF Final, ActiveTurn
  <2>2. PICK w \in Workers : /\ Owns(w) /\ Question(thread[w].job) = k
                             /\ thread[w].pc \in {"publish", "refuse"}
    BY <1>3, <2>1, PublishedBy
  <2>3. Held(w, {"running", "canceling"})
    BY <1>3, <2>2 DEF CInv, OwnersInv
  <2>4. thread[w].job \in TaskIds
    BY <1>3, <2>2, WorksOnQuestion DEF Owns
  <2> QED
    BY <2>2, <2>3, <2>4 DEF Held, ClaimHeld
<1>4. CInv /\ [CNext]_cvars =>
         [\A k \in Questions :
             turns[k].status \in {"completed", "refused"} => turns'[k] = turns[k]]_cvars
  BY <1>1
<1>5. CInv /\ [CNext]_cvars =>
         [\A k \in Questions :
             turns'[k].status = "completed" /\ turns[k].status # "completed" =>
                 \A e \in turns'[k].cited :
                     /\ e[1] \in turns[k].scope
                     /\ source[e[1]].enabled
                     /\ e = Current(e[1])]_cvars
  BY <1>2
<1>6. CInv /\ [CNext]_cvars =>
         [\A k \in Questions :
             /\ turns'[k].status \in {"completed", "refused"}
             /\ turns[k].status \in ActiveTurn
             /\ mode # "recovering"
             => \E t \in TaskIds : /\ Question(t) = k
                                   /\ tasks[t].status \in {"running", "canceling"}]_cvars
  BY <1>3
<1>7. CSpec => AnswerIsFinal
  BY <1>4, CInductive, PTL DEF CSpec, AnswerIsFinal
<1>8. CSpec => GroundedAtPublication
  BY <1>5, CInductive, PTL DEF CSpec, GroundedAtPublication
<1>9. CSpec => PublishedUnderClaim
  BY <1>6, CInductive, PTL DEF CSpec, PublishedUnderClaim
<1> QED
  BY <1>7, <1>8, <1>9 DEF PublicationHolds
=============================================================================
