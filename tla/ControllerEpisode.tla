------------------------- MODULE ControllerEpisode -------------------------
(***************************************************************************)
(* One episode of the retrieval controller (rag_lab/controller_runner.py): *)
(* a policy picks actions on a frozen memory, the runner guards each one,  *)
(* performs it under a budget and reduces its observation to a new state.  *)
(* The policies are the three of controller_policy.py and one a caller     *)
(* brings, which may pick anything.  The question is one required need.    *)
(***************************************************************************)
EXTENDS Naturals, Sequences, FiniteSets, FiniteSetsExt

CONSTANTS Ideas,       \* the concepts of the memory
          Proofs,      \* its evidence
          IdeaOf,      \* the concept a piece of evidence belongs to
          Arcs,        \* its relations: [from, to, type]
          Setups       \* [policy, need, budget]: the protocols of this instance, where
                       \* a budget is [steps, retrievals, concept, evidence, expand,
                       \* verify, ideas, proofs, idle, top]

Policies == {"fixed_dense", "fixed_dense_typed_graph", "evidence_gap", "brought"}
Budgets  == [steps : Nat \ {0}, idle : Nat \ {0}, top : Nat \ {0}, retrievals : Nat,
             concept : Nat, evidence : Nat, expand : Nat, verify : Nat, ideas : Nat, proofs : Nat]

ASSUME EpisodeAssumption ==
    /\ IsFiniteSet(Ideas) /\ IsFiniteSet(Proofs)
    /\ IdeaOf \in [Proofs -> Ideas]
    /\ Arcs \subseteq [from : Ideas, to : Ideas, type : {"prerequisite", "related"}]
    /\ \A s \in Setups :
        /\ s.policy \in Policies /\ s.budget \in Budgets
        /\ s.budget.retrievals <= s.budget.concept + s.budget.evidence + s.budget.expand

VARIABLES agent, budget,
          memo,     \* the controller's state
          todo,     \* the action the runner is about to perform
          ending    \* [why, cites, fault]

episodeVars == <<agent, budget, memo, todo, ending>>

Retrievals == {"concept", "evidence", "expand"}
NoTodo     == [kind |-> "none"]
Running    == [why |-> "running", cites |-> {}, fault |-> "none"]
EndedAs(why) == [Running EXCEPT !.why = why]
FaultyEnd(why, fault) == [Running EXCEPT !.why = why, !.fault = fault]

EpisodeInit ==
    /\ \E s \in Setups : agent = [policy |-> s.policy, need |-> s.need] /\ budget = s.budget
    /\ memo = [status |-> "unresolved", support |-> {}, about |-> {},
               ideas |-> {}, proofs |-> {}, verified |-> {}, arcs |-> {},
               tried |-> {}, idle |-> 0, step |-> 0, late |-> FALSE,
               calls |-> [k \in Retrievals \cup {"verify"} |-> 0]]
    /\ todo = NoTodo
    /\ ending \in {Running, FaultyEnd("policy_error", "initialize")}

\* Prompt characters and elapsed time are what a decision or an action may
\* overrun; late says that one of them has passed its limit.
Retrieved(m) == m.calls["concept"] + m.calls["evidence"] + m.calls["expand"]
Unverified(m) == m.proofs \ m.verified

----------------------------------------------------------------------------
(* What the policies pick.                                                 *)

SearchIdeas(m) == [kind |-> "concept", exclude |-> m.ideas]
SearchProofs(m) == [kind |-> "evidence", scope |-> m.ideas, exclude |-> m.proofs]
ExpandFrom(anchors, way, m) ==
    [kind |-> "expand", anchors |-> anchors, way |-> way, exclude |-> m.arcs]
CheckProofs(m) == [kind |-> "verify", proofs |-> Unverified(m)]
Reply == [kind |-> "answer"]
Abstain == [kind |-> "abstain"]

CanCall(kind) ==
    /\ kind \in Retrievals => Retrieved(memo) < budget.retrievals
    /\ memo.calls[kind] < budget[kind]
Untried(a) == a \notin memo.tried
IfUntried(a) == IF Untried(a) THEN a ELSE Abstain

\* A policy is a list of rules; the first whose condition holds decides.
Rule(when, pick) == [when |-> when, pick |-> pick]
FirstOf(rules) == rules[Min({i \in DOMAIN rules : rules[i].when})].pick

Settled ==
    <<Rule(memo.status \in {"contradicted", "unresolvable"}, Abstain),
      Rule(memo.status = "supported", Reply),
      Rule(memo.step >= budget.steps \/ memo.late \/ memo.idle >= budget.idle, Abstain)>>

FixedRules(withGraph) == Settled \o
    <<Rule(memo.calls["concept"] = 0 /\ ~CanCall("concept"), Abstain),
      Rule(memo.calls["concept"] = 0, IfUntried(SearchIdeas(memo))),
      Rule(/\ withGraph /\ memo.calls["expand"] = 0 /\ memo.ideas # {}
           /\ CanCall("expand"),
           IfUntried(ExpandFrom(memo.ideas, "both", memo))),
      Rule(memo.calls["evidence"] = 0 /\ ~CanCall("evidence"), Abstain),
      Rule(memo.calls["evidence"] = 0, IfUntried(SearchProofs(memo))),
      Rule(memo.calls["verify"] = 0 /\ Unverified(memo) # {} /\ CanCall("verify"),
           IfUntried(CheckProofs(memo))),
      Rule(TRUE, Abstain)>>

GapRules ==
    LET relational == agent.need \in {"prerequisite", "relation"}
        anchors == IF memo.about # {} THEN memo.about ELSE memo.ideas
        expand == ExpandFrom(anchors,
                             IF agent.need = "prerequisite" THEN "incoming" ELSE "both", memo)
        expandDue == relational /\ anchors # {} /\ memo.calls["expand"] = 0
        conceptDue == memo.status = "unresolved"
                      /\ IF relational THEN anchors = {} ELSE memo.ideas = {}
    IN  Settled \o
    <<Rule(Unverified(memo) # {} /\ memo.calls["evidence"] > 0,
           IF CanCall("verify") THEN CheckProofs(memo) ELSE Abstain),
      Rule(expandDue /\ CanCall("expand") /\ Untried(expand), expand),
      Rule(expandDue /\ ~CanCall("expand") /\ ~CanCall("evidence"), Abstain),
      Rule(conceptDue /\ CanCall("concept") /\ Untried(SearchIdeas(memo)), SearchIdeas(memo)),
      Rule(conceptDue /\ ~CanCall("concept") /\ ~CanCall("evidence"), Abstain),
      Rule(CanCall("evidence"), IfUntried(SearchProofs(memo))),
      Rule(Unverified(memo) # {} /\ CanCall("verify"), CheckProofs(memo)),
      Rule(TRUE, Abstain)>>

Picks ==
    CASE agent.policy = "fixed_dense" -> {FirstOf(FixedRules(FALSE))}
      [] agent.policy = "fixed_dense_typed_graph" -> {FirstOf(FixedRules(TRUE))}
      [] agent.policy = "evidence_gap" -> {FirstOf(GapRules)}
      [] OTHER -> {Reply, Abstain}
                  \cup [kind : {"concept"}, exclude : {{}, memo.ideas}]
                  \cup [kind : {"evidence"}, scope : SUBSET Ideas, exclude : {memo.proofs}]
                  \cup [kind : {"expand"}, anchors : (SUBSET Ideas) \ {{}}, way : {"both"},
                        exclude : {memo.arcs}]
                  \cup [kind : {"verify"}, proofs : (SUBSET Proofs) \ {{}}]

----------------------------------------------------------------------------
(* What the runner lets through.                                           *)

\* _guard_action
Permitted(a) ==
    /\ Untried(a)
    /\ a.kind = "evidence" => a.scope \subseteq memo.ideas
    /\ a.kind = "expand" => a.anchors \subseteq memo.ideas
    /\ a.kind = "verify" => a.proofs \subseteq memo.proofs
    /\ a.kind = "answer" => memo.status = "supported"

\* A mutant: what was spent is compared, not what the action would cost.
Overdrawn(a) ==
    \/ memo.step > budget.steps
    \/ a.kind \in Retrievals /\ Retrieved(memo) > budget.retrievals
    \/ a.kind \in DOMAIN memo.calls /\ memo.calls[a.kind] > budget[a.kind]

\* The least an action costs; would it go over a limit that is counted?
Overdraws(a) ==
    \/ memo.step + 1 > budget.steps
    \/ a.kind \in Retrievals /\ Retrieved(memo) + 1 > budget.retrievals
    \/ a.kind \in DOMAIN memo.calls /\ memo.calls[a.kind] + 1 > budget[a.kind]

\* Before a decision: nothing to spend, or no step left.
StopUndecided ==
    /\ \/ memo.late /\ ending' = EndedAs("budget_exhausted")
       \/ ~memo.late /\ memo.step >= budget.steps /\ ending' = EndedAs("max_steps")
    /\ UNCHANGED <<agent, budget, memo, todo>>

\* The decision itself may use up the time or the prompt.
DecideNext ==
    /\ ~memo.late /\ memo.step < budget.steps
    /\ \/ ending' = FaultyEnd("policy_error", "decide") /\ UNCHANGED todo
       \/ \E a \in Picks, overran \in BOOLEAN :
            IF ~Permitted(a)
            THEN todo' = a /\ ending' = EndedAs("invalid_action")
            ELSE /\ todo' = a
                 /\ ending' = IF overran \/ Overdraws(a)
                              THEN EndedAs("budget_exhausted") ELSE ending
    /\ UNCHANGED <<agent, budget, memo>>

----------------------------------------------------------------------------
(* The memory, the verifier and the reducer.                               *)

AtMost(n, xs) == {s \in SUBSET xs : Cardinality(s) <= n}
ArcsFrom(a) ==
    {r \in Arcs \ a.exclude :
        /\ agent.need = "prerequisite" => r.type = "prerequisite"
        /\ r.to \in a.anchors \/ (a.way = "both" /\ r.from \in a.anchors)}
FarEnds(a, arcs) ==
    {r.from : r \in {s \in arcs : s.to \in a.anchors}}
    \cup (IF a.way = "both" THEN {r.to : r \in {s \in arcs : s.from \in a.anchors}} ELSE {})

\* What a retrieval may return: ranking and the characters left pick among the
\* candidates, never more new ones than the budget has room for.
Observed(a) ==
    LET roomI == budget.ideas - Cardinality(memo.ideas)
        roomP == budget.proofs - Cardinality(memo.proofs)
        Nil == [ideas |-> {}, proofs |-> {}, arcs |-> {}]
    IN  CASE a.kind = "concept" ->
             {[Nil EXCEPT !.ideas = s] : s \in
                 {x \in AtMost(budget.top, Ideas \ a.exclude) : Cardinality(x \ memo.ideas) <= roomI}}
          [] a.kind = "evidence" ->
             {[Nil EXCEPT !.proofs = s] : s \in
                 {x \in AtMost(budget.top, {e \in Proofs \ a.exclude :
                                               a.scope = {} \/ IdeaOf[e] \in a.scope}) :
                     Cardinality(x \ memo.proofs) <= roomP}}
          [] a.kind = "expand" ->
             {[Nil EXCEPT !.arcs = s, !.ideas = FarEnds(a, s)] : s \in
                 {x \in SUBSET ArcsFrom(a) : Cardinality(FarEnds(a, x) \ memo.ideas) <= roomI}}
          [] OTHER -> {Nil}

\* What a verifier may say of the need.
Verdicts(a) ==
    IF a.kind # "verify" THEN {[status |-> memo.status, support |-> {}]}
    ELSE [status : {"supported"}, support : (SUBSET a.proofs) \ {{}}]
         \cup [status : {"partially_supported", "contradicted", "unresolvable"}, support : {{}}]

\* reduce_controller_state: a supported need is never downgraded.
Reduced(a, seen, verdict, overran) ==
    LET ideasOf(proofs) == {IdeaOf[e] : e \in proofs}
        checked == a.kind = "verify"
        keeps == memo.status = "supported" /\ verdict.status # "supported"
        status == IF ~checked \/ keeps THEN memo.status ELSE verdict.status
        support == IF ~checked \/ keeps THEN memo.support
                   ELSE IF memo.status = "supported" THEN memo.support \cup verdict.support
                   ELSE verdict.support
        about == IF ~checked \/ keeps THEN memo.about
                 ELSE IF memo.status = "supported" THEN memo.about \cup ideasOf(verdict.support)
                 ELSE ideasOf(verdict.support)
        progress == \/ seen.ideas \ memo.ideas # {} \/ seen.proofs \ memo.proofs # {}
                    \/ seen.arcs \ memo.arcs # {}
                    \/ <<status, support>> # <<memo.status, memo.support>>
    IN  [memo EXCEPT
            !.status = status, !.support = support, !.about = about,
            !.ideas = @ \cup seen.ideas, !.proofs = @ \cup seen.proofs,
            !.arcs = @ \cup seen.arcs, !.verified = @ \cup verdict.support,
            !.tried = @ \cup {a}, !.step = @ + 1, !.late = overran,
            !.idle = IF progress THEN 0 ELSE @ + 1,
            !.calls = [k \in DOMAIN @ |-> @[k] + IF a.kind = k THEN 1 ELSE 0]]

\* ControllerState refuses support on a concept that was never retrieved.
WellFormed(m) == m.about \subseteq m.ideas /\ m.support \subseteq m.verified

\* What ends the episode after a step that was recorded.
AfterStep(a, m, cites) ==
    CASE m.late -> EndedAs("budget_exhausted")
      [] ~m.late /\ a.kind = "answer" ->
            IF cites \subseteq m.support
            THEN [EndedAs("answer") EXCEPT !.cites = cites]
            ELSE FaultyEnd("environment_error", "citations")
      [] ~m.late /\ a.kind = "abstain" -> EndedAs("abstain")
      [] ~m.late /\ a.kind \notin {"answer", "abstain"} /\ m.idle >= budget.idle ->
            EndedAs("no_progress")
      [] OTHER -> Running

Perform ==
    LET a == todo IN
    /\ todo' = NoTodo
    /\ \E seen \in Observed(a), verdict \in Verdicts(a), overran \in BOOLEAN,
          cites \in IF a.kind = "answer" THEN (SUBSET Proofs) \ {{}} ELSE {{}} :
         LET next == Reduced(a, seen, verdict, overran) IN
         IF WellFormed(next)
         THEN memo' = next /\ ending' = AfterStep(a, next, cites)
         ELSE UNCHANGED memo /\ ending' = FaultyEnd("environment_error", "unseen_concept")
    /\ UNCHANGED <<agent, budget>>

\* The memory, the verifier or the answerer raises: no step is recorded.
PerformFails ==
    /\ todo.kind # "abstain"
    /\ todo' = NoTodo
    /\ ending' = FaultyEnd("environment_error", "raised")
    /\ UNCHANGED <<agent, budget, memo>>

EpisodeNext ==
    /\ ending = Running
    /\ \/ todo = NoTodo /\ (StopUndecided \/ DecideNext)
       \/ todo # NoTodo /\ (Perform \/ PerformFails)

----------------------------------------------------------------------------
(* No counted limit is ever passed, whatever the policy asks for.          *)
WithinBudget ==
    /\ memo.step <= budget.steps /\ Retrieved(memo) <= budget.retrievals
    /\ \A k \in DOMAIN memo.calls : memo.calls[k] <= budget[k]
    /\ Cardinality(memo.ideas) <= budget.ideas /\ Cardinality(memo.proofs) <= budget.proofs
    /\ memo.idle <= budget.idle

\* An answer was given with its need supported by evidence that was found and
\* verified in this episode, in time, and cites nothing else.
AnsweredOnProof ==
    ending.why = "answer" =>
        /\ memo.status = "supported" /\ ~memo.late
        /\ ending.cites # {} /\ ending.cites \subseteq memo.support
        /\ memo.support \subseteq memo.verified /\ memo.verified \subseteq memo.proofs

\* The stop reason is the true one: nothing ends for want of progress while it
\* makes some, and a policy of the code is refused an action only when
\* evidence_gap verifies again what it verified in vain.
EndedForCause ==
    /\ ending.why = "max_steps" => memo.step = budget.steps
    /\ ending.why = "no_progress" => memo.idle = budget.idle
    /\ ending.why = "invalid_action" /\ agent.policy # "brought" =>
        /\ agent.policy = "evidence_gap" /\ todo.kind = "verify" /\ todo \in memo.tried
        /\ memo.status = "partially_supported"
    \* The evidence search covers every concept when none was found; what it finds
    \* then cannot support the need.
    /\ ending.fault = "unseen_concept" => \E a \in memo.tried : a.kind = "evidence" /\ a.scope = {}

EpisodeSound == WithinBudget /\ AnsweredOnProof /\ EndedForCause

\* A need once supported stays so, with what supports it, and an episode that
\* ended stays as it ended (reduce_controller_state, controller_runner.py).
SupportKept ==
    /\ memo.status = "supported" =>
        memo'.status = "supported" /\ memo.support \subseteq memo'.support
    /\ ending # Running => UNCHANGED episodeVars
=============================================================================
