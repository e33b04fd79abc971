------------------------------- MODULE TopicTree -------------------------------
(***************************************************************************)
(* The course map: a tree of topics, the primary topic of every card, and  *)
(* suggested topics (backend/app/topic_service.py, topic_store.py,         *)
(* topic_suggestion_service.py).                                           *)
(*                                                                         *)
(* A request reads and validates, and then writes in transactions of its   *)
(* own, without a lock: one step reads, every transaction is one more, and *)
(* requests of several users meet in between.  A request may end after any *)
(* of its writes.  Titles, positions and the clustering behind a           *)
(* suggestion are left out; a merge has one source.                        *)
(***************************************************************************)
EXTENDS Integers, FiniteSets

CONSTANTS Topics, Unsorted, MapCards,
          Planners,   \* the requests that may be under way at once
          NoTopic,    \* no parent, or a topic that is not there
          MaxDepth    \* MAX_TOPIC_DEPTH

ASSUME TopicAssumption ==
    /\ IsFiniteSet(Topics) /\ Unsorted \in Topics /\ NoTopic \notin Topics
    /\ MaxDepth \in Nat

VARIABLES topic,    \* topics: status, parent and stored depth
          placed,   \* topic_card_memberships: topic, card, status
          cards,    \* the live cards of the course
          planner,  \* the requests under way, with the rows they hold
          crossed   \* a request has written after another one changed the tree it had read

topicVars == <<topic, placed, cards, planner, crossed>>

Missing == [status |-> "none", parent |-> NoTopic, depth |-> 0]
Blank   == [t \in Topics |-> Missing]

\* t: the topic that is changed; to: the one that gets cards; row: the Topic
\* object to be written; seen: the topics as listed; left: what is still to do.
Quiet == [at |-> "idle", kind |-> "none", t |-> NoTopic, to |-> NoTopic,
          row |-> Missing, seen |-> Blank, left |-> {}]

TopicInit == /\ topic = Blank
             /\ placed = {}
             /\ cards = MapCards
             /\ planner = [w \in Planners |-> Quiet]
             /\ crossed = FALSE

There(t) == t \in Topics /\ topic[t].status # "none"
Accepted(t) == There(t) /\ topic[t].status = "accepted"

\* The topics on the way to the root, as the rows have it.
AncestorsIn(rows) ==
    LET up[n \in Nat] ==
          IF n = 0 THEN [t \in Topics |-> {}]
          ELSE LET below == up[n - 1] IN
               [t \in Topics |-> IF rows[t].status = "none" THEN {}
                                 ELSE {rows[t].parent} \cup
                                      UNION {below[p] : p \in {rows[t].parent} \cap Topics}]
    IN up[Cardinality(Topics)]
Ancestors(t) == IF t \in Topics THEN AncestorsIn(topic)[t] ELSE {}
Below(t) == {u \in Topics : There(u) /\ t \in Ancestors(u)}

\* _is_descendant(p, t) answers no: the walk up from p ends and does not meet t.
NotUnder(p, t) ==
    \A a \in (Ancestors(p) \cup {p}) \cap Topics : a # t /\ a \notin Ancestors(a)

\* A list of topics with a depth that Topic refuses cannot be read.
Loads == \A t \in Topics : topic[t].depth <= MaxDepth

\* upsert_primary_membership, for the card k.
PlacedIn(t, k, rows) ==
    {m \in rows : m[2] # k \/ (m[3] # "accepted" /\ m[1] # t)} \cup {<<t, k, "accepted">>}

Placement(k) == {m \in placed : m[2] = k /\ m[3] = "accepted"}
Members(t, status) == {m[2] : m \in {n \in placed : n[1] = t /\ n[3] = status}}

----------------------------------------------------------------------------
(* What a request reads, and what it will write.                           *)

\* Where a request goes when it has done what was left.
Advance(r) ==
    IF r.left # {} \/ r.at \notin {"place", "renumber", "file"} THEN r
    ELSE CASE r.at = "place" /\ r.kind = "accept" -> [r EXCEPT !.at = "row"]
           [] r.at = "place" /\ r.kind = "merge" -> [r EXCEPT !.at = "rehome"]
           [] OTHER -> Quiet

BeginPlan(w, r) == /\ planner' = [planner EXCEPT ![w] = Advance(r)]
                   /\ UNCHANGED <<topic, placed, cards, crossed>>

Under(t, p) == [topic[t] EXCEPT !.parent = p,
                                !.depth = IF p = NoTopic THEN 0 ELSE topic[p].depth + 1]

NewTopic(p) == [status |-> "accepted", parent |-> p,
                depth |-> IF p = NoTopic THEN 0 ELSE topic[p].depth + 1]

CreateTopic(w, p) ==
    /\ p = NoTopic \/ There(p)
    /\ NewTopic(p).depth <= MaxDepth
    /\ BeginPlan(w, [Quiet EXCEPT !.at = "insert", !.kind = "create", !.row = NewTopic(p)])

\* The stored depths below t have to fit under the new parent; its own is
\* looked at only when there are none.
Fits(t, p) == \A u \in (IF Below(t) = {} THEN {t} ELSE Below(t)) :
                 (topic[u].depth - topic[t].depth) + Under(t, p).depth <= MaxDepth

MoveMutant(w, t, p) ==               \* only the topic itself is refused
    /\ There(t) /\ t # Unsorted /\ Loads /\ t \notin Ancestors(t)
    /\ p = NoTopic \/ (There(p) /\ p # t)
    /\ Fits(t, p)
    /\ BeginPlan(w, [Quiet EXCEPT !.at = "row", !.kind = "update", !.t = t,
                              !.row = Under(t, p), !.seen = topic])

MoveTopic(w, t, p) ==
    /\ There(t) /\ t # Unsorted /\ Loads /\ t \notin Ancestors(t)
    /\ p = NoTopic \/ (There(p) /\ NotUnder(p, t))
    /\ Fits(t, p)
    /\ BeginPlan(w, [Quiet EXCEPT !.at = "row", !.kind = "update", !.t = t,
                              !.row = Under(t, p), !.seen = topic])

SetStatus(w, t, status) ==
    /\ There(t) /\ t # Unsorted /\ Loads /\ t \notin Ancestors(t)
    /\ BeginPlan(w, [Quiet EXCEPT !.at = "row", !.kind = "update", !.t = t, !.seen = topic,
                              !.row = [topic[t] EXCEPT !.status = status]])

DeleteSuggested(w, t) ==
    /\ There(t) /\ topic[t].status = "suggested"
    /\ BeginPlan(w, [Quiet EXCEPT !.at = "drop", !.kind = "drop", !.t = t])

DeleteTopic(w, t) ==
    /\ There(t) /\ t # Unsorted /\ topic[t].status # "suggested"
    /\ There(Unsorted) /\ Loads
    /\ BeginPlan(w, [Quiet EXCEPT !.at = "rehome", !.kind = "delete", !.t = t, !.to = Unsorted,
                              !.row = topic[t], !.seen = topic])

AcceptTopic(w, t) ==
    /\ There(t) /\ topic[t].status = "suggested"
    /\ BeginPlan(w, [Quiet EXCEPT !.at = "place", !.kind = "accept", !.t = t, !.to = t,
                              !.row = [topic[t] EXCEPT !.status = "accepted"],
                              !.seen = topic, !.left = {m[2] : m \in {n \in placed : n[1] = t}}])

MergeTopics(w, target, source) ==
    /\ Accepted(target) /\ Accepted(source) /\ source \notin {target, Unsorted}
    /\ NotUnder(target, source)
    /\ BeginPlan(w, [Quiet EXCEPT !.at = "place", !.kind = "merge", !.t = source, !.to = target,
                              !.row = NewTopic(target), !.seen = topic,
                              !.left = Members(source, "accepted")])

SplitTopic(w, source, cs) ==
    /\ Accepted(source) /\ cs \subseteq Members(source, "accepted")
    /\ LET p == topic[source].parent IN
       /\ p = NoTopic \/ There(p)
       /\ NewTopic(p).depth <= MaxDepth
       /\ BeginPlan(w, [Quiet EXCEPT !.at = "insert", !.kind = "split", !.row = NewTopic(p), !.left = cs])

SetPrimary(w, k, t) ==
    /\ k \in cards /\ There(t)
    /\ BeginPlan(w, [Quiet EXCEPT !.at = "place", !.kind = "place", !.to = t, !.left = {k}])

\* Every live card without a primary topic goes to Unsorted.
GetCourseMap(w) ==
    /\ There(Unsorted) /\ Loads
    /\ BeginPlan(w, [Quiet EXCEPT !.at = "place", !.kind = "place", !.to = Unsorted,
                 !.left = {k \in cards : ~\E m \in Placement(k) : There(m[1])}])

\* Two cards of Unsorted or more are clustered.
SuggestTopics(w, cs) ==
    /\ There(Unsorted) /\ Loads
    /\ cs \subseteq Members(Unsorted, "accepted") \cap cards /\ Cardinality(cs) >= 2
    /\ BeginPlan(w, [Quiet EXCEPT !.at = "clear", !.kind = "suggest", !.left = cs])

----------------------------------------------------------------------------
(* The transactions of a request, with what it holds.                      *)

Shape(rows) == [t \in Topics |-> <<rows[t].status, rows[t].parent>>]

\* The tree is not the one that w has listed.
Overtaken(w) == Shape(planner[w].seen) # Shape(topic)

\* The request of w goes on as r; late: what it wrote rests on is gone.
Onward(w, r, late) == /\ planner' = [planner EXCEPT ![w] = Advance(r)]
                      /\ crossed' = (crossed \/ late)
                      /\ UNCHANGED cards

\* A new uuid: no row and no request refers to it.
Fresh(t) ==
    /\ ~There(t) /\ t # Unsorted
    /\ \A u \in Topics : topic[u].parent # t
    /\ \A m \in placed : m[1] # t
    /\ \A w \in Planners :
          /\ t \notin {planner[w].t, planner[w].to, planner[w].row.parent}
          /\ \A u \in Topics : planner[w].seen[u].parent # t
          /\ planner[w].seen[t].status = "none"

\* create_topic; a split goes on with its cards.
InsertTopic(w, t) ==
    /\ planner[w].at = "insert" /\ Fresh(t)
    /\ topic' = [topic EXCEPT ![t] = planner[w].row]
    /\ Onward(w, IF planner[w].kind = "create" THEN Quiet
                 ELSE [planner[w] EXCEPT !.at = "place", !.to = t], FALSE)
    /\ UNCHANGED placed

EnsureUnsorted ==
    /\ ~There(Unsorted)
    /\ topic' = [topic EXCEPT ![Unsorted] = NewTopic(NoTopic)]
    /\ UNCHANGED <<placed, cards, planner, crossed>>

\* update_topic: the whole row, if it is still there.
Updated(t, row) == IF There(t) THEN [topic EXCEPT ![t] = row] ELSE topic

WriteRow(w) ==
    /\ planner[w].at = "row"
    /\ topic' = Updated(planner[w].t, planner[w].row)
    /\ Onward(w, IF planner[w].kind = "accept" THEN Quiet
                 ELSE [planner[w] EXCEPT !.at = "list", !.seen = Blank], Overtaken(w))
    /\ UNCHANGED placed

\* What is numbered again: the topics below the one just written, or at first,
\* after a deletion, the roots.  A root keeps the row it was first listed with.
ListTopics(w) ==
    LET r == planner[w] IN
    /\ r.at = "list" /\ Loads
    /\ Onward(w, [r EXCEPT !.at = "renumber",
                 !.seen = [u \in Topics |-> IF u \in r.left THEN r.seen[u]
                                            ELSE IF u = r.t THEN [topic[u] EXCEPT !.depth = r.row.depth]
                                            ELSE topic[u]],
                 !.left = @ \cup IF r.t = NoTopic
                                 THEN {u \in Topics : There(u) /\ topic[u].parent = NoTopic}
                                 ELSE Below(r.t)], FALSE)
    /\ UNCHANGED <<topic, placed>>

\* A row as it was listed, with the depth its parent gives it; one that would
\* be too deep ends the request.  After a root the topics are listed again.
Renumber(w, u) ==
    LET r == planner[w]
        p == r.seen[u].parent
        row == [r.seen[u] EXCEPT !.depth = IF p = NoTopic THEN 0 ELSE r.seen[p].depth + 1] IN
    /\ r.at = "renumber" /\ u \in r.left
    /\ IF p = NoTopic THEN \A v \in r.left : r.seen[v].parent = NoTopic
       ELSE p \in Topics /\ p \notin r.left \ {r.t}
    /\ row.depth <= MaxDepth
    /\ topic' = Updated(u, row)
    /\ Onward(w, IF p = NoTopic THEN [r EXCEPT !.at = "list", !.t = u, !.row = row, !.left = @ \ {u}]
                 ELSE [r EXCEPT !.seen[u] = row, !.left = @ \ {u}], Overtaken(w))
    /\ UNCHANGED placed

PlaceCard(w, k) ==
    /\ planner[w].at = "place" /\ k \in planner[w].left
    /\ placed' = PlacedIn(planner[w].to, k, placed)
    /\ Onward(w, [planner[w] EXCEPT !.left = @ \ {k}], ~There(planner[w].to))
    /\ UNCHANGED topic

\* delete_topic_and_rehome: children and memberships move; a card that has a
\* membership in both topics makes the statement fail.
Rehome(w) ==
    /\ planner[w].at = "rehome"
    /\ LET t == planner[w].t
           to == planner[w].to IN
       /\ \A m \in placed : m[1] = t => ~\E n \in placed : n[1] = to /\ n[2] = m[2]
       /\ topic' = [u \in Topics |->
             IF u = t THEN Missing
             ELSE IF topic[u].parent = t THEN [topic[u] EXCEPT !.parent = planner[w].row.parent]
             ELSE topic[u]]
       /\ placed' = {IF m[1] = t THEN <<to, m[2], m[3]>> ELSE m : m \in placed}
    /\ Onward(w, [Quiet EXCEPT !.at = "list", !.kind = "delete"], Overtaken(w))

\* delete_suggested_topic: its memberships go, its children keep the parent.
DropTopic(w) ==
    /\ planner[w].at = "drop"
    /\ topic' = [topic EXCEPT ![planner[w].t] = Missing]
    /\ placed' = {m \in placed : m[1] # planner[w].t}
    /\ Onward(w, Quiet, topic[planner[w].t].status # "suggested")

\* clear_suggested_topics_for_course
ClearSuggested(w) ==
    /\ planner[w].at = "clear"
    /\ LET old == {t \in Topics : topic[t].status = "suggested"} IN
       /\ topic' = [t \in Topics |-> IF t \in old THEN Missing ELSE topic[t]]
       /\ placed' = {m \in placed : m[1] \notin old}
    /\ Onward(w, [planner[w] EXCEPT !.at = "file"], FALSE)

\* A suggested topic, and its cards one by one (upsert_topic_membership).
AddSuggestion(w, t) ==
    /\ planner[w].at = "file" /\ Fresh(t)
    /\ topic' = [topic EXCEPT ![t] = [Missing EXCEPT !.status = "suggested"]]
    /\ Onward(w, [planner[w] EXCEPT !.to = t], FALSE)
    /\ UNCHANGED placed

FileCard(w, k) ==
    /\ planner[w].at = "file" /\ planner[w].to # NoTopic /\ k \in planner[w].left
    /\ placed' = {m \in placed : m[1] # planner[w].to \/ m[2] # k}
                     \cup {<<planner[w].to, k, "suggested">>}
    /\ Onward(w, [planner[w] EXCEPT !.left = @ \ {k}],
              topic[planner[w].to].status # "suggested")
    /\ UNCHANGED topic

\* A statement or a check in between fails, or the process ends.
StopRequest(w) ==
    /\ planner[w] # Quiet
    /\ planner' = [planner EXCEPT ![w] = Quiet]
    /\ UNCHANGED <<topic, placed, cards, crossed>>

SwitchCard(k) ==
    /\ cards' = IF k \in cards THEN cards \ {k} ELSE cards \cup {k}
    /\ UNCHANGED <<topic, placed, planner, crossed>>

PurgeMembership(k) ==
    /\ k \notin cards
    /\ placed' = {m \in placed : m[2] # k}
    /\ UNCHANGED <<topic, cards, planner, crossed>>

BeginRequest(w) ==
    /\ planner[w] = Quiet
    /\ \/ GetCourseMap(w)
       \/ \E p \in Topics \cup {NoTopic} :
             CreateTopic(w, p) \/ \E t \in Topics : MoveTopic(w, t, p)
       \/ \E t \in Topics :
             \/ DeleteSuggested(w, t) \/ DeleteTopic(w, t) \/ AcceptTopic(w, t)
             \/ \E s \in {"accepted", "suggested", "hidden"} : SetStatus(w, t, s)
             \/ \E u \in Topics : MergeTopics(w, t, u)
             \/ \E cs \in SUBSET MapCards : SplitTopic(w, t, cs)
             \/ \E k \in MapCards : SetPrimary(w, k, t)
       \/ \E cs \in SUBSET MapCards : SuggestTopics(w, cs)

Transaction(w) ==
    \/ WriteRow(w) \/ ListTopics(w) \/ Rehome(w) \/ DropTopic(w) \/ ClearSuggested(w)
    \/ \E t \in Topics : InsertTopic(w, t) \/ Renumber(w, t) \/ AddSuggestion(w, t)
    \/ \E k \in MapCards : PlaceCard(w, k) \/ FileCard(w, k)

TopicNext ==
    \/ \E w \in Planners : BeginRequest(w) \/ Transaction(w) \/ StopRequest(w)
    \/ EnsureUnsorted
    \/ \E k \in MapCards : SwitchCard(k) \/ PurgeMembership(k)

----------------------------------------------------------------------------

\* Whatever requests overlap, a card has at most one primary topic.  And until
\* one of them writes over what another did since it had read (crossed), the
\* rows are a forest and no card is in a topic that is gone, whatever is moved,
\* merged, split or deleted and wherever a request stops: the checks before a
\* write are enough as long as what they looked at still stands.
TopicsSound ==
    /\ \A k \in MapCards : Cardinality(Placement(k)) <= 1
    /\ ~crossed => /\ \A t \in Topics : There(t) => t \notin Ancestors(t)
                   /\ \A m \in placed : There(m[1])

\* Rearranging the map loses no card until a request is crossed: one that is
\* placed in a topic that is not a mere suggestion stays placed.
CardsStayPlaced ==
    \/ crossed'
    \/ \A k \in cards : \A m \in Placement(k) :
          topic[m[1]].status # "suggested" =>
             \E n \in placed' : n[2] = k /\ n[3] = "accepted"
=============================================================================
