------------------------------- MODULE StudyCards -------------------------------
(***************************************************************************)
(* The saved cards of one video job and the rows that hang on them:        *)
(* embeddings, notes, review items with their progress and events, and the *)
(* relations between cards (backend/app/knowledge_card_store.py,           *)
(* card_relation_store.py, card_relation_service.py, card_embedding_store  *)
(* .py, knowledge_card_note_store.py, review_item_store.py, review_store   *)
(* .py and their services).                                                *)
(*                                                                         *)
(* The endpoints run in threads and take no lock: a request is a step that *)
(* reads and later steps that write, one per transaction, and it may stop  *)
(* at any of them.  Content, scores and schedules are left out.            *)
(***************************************************************************)
EXTENDS Naturals, FiniteSets

CONSTANTS StudyIds,      \* cards
          Pairs,         \* the ordered pairs of cards that may be related
          RelationTypes,
          Similar,       \* semantic_similarity, the type of the computed ones
          Callers,       \* requests under way at a time
          MaxInserts,    \* bound: transactions that insert relations
          MaxRows        \* bound: rows besides the cards

ASSUME StudyAssumption == /\ Pairs \subseteq StudyIds \X StudyIds
                          /\ Similar \in RelationTypes
                          /\ {MaxInserts, MaxRows} \subseteq Nat

VARIABLES shelf,     \* the cards: "live", "trash" or "gone"
          attached,  \* rows of a card: its kind, card, and whether it came late
          relation,  \* card_relations
          inserts,
          caller     \* per request: what it has read and what is left to write

studyVars == <<shelf, attached, relation, inserts, caller>>

Nobody == [at |-> "idle"]

StudyInit == /\ shelf = [c \in StudyIds |-> "live"]
             /\ attached = {}
             /\ relation = {}
             /\ inserts = 0
             /\ caller = [w \in Callers |-> Nobody]

OnShelf(c) == shelf[c] = "live"
Has(kind, c) == \E row \in attached : row.kind = kind /\ row.card = c

\* A row written for a card, or for a review item, that is no longer there.
Late(kind, c) == \/ shelf[c] = "gone"
                 \/ kind \in {"progress", "event"} /\ ~Has("item", c)
Attached(kind, c) ==
    {row \in attached : ~(row.kind = kind /\ row.card = c)}
        \cup {[kind |-> kind, card |-> c, late |-> Late(kind, c)]}

Identity(r) == <<r.pair, r.type, r.method>>
Known(identity) == \E r \in relation : Identity(r) = identity
Relation(identity, status) ==
    [id |-> <<identity, inserts>>, pair |-> identity[1], type |-> identity[2],
     method |-> identity[3], status |-> status,
     late |-> \E i \in {1, 2} : shelf[identity[1][i]] = "gone"]

Room == Cardinality(attached) < MaxRows

Idle(w) == caller[w] = Nobody
Waits(w, place) == caller[w].at = place
Holds(w, request) == caller' = [caller EXCEPT ![w] = request]
Ends(w) == Holds(w, Nobody)

----------------------------------------------------------------------------
(* Cards: the Trash and the purge, each one transaction.                   *)

DeleteCards(cs) ==
    /\ \E c \in cs : shelf[c] = "live"
    /\ shelf' = [c \in StudyIds |->
                   IF c \in cs /\ shelf[c] = "live" THEN "trash" ELSE shelf[c]]
    /\ UNCHANGED <<attached, relation, inserts, caller>>

RestoreCard(c) ==
    /\ shelf[c] = "trash"
    /\ shelf' = [shelf EXCEPT ![c] = "live"]
    /\ UNCHANGED <<attached, relation, inserts, caller>>

SourcesOnly(cs) ==                   \* the rows where a purged card is the target stay
    {r \in relation : r.pair[1] \notin cs}

Unrelated(cs) == {r \in relation : r.pair[1] \notin cs /\ r.pair[2] \notin cs}

\* Progress and events are found through the items that are there.
GoesWith(row, cs) == /\ row.card \in cs
                   /\ row.kind \in {"progress", "event"} => Has("item", row.card)

PurgeHanging(cs) ==
    /\ cs # {}
    /\ shelf' = [c \in StudyIds |-> IF c \in cs THEN "gone" ELSE shelf[c]]
    /\ attached' = {row \in attached : ~GoesWith(row, cs)}
    /\ UNCHANGED <<inserts, caller>>

\* Rows are chosen by the cards that are there: what was written late for a
\* card that had gone stays.
PurgeCards(cs) == PurgeHanging(cs) /\ relation' = Unrelated(cs)

Remaining == {c \in StudyIds : shelf[c] # "gone"}

PurgeCard(c) == shelf[c] = "trash" /\ PurgeCards({c})

\* The purge of the job takes live cards too, that of its course every relation.
PurgeJobCards == PurgeCards(Remaining)
PurgeCourseCards == PurgeHanging(Remaining) /\ relation' = {}

----------------------------------------------------------------------------
(* Rows of one card: the card is looked up, then the row is written.       *)

BeginAttach(w, kind, c) ==
    /\ Idle(w) /\ OnShelf(c) /\ Room
    /\ Holds(w, [at |-> "attach", kind |-> kind, card |-> c])
    /\ UNCHANGED <<shelf, attached, relation, inserts>>

Attach(w) ==
    /\ Waits(w, "attach")
    /\ attached' = Attached(caller[w].kind, caller[w].card)
    /\ Ends(w)
    /\ UNCHANGED <<shelf, relation, inserts>>

DeleteNote(c) ==
    /\ Has("note", c)
    /\ attached' = {row \in attached : ~(row.kind = "note" /\ row.card = c)}
    /\ UNCHANGED <<shelf, relation, inserts, caller>>

ItemRows == {"item", "progress"}     \* the events are forgotten
ReviewRows == {"item", "progress", "event"}

DeleteItem(c) ==
    /\ Has("item", c)
    /\ attached' = {row \in attached : ~(row.kind \in ReviewRows /\ row.card = c)}
    /\ UNCHANGED <<shelf, relation, inserts, caller>>

\* rate_review_item: the item, then the first progress, the new progress and
\* the event, each in its own transaction.  The card is not looked at.
BeginRating(w, c) ==
    /\ Idle(w) /\ Has("item", c) /\ Room
    /\ Holds(w, [at |-> "progress", card |-> c])
    /\ UNCHANGED <<shelf, attached, relation, inserts>>

WriteProgress(w) ==
    /\ Waits(w, "progress")
    /\ attached' = Attached("progress", caller[w].card)
    /\ \/ Holds(w, caller[w])
       \/ Holds(w, [caller[w] EXCEPT !.at = "event"])
    /\ UNCHANGED <<shelf, relation, inserts>>

WriteEvent(w) ==
    /\ Waits(w, "event")
    /\ attached' = Attached("event", caller[w].card)
    /\ Ends(w)
    /\ UNCHANGED <<shelf, relation, inserts>>

----------------------------------------------------------------------------
(* Relations between cards.                                                *)

Inserting == inserts < MaxInserts /\ inserts' = inserts + 1

\* The pairs the vectors of live cards make; how similar they are decides.
Candidates == {p \in Pairs : \A i \in {1, 2} : OnShelf(p[i]) /\ Has("vector", p[i])}

BeginRecompute(w) ==
    /\ Idle(w)
    /\ \E found \in SUBSET Candidates :
          Holds(w, [at |-> "recompute", found |-> found])
    /\ UNCHANGED <<shelf, attached, relation, inserts>>

ReplacedMutant(r) ==                 \* the decisions are replaced as well
    r.type = Similar /\ r.method = "cosine_similarity"

Replaced(r) == /\ r.type = Similar /\ r.method = "cosine_similarity"
               /\ r.status = "suggested"

\* replace_suggested_relations_for_course: a decided row stops the insert.
ReplaceSuggested(w) ==
    /\ Waits(w, "recompute")
    /\ Inserting
    /\ LET kept == {r \in relation : ~Replaced(r)}
           new == {<<p, Similar, "cosine_similarity">> : p \in caller[w].found}
       IN relation' = kept \cup
             {Relation(i, "suggested") : i \in new \ {Identity(r) : r \in kept}}
    /\ Ends(w)
    /\ UNCHANGED <<shelf, attached>>

BeginManual(w, p, type) ==
    /\ Idle(w) /\ OnShelf(p[1]) /\ OnShelf(p[2])
    /\ Holds(w, [at |-> "manual", identity |-> <<p, type, "manual">>])
    /\ UNCHANGED <<shelf, attached, relation, inserts>>

CreateManual(w, status) ==
    /\ Waits(w, "manual")
    /\ ~Known(caller[w].identity)
    /\ Inserting
    /\ relation' = relation \cup {Relation(caller[w].identity, status)}
    /\ Ends(w)
    /\ UNCHANGED <<shelf, attached>>

\* classify_saved_card_relation: the row is read, the model asked, the
\* suggestion written, and the row read at first written back as hidden.
BeginClassify(w, r) ==
    /\ Idle(w) /\ OnShelf(r.pair[1]) /\ OnShelf(r.pair[2])
    /\ Holds(w, [at |-> "classify", row |-> r])
    /\ UNCHANGED <<shelf, attached, relation, inserts>>

\* upsert_card_relations: a suggested row keeps its place, a decided one too.
SaveClassified(w, type) ==
    LET identity == <<caller[w].row.pair, type, "local_llm">> IN
    /\ Waits(w, "classify")
    /\ type # Similar
    /\ Inserting
    /\ relation' = IF Known(identity) THEN relation
                   ELSE relation \cup {Relation(identity, "suggested")}
    /\ IF caller[w].row.method = "cosine_similarity"
       THEN Holds(w, [at |-> "hide", row |-> [caller[w].row EXCEPT !.status = "hidden"]])
       ELSE Ends(w)
    /\ UNCHANGED <<shelf, attached>>

\* update_saved_card_relation: any of type, explanation and status.
BeginPatch(w, r, type, status) ==
    /\ Idle(w)
    /\ type = r.type \/ status = r.status   \* bound: one field at a time
    /\ Holds(w, [at |-> "write", row |-> [r EXCEPT !.type = type, !.status = status]])
    /\ UNCHANGED <<shelf, attached, relation, inserts>>

\* update_card_relation, by id: a row that is gone is not written, one that
\* would repeat an identity is refused.  A patch ("write") and classification
\* ("hide") write every field they had read, over what was decided meanwhile.
WriteRelation(w) ==
    /\ Waits(w, "write") \/ Waits(w, "hide")
    /\ \A r \in relation :
          r.id # caller[w].row.id => Identity(r) # Identity(caller[w].row)
    /\ relation' = {IF r.id = caller[w].row.id
                    THEN [caller[w].row EXCEPT !.late = r.late] ELSE r : r \in relation}
    /\ Ends(w)
    /\ UNCHANGED <<shelf, attached, inserts>>

DeleteRelation(r) ==
    /\ relation' = relation \ {r}
    /\ UNCHANGED <<shelf, attached, inserts, caller>>

\* An error, a refused write, an answer that says unclear, or a stop.
GiveUp(w) == /\ ~Idle(w) /\ Ends(w)
             /\ UNCHANGED <<shelf, attached, relation, inserts>>

\* What a request asks for; "hidden", which classification writes, is decided too.
RelationStatuses == {"suggested", "accepted"}

RequestStep(w) ==
    \/ \E c \in StudyIds, kind \in {"vector", "note", "item"} : BeginAttach(w, kind, c)
    \/ \E c \in StudyIds : BeginRating(w, c)
    \/ \E p \in Pairs, type \in RelationTypes : BeginManual(w, p, type)
    \/ \E r \in relation : BeginClassify(w, r)
    \/ \E r \in relation, type \in RelationTypes, status \in RelationStatuses :
          BeginPatch(w, r, type, status)
    \/ Attach(w) \/ WriteProgress(w) \/ WriteEvent(w)
    \/ BeginRecompute(w) \/ ReplaceSuggested(w)
    \/ \E status \in RelationStatuses : CreateManual(w, status)
    \/ \E type \in RelationTypes : SaveClassified(w, type)
    \/ WriteRelation(w) \/ GiveUp(w)

StudyNext ==
    \/ \E w \in Callers : RequestStep(w)
    \/ \E cs \in {{c} : c \in StudyIds} \cup {StudyIds} : DeleteCards(cs)
    \/ \E c \in StudyIds :
          RestoreCard(c) \/ PurgeCard(c) \/ DeleteNote(c) \/ DeleteItem(c)
    \/ \E r \in relation : DeleteRelation(r)
    \/ PurgeJobCards \/ PurgeCourseCards

----------------------------------------------------------------------------

\* What a purge or the deletion of a review item leaves behind was written
\* afterwards, by a request that had looked before.
CascadeComplete ==
    /\ \A row \in attached : ~row.late =>
          /\ shelf[row.card] # "gone"
          /\ row.kind \in {"progress", "event"} => Has("item", row.card)
    /\ \A r \in relation : ~r.late => \A i \in {1, 2} : shelf[r.pair[i]] # "gone"

\* Recomputing or suggesting relations never touches a decided one: it ends
\* with its deletion, the purge of one of its cards or of the course, and by a
\* request that writes the row back which it had read.  A patch may leave it
\* anything, even the status it had read before the decision.  Classification
\* does overwrite a decision, one made while its model ran too, but with
\* "hidden", never so that the row is a suggestion again.
DecisionKept ==
    \A r \in relation :
       r.status # "suggested" /\ r \notin relation' =>
          \/ \E w \in Callers : Waits(w, "write") /\ caller[w].row.id = r.id
                                /\ caller'[w] = Nobody
          \/ /\ \E w \in Callers : Waits(w, "hide") /\ caller[w].row.id = r.id
             /\ \E q \in relation' : q.id = r.id /\ q.status = "hidden"
          \/ relation' = relation \ {r}
          \/ \E i \in {1, 2} : shelf'[r.pair[i]] = "gone" /\ shelf[r.pair[i]] # "gone"
          \/ PurgeCourseCards
=============================================================================
