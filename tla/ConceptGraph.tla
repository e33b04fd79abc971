---------------------------- MODULE ConceptGraph ----------------------------
(***************************************************************************)
(* The Concept graph draft of one course                                   *)
(* (backend/app/concept_graph_store.py, concept_graph_service.py).         *)
(*                                                                         *)
(* Concepts and relations are append-only sequences of revisions; the last *)
(* one is the head.  Every mutation is one BEGIN IMMEDIATE transaction: it *)
(* looks for the receipt of its operation id, checks the revisions the     *)
(* caller expects, appends a revision, makes the incident relations stale, *)
(* and records a receipt.                                                  *)
(*                                                                         *)
(* Names, definitions, aliases and rationales are left out: a revision's   *)
(* number stands for its wording.  An evidence item is the chunk it quotes *)
(* and the generation of that chunk's source projection; a chunk stands    *)
(* for its source.  An operation id stands for one request: sent again it  *)
(* finds its receipt, sent with another request it is refused, and neither *)
(* changes anything, so only the first execution of a request is a step.   *)
(***************************************************************************)
EXTENDS Naturals, Sequences, FiniteSets, SequencesExt

CONSTANTS Concepts,     \* Concept identities, named before they are created
          Relations,    \* relation identities: [type, source, target]
          Symmetric,    \* SYMMETRIC_RELATION_TYPES
          Before(_, _), \* the order of Concept ids
          Chunks,       \* chunks that can be quoted
          Grounds,      \* sets of chunks an author quotes for a Concept
          Supports,     \* [basis, items]: what an author sends for a relation
          None,         \* absent
          MaxEvents     \* bound: revisions, and changes of the Sources, in all

ASSUME GraphAssumption ==
    /\ IsFiniteSet(Concepts) /\ IsFiniteSet(Relations)
    /\ \A r \in Relations : /\ r = [type |-> r.type, source |-> r.source, target |-> r.target]
                            /\ r.source \in Concepts /\ r.target \in Concepts
    /\ \A c, d \in Concepts : Before(c, d) => ~Before(d, c)
    /\ None \notin Concepts \cup Relations
    /\ \A ground \in Grounds : ground \subseteq Chunks /\ IsFiniteSet(ground)
    /\ \A support \in Supports :
          /\ support.basis \in {"source_asserted", "pedagogical_inference"}
          /\ IsFiniteSet(support.items)
          /\ support.items \subseteq
                [chunk : Chunks, role : {"relation_assertion", "source_endpoint", "target_endpoint"}]
    /\ MaxEvents \in Nat

VARIABLES concepts,   \* Concept -> its revisions
          relations,  \* relation -> its revisions
          receipts,   \* concept_graph_operations
          chunks,     \* chunk -> [generation, live]: what a Source serves
          courseDeleted

draftVars == <<concepts, relations, receipts>>
sourceVars == <<chunks, courseDeleted>>
graphVars == <<concepts, relations, receipts, chunks, courseDeleted>>

Created(c) == concepts[c] # <<>>
Known(r) == relations[r] # <<>>

----------------------------------------------------------------------------
(* Evidence.                                                               *)

\* _require_grounding_chunk: active chunk, Source ready, its root and the
\* course not in the Trash.
Groundable(chunk) == ~courseDeleted /\ chunks[chunk].live

Snapshot(chunk) == [chunk |-> chunk, generation |-> chunks[chunk].generation]

ProjectionIsCurrent(item) ==
    /\ Groundable(item.chunk)
    /\ item.generation = chunks[item.chunk].generation

AllCurrent(evidence) ==
    evidence # {} /\ \A item \in evidence : ProjectionIsCurrent(item)

Fingerprint(item) == [chunk |-> item.chunk, generation |-> item.generation]

\* _require_relation_support
Supported(basis, evidence, endpointEvidence) ==
    LET roles == {item.role : item \in evidence} IN
    IF basis = "source_asserted" THEN roles = {"relation_assertion"}
    ELSE /\ roles = {"source_endpoint", "target_endpoint"}
         /\ \A item \in evidence : Fingerprint(item) \in endpointEvidence[item.role]

EndpointEvidence(r) ==
    [role \in {"source_endpoint", "target_endpoint"} |->
        Last(concepts[IF role = "source_endpoint" THEN r.source ELSE r.target]).evidence]

\* canonicalize_relation_endpoints and _canonicalize_endpoint_evidence_roles:
\* a symmetric relation is stored with its endpoints in order.
Canonical(r) ==
    IF r.type \in Symmetric /\ Before(r.target, r.source)
      THEN [r EXCEPT !.source = r.target, !.target = r.source] ELSE r

SwappedRole(role) ==
    CASE role = "source_endpoint" -> "target_endpoint"
      [] role = "target_endpoint" -> "source_endpoint"
      [] OTHER -> role

CanonicalItems(r, items) ==
    IF Canonical(r) = r THEN items
    ELSE {[item EXCEPT !.role = SwappedRole(item.role)] : item \in items}

----------------------------------------------------------------------------
(* Rows a mutation writes.                                                 *)

NewConcept(evidence) ==
    [identity |-> "active", into |-> None, review |-> "candidate",
     validity |-> "current", evidence |-> evidence,
     reviewRevision |-> 0]

NewRelation(basis, evidence, source, target) ==
    [basis |-> basis, review |-> "candidate", validity |-> "current",
     evidence |-> evidence, source |-> source, target |-> target,
     reviewRevision |-> 0]

Reviewed(head, n, decision) ==
    [head EXCEPT !.review = IF decision = "accept" THEN "accepted" ELSE "rejected",
                 !.reviewRevision = n]

\* Mutant: an edit leaves the relations of the Concept as they are.
RelationsKept(c) == relations

\* _stale_incident_relations: a new stale revision, and no receipt for it.
StaleIncident(c) ==
    [r \in Relations |->
        IF /\ Known(r) /\ c \in {r.source, r.target}
           /\ Last(relations[r]).validity = "current"
          THEN Append(relations[r], [Last(relations[r]) EXCEPT !.validity = "stale"])
          ELSE relations[r]]

Receipt(kind, entity, expected, revision) ==
    [kind |-> kind, entity |-> entity, expected |-> expected, revision |-> revision]

Events ==
    Cardinality(UNION {{<<c, i>> : i \in DOMAIN concepts[c]} : c \in Concepts})
      + Cardinality(UNION {{<<r, i>> : i \in DOMAIN relations[r]} : r \in Relations})
      + Cardinality(UNION {{<<k, g>> : g \in 2..chunks[k].generation} : k \in Chunks})
      + Cardinality({k \in Chunks : ~chunks[k].live})
      + IF courseDeleted THEN 1 ELSE 0

\* The service looks at the course before the transaction, and the store does
\* not look again: a request admitted earlier may still change the draft of a
\* course that has gone to the Trash since.
Admitted == Events < MaxEvents

AppendConcept(c, kind, expected, row) ==
    /\ concepts' = [concepts EXCEPT ![c] = Append(@, row)]
    /\ receipts' = receipts \cup {Receipt(kind, c, expected, Len(concepts[c]) + 1)}

AppendRelation(r, kind, expected, row) ==
    /\ relations' = [relations EXCEPT ![r] = Append(@, row)]
    /\ receipts' = receipts \cup {Receipt(kind, r, expected, Len(relations[r]) + 1)}

----------------------------------------------------------------------------
(* Concepts.                                                               *)

\* _require_expected_revision
IsHead(expected, revisions) == expected = Len(revisions)

Active(c, expected) ==
    /\ Created(c) /\ IsHead(expected, concepts[c])
    /\ Last(concepts[c]).identity = "active"

CreateConcept(c, ground) ==
    /\ ~Created(c)
    /\ \A chunk \in ground : Groundable(chunk)
    /\ AppendConcept(c, "concept_create", 0, NewConcept({Snapshot(k) : k \in ground}))
    /\ UNCHANGED <<relations, sourceVars>>

EditConcept(c, expected, ground) ==
    /\ Active(c, expected)
    /\ \A chunk \in ground : Groundable(chunk)
    /\ AppendConcept(c, "concept_edit", expected,
                     NewConcept({Snapshot(k) : k \in ground}))
    /\ relations' = StaleIncident(c)
    /\ UNCHANGED sourceVars

ReviewConcept(c, expected, decision) ==
    /\ Active(c, expected)
    /\ Last(concepts[c]).review = "candidate"
    /\ decision = "accept" =>
         /\ Last(concepts[c]).validity = "current"
         /\ AllCurrent(Last(concepts[c]).evidence)
    /\ AppendConcept(c, "concept_review", expected,
                     Reviewed(Last(concepts[c]), Len(concepts[c]), decision))
    /\ relations' = StaleIncident(c)
    /\ UNCHANGED sourceVars

MarkConceptStale(c, expected) ==
    /\ Active(c, expected)
    /\ Last(concepts[c]).validity = "current"
    /\ AppendConcept(c, "concept_mark_stale", expected,
                     [Last(concepts[c]) EXCEPT !.validity = "stale"])
    /\ relations' = StaleIncident(c)
    /\ UNCHANGED sourceVars

\* _require_no_incoming_merge_redirects
NoIncomingRedirects(c) ==
    \A d \in Concepts : Created(d) =>
        ~(Last(concepts[d]).identity = "merged" /\ Last(concepts[d]).into = c)

MergeConcept(c, expected, survivor, expectedSurvivor) ==
    /\ Active(c, expected)
    /\ c # survivor /\ Active(survivor, expectedSurvivor)
    /\ NoIncomingRedirects(c)
    /\ AppendConcept(c, "concept_merge", expected,
                     [Last(concepts[c]) EXCEPT !.identity = "merged", !.into = survivor])
    /\ relations' = StaleIncident(c)
    /\ UNCHANGED sourceVars

RetireConcept(c, expected) ==
    /\ Active(c, expected)
    /\ NoIncomingRedirects(c)
    /\ AppendConcept(c, "concept_retire", expected,
                     [Last(concepts[c]) EXCEPT !.identity = "retired", !.into = None])
    /\ relations' = StaleIncident(c)
    /\ UNCHANGED sourceVars

----------------------------------------------------------------------------
(* Relations.                                                              *)

\* _require_relation_endpoints, _require_expected_relation_endpoints
Endpoint(c, accepted) ==
    /\ Created(c)
    /\ Last(concepts[c]).identity = "active"
    /\ Last(concepts[c]).validity = "current"
    /\ Last(concepts[c]).review # "rejected"
    /\ accepted => Last(concepts[c]).review = "accepted"
    /\ AllCurrent(Last(concepts[c]).evidence)

ExpectedEndpoints(r, source, target, accepted) ==
    /\ IsHead(source, concepts[r.source]) /\ IsHead(target, concepts[r.target])
    /\ Endpoint(r.source, accepted) /\ Endpoint(r.target, accepted)

Grounded(items) ==
    {[role |-> item.role, chunk |-> item.chunk,
      generation |-> Snapshot(item.chunk).generation] : item \in items}

\* The support as it was sent for `sent`, and stored for its canonical form.
CreateRelation(sent, support) ==
    LET r == Canonical(sent)
        evidence == Grounded(CanonicalItems(sent, support.items)) IN
    /\ sent.source # sent.target /\ r \in Relations /\ ~Known(r)
    /\ Endpoint(r.source, FALSE) /\ Endpoint(r.target, FALSE)
    /\ \A item \in support.items : Groundable(item.chunk)
    /\ Supported(support.basis, evidence, EndpointEvidence(r))
    /\ AppendRelation(r, "relation_create", 0,
                      NewRelation(support.basis, evidence,
                                  Len(concepts[r.source]), Len(concepts[r.target])))
    /\ UNCHANGED <<concepts, sourceVars>>

EditRelation(r, expected, source, target, support) ==
    /\ Known(r) /\ IsHead(expected, relations[r])
    /\ ExpectedEndpoints(r, source, target, FALSE)
    /\ \A item \in support.items : Groundable(item.chunk)
    /\ Supported(support.basis, Grounded(support.items), EndpointEvidence(r))
    /\ AppendRelation(r, "relation_edit", expected,
                      NewRelation(support.basis, Grounded(support.items), source, target))
    /\ UNCHANGED <<concepts, sourceVars>>

InForce(r) ==
    /\ Known(r)
    /\ Last(relations[r]).review = "accepted" /\ Last(relations[r]).validity = "current"

\* The nodes a traversal from `start` visits, edge by edge.
Reached(start, edges) ==
    LET visit[n \in Nat] ==
            IF n = 0 THEN {start}
            ELSE LET before == visit[n - 1] IN
                 before \cup {e[2] : e \in {e \in edges : e[1] \in before}}
    IN visit[Cardinality(Concepts)]

PrerequisiteEdges(rs) ==
    {<<r.source, r.target>> : r \in {r \in rs : r.type = "prerequisite"}}

\* Mutant: the traversal starts at the wrong end.
NoCycleFromSource(r) ==
    r.target \notin Reached(r.source,
        PrerequisiteEdges({s \in Relations \ {r} : InForce(s)}))

\* _require_no_prerequisite_cycle
NoPrerequisiteCycle(r) ==
    r.source \notin Reached(r.target,
        PrerequisiteEdges({s \in Relations \ {r} : InForce(s)}))

AcceptableRelation(r, source, target) ==
    /\ ExpectedEndpoints(r, source, target, TRUE)
    /\ Last(relations[r]).validity = "current"
    /\ AllCurrent(Last(relations[r]).evidence)
    /\ Supported(Last(relations[r]).basis, Last(relations[r]).evidence, EndpointEvidence(r))
    /\ r.type = "prerequisite" => NoPrerequisiteCycle(r)

\* The reviewed candidate is bound to the endpoint revisions the reviewer saw.
BoundTo(r, source, target) ==
    Last(relations[r]).source = source /\ Last(relations[r]).target = target

ReviewRelation(r, expected, source, target, decision) ==
    /\ Known(r) /\ IsHead(expected, relations[r])
    /\ Last(relations[r]).review = "candidate"
    /\ BoundTo(r, source, target)
    /\ decision = "accept" => AcceptableRelation(r, source, target)
    /\ AppendRelation(r, "relation_review", expected,
                      Reviewed(Last(relations[r]), Len(relations[r]), decision))
    /\ UNCHANGED <<concepts, sourceVars>>

MarkRelationStale(r, expected) ==
    /\ Known(r) /\ IsHead(expected, relations[r])
    /\ Last(relations[r]).validity = "current"
    /\ AppendRelation(r, "relation_mark_stale", expected,
                      [Last(relations[r]) EXCEPT !.validity = "stale"])
    /\ UNCHANGED <<concepts, sourceVars>>

----------------------------------------------------------------------------
(* What the rest of the program does to the ground the graph stands on.    *)

\* A Source is read again: new generation, and for a while nothing is served.
Regenerate(chunk) ==
    /\ ~courseDeleted /\ Events < MaxEvents
    /\ chunks' = [chunks EXCEPT ![chunk].generation = @ + 1]
    /\ UNCHANGED <<draftVars, courseDeleted>>

\* Its root goes to the Trash or comes back.
SwitchSource(chunk) ==
    /\ ~courseDeleted /\ (chunks[chunk].live => Events < MaxEvents)
    /\ chunks' = [chunks EXCEPT ![chunk].live = ~@]
    /\ UNCHANGED <<draftVars, courseDeleted>>

SwitchCourse ==
    /\ ~courseDeleted => Events < MaxEvents
    /\ courseDeleted' = ~courseDeleted
    /\ UNCHANGED <<draftVars, chunks>>

Decisions == {"accept", "reject"}

ConceptStep(c, expected) ==
    \/ \E ground \in Grounds : EditConcept(c, expected, ground)
    \/ \E decision \in Decisions : ReviewConcept(c, expected, decision)
    \/ MarkConceptStale(c, expected)
    \/ \E d \in Concepts : \E survivor \in DOMAIN concepts[d] :
          MergeConcept(c, expected, d, survivor)
    \/ RetireConcept(c, expected)

RelationStep(r, expected) ==
    \/ \E source \in DOMAIN concepts[r.source], target \in DOMAIN concepts[r.target] :
         \/ \E support \in Supports : EditRelation(r, expected, source, target, support)
         \/ \E decision \in Decisions :
               ReviewRelation(r, expected, source, target, decision)
    \/ MarkRelationStale(r, expected)

\* A caller may name any revision it has seen.
DraftStep ==
    /\ Admitted
    /\ \/ \E c \in Concepts :
            \/ \E ground \in Grounds : CreateConcept(c, ground)
            \/ \E expected \in DOMAIN concepts[c] : ConceptStep(c, expected)
       \/ \E r \in Relations :
            \/ \E support \in Supports : CreateRelation(r, support)
            \/ \E expected \in DOMAIN relations[r] : RelationStep(r, expected)

SourceStep ==
    \/ \E chunk \in Chunks : Regenerate(chunk) \/ SwitchSource(chunk)
    \/ SwitchCourse
=============================================================================
