--------------------------- MODULE MCConceptGraph ---------------------------
(***************************************************************************)
(* A course with two accepted Concepts and a candidate that says that a is *)
(* a prerequisite of b.  ("related", b, a) is only ever asked for: it is    *)
(* stored with its endpoints in order.                                     *)
(***************************************************************************)
EXTENDS ConceptGraphPublication

CONSTANTS a, b, k1, k2, p1, p2

ConceptsDef == {a, b}
BeforeDef(x, y) == x = a /\ y = b
Rel(type, s, t) == [type |-> type, source |-> s, target |-> t]
RelationsDef ==
    {Rel("prerequisite", a, b), Rel("prerequisite", b, a),
     Rel("related", a, b), Rel("related", b, a)}
GroundsDef == {{k1}}
Item(chunk, role) == [chunk |-> chunk, role |-> role]
SupportsDef ==
    {[basis |-> "pedagogical_inference",
      items |-> {Item(k2, "source_endpoint"), Item(k1, "target_endpoint")}]}
LimitsDef == [concepts |-> 3, relations |-> 2, conceptEvidence |-> 3, relationEvidence |-> 4]

First == Rel("prerequisite", a, b)

\* Revision 1 of a and b created, revision 2 accepted.
InitDraft ==
    LET created(k) == NewConcept({[chunk |-> k, generation |-> 1]})
        history(k) == <<created(k), Reviewed(created(k), 1, "accept")>> IN
    /\ concepts = [x \in ConceptsDef |->
                     IF x = a THEN history(k1) ELSE history(k2)]
    /\ relations = [r \in RelationsDef |->
                     IF r = First
                       THEN <<NewRelation("source_asserted",
                                {[chunk |-> k1, role |-> "relation_assertion",
                                  generation |-> 1]}, 2, 2)>>
                       ELSE <<>>]
    /\ receipts = {Receipt("concept_create", a, 0, 1), Receipt("concept_review", a, 1, 2),
                   Receipt("concept_create", b, 0, 1), Receipt("concept_review", b, 1, 2),
                   Receipt("relation_create", First, 0, 1)}
    /\ chunks = [k \in Chunks |-> [generation |-> 1, live |-> TRUE]]
    /\ courseDeleted = FALSE

PublisherSymmetry == Permutations(Publishers)

GraphInit == InitDraft /\ InitPublication

GraphSpec == GraphInit /\ [][Next]_vars
=============================================================================
