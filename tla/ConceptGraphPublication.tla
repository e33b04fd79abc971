----------------------- MODULE ConceptGraphPublication -----------------------
(***************************************************************************)
(* Published versions of a Concept graph                                   *)
(* (backend/app/concept_graph_publication_store.py, the publication and    *)
(* path services, and the triggers of migrations.py that seal a version).  *)
(*                                                                         *)
(* A publisher previews the draft and asks to publish the manifest it saw  *)
(* over the version it saw active.  Publishing is one BEGIN IMMEDIATE      *)
(* transaction; a failure at any point in it leaves nothing.  Hashes are   *)
(* the values they are computed from.                                      *)
(***************************************************************************)
EXTENDS ConceptGraph

CONSTANTS Publishers,
          Limits,      \* MAX_CONCEPTS, MAX_RELATIONS, MAX_..._EVIDENCE
          MaxVersions  \* bound: published versions

ASSUME PublicationAssumption ==
    /\ \A l \in {Limits.concepts, Limits.relations,
                 Limits.conceptEvidence, Limits.relationEvidence} : l \in Nat
    /\ MaxVersions \in Nat

VARIABLES versions,  \* concept_graph_versions, by version number
          children,  \* rows of the concept_graph_version_* tables
          active,    \* concept_graph_version_heads, 0 when there is none
          published, \* concept_graph_publication_operations
          previews   \* publisher -> what it last saw and asks to publish

versionVars == <<versions, children, active, published>>
publicationVars == <<versions, children, active, published, previews>>
vars == <<graphVars, publicationVars>>

----------------------------------------------------------------------------
(* The draft: heads that are active, accepted and current.                 *)

Included(c) ==
    /\ Created(c)
    /\ Last(concepts[c]).identity = "active"
    /\ Last(concepts[c]).review = "accepted"
    /\ Last(concepts[c]).validity = "current"

DraftConceptIds == {c \in Concepts : Included(c)}
DraftRelationIds == {r \in Relations : InForce(r)}

\* _load_current_review_receipts
ReviewReceipts(kind, entity, revision) ==
    receipts \cap {Receipt(kind, entity, expected, revision) : expected \in 0..revision}

DraftConcept(c) ==
    [id |-> c, revision |-> Len(concepts[c]), evidence |-> Last(concepts[c]).evidence,
     reviewRevision |-> Last(concepts[c]).reviewRevision,
     receipts |-> ReviewReceipts("concept_review", c, Len(concepts[c]))]

DraftRelation(r) ==
    LET head == Last(relations[r]) IN
    [id |-> r, revision |-> Len(relations[r]), evidence |-> head.evidence,
     basis |-> head.basis, source |-> head.source, target |-> head.target,
     reviewRevision |-> head.reviewRevision,
     receipts |-> ReviewReceipts("relation_review", r, Len(relations[r]))]

Issue(code, entity) == [code |-> code, entity |-> entity]
IssueIf(cond, code, entity) == IF cond THEN {Issue(code, entity)} ELSE {}

\* _resolve_review_receipt
ReceiptIssues(item) ==
    CASE item.receipts = {} -> {Issue("review_receipt_missing", item.id)}
      [] Cardinality(item.receipts) > 1 -> {Issue("review_receipt_ambiguous", item.id)}
      [] OTHER -> IssueIf(item.reviewRevision # item.revision - 1,
                          "review_receipt_mismatch", item.id)

\* _evidence_values_are_current, a second implementation of the same judgement.
EvidenceIsCurrent(item) ==
    /\ ~courseDeleted /\ chunks[item.chunk].live
    /\ item.generation = chunks[item.chunk].generation

\* Mutant: the preview trusts the evidence as it was when it was reviewed.
MissingEvidenceIssues(item, kind) ==
    IssueIf(item.evidence = {}, kind \o "_evidence_missing", item.id)

EvidenceIssues(item, kind) ==
    IssueIf(\E e \in item.evidence : ~EvidenceIsCurrent(e),
            IF kind = "concept" THEN "concept_evidence_not_current"
            ELSE "relation_evidence_not_current", item.id)
      \cup IssueIf(item.evidence = {}, kind \o "_evidence_missing", item.id)

\* _validate_relation
EndpointIssues(item, c, bound, label) ==
    IF ~Included(c)
      THEN {Issue(label \o "_endpoint_not_publishable", item.id)}
      ELSE IssueIf(bound # Len(concepts[c]), label \o "_revision_mismatch", item.id)

RelationIssues(item) ==
    LET roles == {e.role : e \in item.evidence} IN
    IssueIf(item.id.source = item.id.target \/ Canonical(item.id) # item.id,
            "relation_identity_noncanonical", item.id)
      \cup EndpointIssues(item, item.id.source, item.source, "source")
      \cup EndpointIssues(item, item.id.target, item.target, "target")
      \cup IF item.basis = "source_asserted"
             THEN IssueIf(roles # {"relation_assertion"},
                          "relation_support_role_invalid", item.id)
             ELSE IssueIf(roles # {"source_endpoint", "target_endpoint"},
                          "relation_support_role_invalid", item.id)
                    \cup IssueIf(\E e \in item.evidence :
                                    /\ e.role # "relation_assertion"
                                    /\ Fingerprint(e) \notin EndpointEvidence(item.id)[e.role],
                                 "relation_endpoint_evidence_mismatch", item.id)

\* _has_directed_cycle, by removing the nodes nothing in the rest points to.
HasCycle(nodes, edges) ==
    LET rest[n \in Nat] ==
            IF n = 0 THEN nodes
            ELSE LET left == rest[n - 1] IN
                 {x \in left : \E y \in left : <<y, x>> \in edges}
    IN rest[Cardinality(nodes)] # {}

Content == [concepts  |-> {DraftConcept(c) : c \in DraftConceptIds},
            relations |-> {DraftRelation(r) : r \in DraftRelationIds}]

DraftIssues(content) ==
    (UNION {ReceiptIssues(i) \cup EvidenceIssues(i, "concept") : i \in content.concepts})
      \cup (UNION {ReceiptIssues(i) \cup EvidenceIssues(i, "relation") \cup RelationIssues(i)
                     : i \in content.relations})
      \cup IssueIf(content.concepts = {}, "concept_set_empty", None)
      \cup IssueIf(HasCycle(DraftConceptIds, PrerequisiteEdges(DraftRelationIds)),
                   "prerequisite_cycle", None)

\* _load_endpoint_heads: the heads relations end in, publishable or not.
EndpointHeads ==
    {[id |-> c, revision |-> Len(concepts[c]), identity |-> Last(concepts[c]).identity,
      review |-> Last(concepts[c]).review, validity |-> Last(concepts[c]).validity]
        : c \in UNION {{r.source, r.target} : r \in DraftRelationIds}}

Manifest ==
    LET content == Content IN
    [content |-> content, heads |-> EndpointHeads, issues |-> DraftIssues(content)]

EvidenceCount(items) ==
    Cardinality(UNION {{<<i.id, i.revision, e>> : e \in i.evidence} : i \in items})

Counts(content) ==
    [concepts |-> Cardinality(content.concepts),
     relations |-> Cardinality(content.relations),
     conceptEvidence |-> EvidenceCount(content.concepts),
     relationEvidence |-> EvidenceCount(content.relations)]

\* _enforce_draft_bounds, and the limits a version is verified against.
WithinLimits(counts) == \A f \in DOMAIN counts : counts[f] <= Limits[f]

----------------------------------------------------------------------------
(* The stored version.                                                     *)

\* _insert_snapshot_children: one row per Concept, relation and evidence item.
Children(n, content) ==
    LET Row(type, item) ==
            [version |-> n, type |-> type, row |-> [item EXCEPT !.evidence = {}]]
        EvidenceRow(type, item, e) ==
            [version |-> n, type |-> type, owner |-> item.id,
             revision |-> item.revision, row |-> e]
    IN {Row("concept", i) : i \in content.concepts}
         \cup {Row("relation", i) : i \in content.relations}
         \cup (UNION {{EvidenceRow("concept_evidence", i, e) : e \in i.evidence}
                        : i \in content.concepts})
         \cup (UNION {{EvidenceRow("relation_evidence", i, e) : e \in i.evidence}
                        : i \in content.relations})

RowsOf(rows, n, type) == {x \in rows : x.version = n /\ x.type = type}

EvidenceOf(rows, n, type, item) ==
    {x.row : x \in {x \in RowsOf(rows, n, type) :
                      x.owner = item.id /\ x.revision = item.revision}}

\* _load_snapshot_content
StoredContent(rows, n) ==
    [concepts |-> {[x.row EXCEPT !.evidence =
                       EvidenceOf(rows, n, "concept_evidence", x.row)]
                     : x \in RowsOf(rows, n, "concept")},
     relations |-> {[x.row EXCEPT !.evidence =
                       EvidenceOf(rows, n, "relation_evidence", x.row)]
                     : x \in RowsOf(rows, n, "relation")}]

\* The triggers.  Children come before their version is sealed.
NotSealed(n) == n \notin DOMAIN versions

\* The parent of a seal is the active version; the first has none.
SealParent(n, parent) == IF n = 1 THEN active = 0 ELSE parent = active /\ parent # 0

SealCounts(n, counts, rows) ==
    counts = [concepts |-> Cardinality(RowsOf(rows, n, "concept")),
              relations |-> Cardinality(RowsOf(rows, n, "relation")),
              conceptEvidence |-> Cardinality(RowsOf(rows, n, "concept_evidence")),
              relationEvidence |-> Cardinality(RowsOf(rows, n, "relation_evidence"))]

SealEvidence(n, rows) ==
    /\ \A x \in RowsOf(rows, n, "concept") :
          EvidenceOf(rows, n, "concept_evidence", x.row) # {}
    /\ \A x \in RowsOf(rows, n, "relation") :
          EvidenceOf(rows, n, "relation_evidence", x.row) # {}

HeadAdvances(n) == IF active = 0 THEN n = 1 ELSE n = active + 1

SealAccepts(n, parent, counts, rows) ==
    /\ NotSealed(n) /\ SealParent(n, parent) /\ HeadAdvances(n)
    /\ SealCounts(n, counts, rows) /\ SealEvidence(n, rows)

\* _verify_version_snapshot
Verified(rows, n, version) ==
    LET stored == StoredContent(rows, n) IN
    /\ WithinLimits(version.counts)
    /\ Counts(stored) = version.counts /\ stored = version.content

\* _source_authority_by_versions: all published evidence still resolves.
SourceAuthorityCurrent(rows, n) ==
    \A x \in RowsOf(rows, n, "concept_evidence") \cup RowsOf(rows, n, "relation_evidence") :
        EvidenceIsCurrent(x.row)

\* _load_authoritative_snapshot: paths are served from the active version only
\* while its evidence is current.
PathsServed(n) ==
    /\ ~courseDeleted /\ n = active /\ active # 0
    /\ Verified(children, n, versions[n])
    /\ SourceAuthorityCurrent(children, n)

----------------------------------------------------------------------------
InitPublication ==
    /\ versions = <<>> /\ children = {} /\ active = 0 /\ published = {}
    /\ previews = [p \in {} |-> 0]

Preview(p) ==
    LET manifest == Manifest IN
    /\ ~courseDeleted /\ WithinLimits(Counts(manifest.content))
    /\ previews' = [q \in DOMAIN previews \cup {p} |->
                      IF q = p THEN [active |-> active, manifest |-> manifest]
                      ELSE previews[q]]
    /\ UNCHANGED <<graphVars, versionVars>>

\* The id of the operation: a publisher asks once over each version it saw.
Operation(p) == [publisher |-> p, active |-> previews[p].active]

Replayed(p) == \E receipt \in published : receipt.operation = Operation(p)

\* Mutant: only the active version is compared.
ActiveAsPreviewed(p, manifest) == previews[p].active = active

\* The version that is active and the draft are those of the preview.
AsPreviewed(p, manifest) ==
    /\ previews[p].active = active
    /\ previews[p].manifest = manifest

\* Mutant: a draft that changed nothing is published again.
PublishableAgain(manifest) ==
    manifest.issues = {} /\ manifest.content.concepts # {}

Publishable(manifest) ==
    /\ manifest.issues = {} /\ manifest.content.concepts # {}
    /\ active # 0 => versions[active].content # manifest.content

Version(manifest) ==
    [parent |-> active, content |-> manifest.content,
     counts |-> Counts(manifest.content)]

PublishVersion(p) ==
    LET n == active + 1
        manifest == Manifest
        rows == children \cup Children(n, manifest.content)
    IN
    /\ n <= MaxVersions
    /\ ~courseDeleted /\ p \in DOMAIN previews /\ ~Replayed(p)
    /\ AsPreviewed(p, manifest)
    /\ WithinLimits(Counts(manifest.content)) /\ Publishable(manifest)
    /\ SealAccepts(n, active, Counts(manifest.content), rows)
    /\ Verified(rows, n, Version(manifest))
    /\ children' = rows
    /\ versions' = Append(versions, Version(manifest))
    /\ active' = n
    /\ published' = published \cup {[operation |-> Operation(p), version |-> n]}
    /\ UNCHANGED <<graphVars, previews>>

PublicationStep == \E p \in Publishers : Preview(p) \/ PublishVersion(p)

\* A course begins with no draft, over whatever Sources it has.
Init ==
    /\ concepts = [c \in Concepts |-> <<>>] /\ relations = [r \in Relations |-> <<>>]
    /\ receipts = {} /\ courseDeleted = FALSE
    /\ chunks \in [Chunks -> [generation : Nat \ {0}, live : BOOLEAN]]
    /\ InitPublication

Next ==
    \/ (DraftStep \/ SourceStep) /\ UNCHANGED publicationVars
    \/ PublicationStep

Spec == Init /\ [][Next]_vars

----------------------------------------------------------------------------
(* Properties.                                                             *)

\* _decorate_concept, _decorate_relation: what the editor shows as ready to be
\* published.
EligibleConcept(c) == Included(c) /\ AllCurrent(Last(concepts[c]).evidence)

EligibleRelation(r) ==
    LET head == Last(relations[r]) IN
    /\ InForce(r) /\ AllCurrent(head.evidence)
    /\ {e.role : e \in head.evidence} =
         IF head.basis = "source_asserted" THEN {"relation_assertion"}
         ELSE {"source_endpoint", "target_endpoint"}
    /\ BoundTo(r, Len(concepts[r.source]), Len(concepts[r.target]))
    /\ EligibleConcept(r.source) /\ EligibleConcept(r.target)

\* Types: every head exists, the active version is the last one.
GraphTypeOK ==
    /\ \A c \in Concepts : \A i \in DOMAIN concepts[c] :
          /\ concepts[c][i].identity \in {"active", "merged", "retired"}
          /\ concepts[c][i].review \in {"candidate", "accepted", "rejected"}
          /\ concepts[c][i].validity \in {"current", "stale"}
    /\ active = Len(versions)

\* The publication gate finds nothing wrong with an accepted draft except what
\* the Sources did to it: every accepted head has the one receipt of its review,
\* every accepted relation is bound to the Concepts as they are, and the seal
\* of a publishable draft is accepted.  The relations an edit invalidates are
\* made stale by another entity's transaction (_stale_incident_relations).  The
\* editor's own view of what is ready says the same as the gate.
DraftCoherent ==
    LET manifest == Manifest IN
    /\ \A issue \in manifest.issues :
          issue.code \in {"concept_evidence_not_current",
                          "relation_evidence_not_current", "concept_set_empty"}
    /\ Publishable(manifest) =>
          SealAccepts(active + 1, active, Counts(manifest.content),
                      children \cup Children(active + 1, manifest.content))
    /\ manifest.issues = {} <=>
          /\ DraftConceptIds # {}
          /\ \A c \in DraftConceptIds : EligibleConcept(c)
          /\ \A r \in DraftRelationIds : EligibleRelation(r)
    /\ \A receipt \in receipts : receipt.revision = receipt.expected + 1

\* Accepted prerequisites in force never form a cycle, although each is
\* accepted on its own; and a merged Concept leads to one that is active,
\* whatever is merged or retired afterwards.
GraphSound ==
    /\ GraphTypeOK
    /\ ~HasCycle(Concepts, PrerequisiteEdges(DraftRelationIds))
    /\ \A c \in Concepts : Created(c) /\ Last(concepts[c]).identity = "merged" =>
          Last(concepts[Last(concepts[c]).into]).identity = "active"

\* The draft says what its rows, its Sources and its receipts say.
DraftSound == DraftCoherent /\ GraphSound

\* _build_index accepts every version: what traversal of an old or the active
\* version relies on.
Indexable(content) ==
    LET ids == {i.id : i \in content.concepts} IN
    /\ \A i, j \in content.concepts : i.id = j.id => i = j
    /\ \A i, j \in content.relations : i.id = j.id => i = j
    /\ \A i \in content.relations :
          /\ Canonical(i.id) = i.id /\ {i.id.source, i.id.target} \subseteq ids
          /\ \A c \in content.concepts :
                /\ c.id = i.id.source => c.revision = i.source
                /\ c.id = i.id.target => c.revision = i.target
    /\ ~HasCycle(ids, PrerequisiteEdges({i.id : i \in content.relations}))

\* Every version can be rebuilt from its rows, whatever happened to the draft
\* and however many versions came after; it follows the one before it, and the
\* path engine can index it.
VersionSound ==
    \A n \in DOMAIN versions :
        /\ Verified(children, n, versions[n])
        /\ versions[n].parent = n - 1
        /\ Indexable(versions[n].content)
        /\ n > 1 => versions[n].content # versions[n - 1].content

\* A version just published is one paths are served from: its evidence was
\* current in the transaction that published it, not only in the preview.
PublishedIsServed ==
    [][active' # active => PathsServed(active)']_vars

Pending(p) == p \in DOMAIN previews /\ ~Replayed(p)

\* Publication implements the history of seen graphs.
Log == INSTANCE PublicationLog WITH
    history <- [n \in DOMAIN versions |-> versions[n].content],
    seen <- [p \in {p \in Publishers : Pending(p)} |->
               [base |-> previews[p].active, graph |-> previews[p].manifest.content]]

PublishesWhatWasSeen == Log!Spec

\* What is published is what was seen, and is served.
PublicationSafe == PublishesWhatWasSeen /\ PublishedIsServed
=============================================================================
