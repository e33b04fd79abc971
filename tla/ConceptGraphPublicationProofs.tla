------------------- MODULE ConceptGraphPublicationProofs -------------------
(***************************************************************************)
(* Proofs about ConceptGraphPublication, for any Concepts, relations,      *)
(* chunks, publishers and limits.                                          *)
(***************************************************************************)
EXTENDS ConceptGraphPublication, SequenceTheorems, FiniteSetTheorems,
        WellFoundedInduction, TLAPS

----------------------------------------------------------------------------
(***************************************************************************)
(* The rows of a version.                                                  *)
(***************************************************************************)

\* The rows of a new version are its own, and the evidence rows among them
\* are evidence of the draft it was taken from.
LEMMA NewRows ==
    ASSUME NEW n, NEW content
    PROVE  /\ \A x \in Children(n, content) : x.version = n
           /\ \A x \in Children(n, content) :
                x.type = "concept_evidence" =>
                   \E i \in content.concepts : x.row \in i.evidence
           /\ \A x \in Children(n, content) :
                x.type = "relation_evidence" =>
                   \E i \in content.relations : x.row \in i.evidence
<1> DEFINE Bare(item) == [item EXCEPT !.evidence = {}]
           Own(type, items) == {[version |-> n, type |-> type, row |-> Bare(i)] : i \in items}
           Cites(type, i) == {[version |-> n, type |-> type, owner |-> i.id,
                               revision |-> i.revision, row |-> e] : e \in i.evidence}
<1>1. Children(n, content) =
        Own("concept", content.concepts) \cup Own("relation", content.relations)
          \cup (UNION {Cites("concept_evidence", i) : i \in content.concepts})
          \cup (UNION {Cites("relation_evidence", i) : i \in content.relations})
  BY DEF Children
<1> HIDE DEF Bare
<1>2. ASSUME NEW type, NEW items, NEW x \in Own(type, items)
      PROVE  x.version = n /\ x.type = type
  OBVIOUS
<1>3. ASSUME NEW type, NEW i, NEW x \in Cites(type, i)
      PROVE  x.version = n /\ x.type = type /\ x.row \in i.evidence
  OBVIOUS
<1> HIDE DEF Own, Cites
<1> SUFFICES ASSUME NEW x \in Children(n, content)
             PROVE  /\ x.version = n
                    /\ x.type = "concept_evidence" =>
                          \E i \in content.concepts : x.row \in i.evidence
                    /\ x.type = "relation_evidence" =>
                          \E i \in content.relations : x.row \in i.evidence
  OBVIOUS
<1>4. CASE x \in Own("concept", content.concepts)
  BY <1>2, <1>4
<1>5. CASE x \in Own("relation", content.relations)
  BY <1>2, <1>5
<1>6. CASE x \in UNION {Cites("concept_evidence", i) : i \in content.concepts}
  <2>1. PICK i \in content.concepts : x \in Cites("concept_evidence", i)
    BY <1>6
  <2> QED
    BY <2>1, <1>3
<1>7. CASE x \in UNION {Cites("relation_evidence", i) : i \in content.relations}
  <2>1. PICK i \in content.relations : x \in Cites("relation_evidence", i)
    BY <1>7
  <2> QED
    BY <2>1, <1>3
<1>8. \/ x \in Own("concept", content.concepts)
      \/ x \in Own("relation", content.relations)
      \/ x \in UNION {Cites("concept_evidence", i) : i \in content.concepts}
      \/ x \in UNION {Cites("relation_evidence", i) : i \in content.relations}
  BY <1>1
<1> QED
  BY <1>4, <1>5, <1>6, <1>7, <1>8

\* The rows of the other versions stay as they are.
LEMMA OldContent ==
    ASSUME NEW n, NEW m, m # n, NEW content
    PROVE  LET rows == children \cup Children(n, content) IN
           /\ \A type : RowsOf(rows, m, type) = RowsOf(children, m, type)
           /\ StoredContent(rows, m) = StoredContent(children, m)
           /\ \A v : Verified(rows, m, v) <=> Verified(children, m, v)
<1> DEFINE rows == children \cup Children(n, content)
<1>1. ASSUME NEW type
      PROVE  RowsOf(rows, m, type) = RowsOf(children, m, type)
  BY NewRows DEF RowsOf
<1> HIDE DEF rows
<1>2. ASSUME NEW type, NEW item
      PROVE  EvidenceOf(rows, m, type, item) = EvidenceOf(children, m, type, item)
  BY <1>1 DEF EvidenceOf
<1>3. StoredContent(rows, m) = StoredContent(children, m)
  <2> DEFINE Whole(x, evidence) == [x.row EXCEPT !.evidence = evidence]
             Items(s, type, cited) ==
                {Whole(x, EvidenceOf(s, m, cited, x.row)) : x \in RowsOf(s, m, type)}
  <2>1. \A s : StoredContent(s, m) =
                [concepts |-> Items(s, "concept", "concept_evidence"),
                 relations |-> Items(s, "relation", "relation_evidence")]
    BY DEF StoredContent
  <2> HIDE DEF Whole
  <2>2. ASSUME NEW type, NEW cited
        PROVE  Items(rows, type, cited) = Items(children, type, cited)
    BY <1>1, <1>2
  <2> HIDE DEF Items
  <2> QED
    BY <2>1, <2>2
<1>4. \A v : Verified(rows, m, v) <=> Verified(children, m, v)
  BY <1>3 DEF Verified
<1> QED
  BY <1>1, <1>3, <1>4 DEF rows

----------------------------------------------------------------------------
(***************************************************************************)
(* The gate.                                                               *)
(***************************************************************************)

LEMMA NoIssue == ASSUME NEW cond, NEW code, NEW entity, IssueIf(cond, code, entity) = {}
                 PROVE  ~cond
BY DEF IssueIf

\* The identities in the content of a draft.
LEMMA ContentIds ==
    /\ {i.id : i \in Content.concepts} = DraftConceptIds
    /\ {i.id : i \in Content.relations} = DraftRelationIds
    /\ \A i \in Content.concepts : i.id \in DraftConceptIds /\ i = DraftConcept(i.id)
    /\ \A i \in Content.relations : i.id \in DraftRelationIds /\ i = DraftRelation(i.id)
<1>1. /\ \A c : DraftConcept(c).id = c
      /\ \A r : DraftRelation(r).id = r
  BY DEF DraftConcept, DraftRelation
<1>2. /\ Content.concepts = {DraftConcept(c) : c \in DraftConceptIds}
      /\ Content.relations = {DraftRelation(r) : r \in DraftRelationIds}
  BY DEF Content
<1> HIDE DEF DraftConcept, DraftRelation, Content
<1> QED
  BY <1>1, <1>2

\* A draft in which the gate finds no issue can be indexed by the path engine,
\* and all its evidence is current.
LEMMA CleanDraft ==
    ASSUME DraftIssues(Content) = {}
    PROVE  /\ Indexable(Content)
           /\ \A i \in Content.concepts \cup Content.relations :
                 \A e \in i.evidence : EvidenceIsCurrent(e)
<1>1. /\ \A i \in Content.concepts : EvidenceIssues(i, "concept") = {}
      /\ \A i \in Content.relations : EvidenceIssues(i, "relation") = {}
      /\ \A i \in Content.relations : RelationIssues(i) = {}
      /\ IssueIf(HasCycle(DraftConceptIds, PrerequisiteEdges(DraftRelationIds)),
                 "prerequisite_cycle", None) = {}
  <2> DEFINE C(i) == ReceiptIssues(i) \cup EvidenceIssues(i, "concept")
             R(i) == ReceiptIssues(i) \cup EvidenceIssues(i, "relation")
                       \cup RelationIssues(i)
             OfConcepts == UNION {C(i) : i \in Content.concepts}
             OfRelations == UNION {R(i) : i \in Content.relations}
             Empty == IssueIf(Content.concepts = {}, "concept_set_empty", None)
             Cycle == IssueIf(HasCycle(DraftConceptIds, PrerequisiteEdges(DraftRelationIds)),
                              "prerequisite_cycle", None)
  <2>1. OfConcepts = {} /\ OfRelations = {} /\ Cycle = {}
    <3>1. DraftIssues(Content) = OfConcepts \cup OfRelations \cup Empty \cup Cycle
      BY DEF DraftIssues
    <3> HIDE DEF OfConcepts, OfRelations, Empty, Cycle
    <3> QED
      BY <3>1
  <2> HIDE DEF C, R
  <2>2. /\ \A i \in Content.concepts : C(i) = {}
        /\ \A i \in Content.relations : R(i) = {}
    BY <2>1
  <2> HIDE DEF OfConcepts, OfRelations, Cycle
  <2>3. /\ \A i : C(i) = {} => EvidenceIssues(i, "concept") = {}
        /\ \A i : R(i) = {} => EvidenceIssues(i, "relation") = {} /\ RelationIssues(i) = {}
    BY DEF C, R
  <2> QED
    BY <2>1, <2>2, <2>3 DEF Cycle
<1>2. \A i, kind : EvidenceIssues(i, kind) = {} => \A e \in i.evidence : EvidenceIsCurrent(e)
  BY NoIssue DEF EvidenceIssues
<1>3. ASSUME NEW i, RelationIssues(i) = {}
      PROVE  /\ Canonical(i.id) = i.id
             /\ Included(i.id.source) /\ i.source = Len(concepts[i.id.source])
             /\ Included(i.id.target) /\ i.target = Len(concepts[i.id.target])
  <2>1. /\ IssueIf(i.id.source = i.id.target \/ Canonical(i.id) # i.id,
                   "relation_identity_noncanonical", i.id) = {}
        /\ EndpointIssues(i, i.id.source, i.source, "source") = {}
        /\ EndpointIssues(i, i.id.target, i.target, "target") = {}
    BY <1>3 DEF RelationIssues
  <2>2. ASSUME NEW c, NEW bound, NEW label, EndpointIssues(i, c, bound, label) = {}
        PROVE  Included(c) /\ bound = Len(concepts[c])
    BY <2>2, NoIssue DEF EndpointIssues
  <2> QED
    BY <2>1, <2>2, NoIssue
<1>4. ASSUME NEW i \in Content.relations
      PROVE  /\ Canonical(i.id) = i.id
             /\ {i.id.source, i.id.target} \subseteq {c.id : c \in Content.concepts}
             /\ \A c \in Content.concepts :
                   /\ c.id = i.id.source => c.revision = i.source
                   /\ c.id = i.id.target => c.revision = i.target
  <2>1. /\ Canonical(i.id) = i.id
        /\ Included(i.id.source) /\ i.source = Len(concepts[i.id.source])
        /\ Included(i.id.target) /\ i.target = Len(concepts[i.id.target])
    BY <1>1, <1>3
  <2>2. i.id \in Relations
    BY ContentIds DEF DraftRelationIds
  <2>3. i.id.source \in DraftConceptIds /\ i.id.target \in DraftConceptIds
    BY <2>1, <2>2, GraphAssumption DEF DraftConceptIds
  <2>4. \A c \in Content.concepts : c.revision = Len(concepts[c.id])
    BY ContentIds DEF DraftConcept
  <2> QED
    BY <2>1, <2>3, <2>4, ContentIds
<1>5. ~HasCycle({i.id : i \in Content.concepts},
                PrerequisiteEdges({i.id : i \in Content.relations}))
  BY <1>1, NoIssue, ContentIds
<1>6. /\ \A i, j \in Content.concepts : i.id = j.id => i = j
      /\ \A i, j \in Content.relations : i.id = j.id => i = j
  BY ContentIds
<1>7. Indexable(Content)
  BY <1>4, <1>5, <1>6 DEF Indexable
<1> QED
  BY <1>1, <1>2, <1>7

----------------------------------------------------------------------------
(***************************************************************************)
(* The inductive invariant.  VersionSound alone is not inductive: that the *)
(* next version has no rows yet, and that an operation that published was  *)
(* over an earlier version, is what a publish step needs.                  *)
(***************************************************************************)

PublicationInv ==
    /\ \E S : versions \in Seq(S)
    /\ active = Len(versions)
    /\ \A x \in children : x.version \in 1..active
    /\ \A x \in published : x.operation.active \in 0..active - 1
    /\ VersionSound

\* What a publish step writes.
LEMMA PublishWrites ==
    ASSUME PublicationInv, NEW p \in Publishers, PublishVersion(p)
    PROVE  /\ active \in Nat /\ active' = active + 1
           /\ versions' = Append(versions, Version(Manifest))
           /\ \E S : versions' \in Seq(S)
           /\ Len(versions') = active + 1 /\ DOMAIN versions' = 1..active + 1
           /\ DOMAIN versions = 1..active
           /\ \A m \in 1..active : versions'[m] = versions[m]
           /\ versions'[active + 1] = Version(Manifest)
           /\ children' = children \cup Children(active + 1, Content)
           /\ DraftIssues(Content) = {} /\ Manifest.content = Content
<1>1. PICK S : versions \in Seq(S)
  BY DEF PublicationInv
<1>2. /\ active' = active + 1
      /\ versions' = Append(versions, Version(Manifest))
      /\ children' = children \cup Children(active + 1, Manifest.content)
      /\ Manifest.issues = {}
  BY DEF PublishVersion, Publishable
<1>3. Manifest.content = Content /\ Manifest.issues = DraftIssues(Content)
  BY DEF Manifest
<1> DEFINE v == Version(Manifest)
<1> HIDE DEF v
<1>4. versions \in Seq(S \cup {v}) /\ v \in S \cup {v}
  BY <1>1
<1>5. versions' = Append(versions, v)
  BY <1>2 DEF v
<1>6. /\ versions' \in Seq(S \cup {v}) /\ Len(versions') = Len(versions) + 1
      /\ \A m \in 1..Len(versions) : versions'[m] = versions[m]
      /\ versions'[Len(versions) + 1] = v
      /\ DOMAIN versions' = 1..Len(versions) + 1 /\ DOMAIN versions = 1..Len(versions)
      /\ Len(versions) \in Nat
  BY <1>4, <1>5, AppendProperties
<1> QED
  BY <1>2, <1>3, <1>6 DEF PublicationInv, v

\* The new version is the one its transaction verified; the rows of the old
\* ones are not touched.
LEMMA PublishInv ==
    ASSUME PublicationInv, NEW p \in Publishers, PublishVersion(p)
    PROVE  PublicationInv'
<1> DEFINE n == active + 1
<1>0. /\ active \in Nat /\ active' = n /\ (\E S : versions' \in Seq(S)) /\ active' = Len(versions')
      /\ DOMAIN versions' = 1..n /\ DOMAIN versions = 1..active
      /\ \A m \in 1..active : versions'[m] = versions[m]
      /\ versions'[n] = Version(Manifest)
      /\ children' = children \cup Children(n, Content)
      /\ DraftIssues(Content) = {} /\ Manifest.content = Content
  BY PublishWrites
<1>1. \A x \in children' : x.version \in 1..active'
  BY <1>0, NewRows DEF PublicationInv
<1>2. \A x \in published' : x.operation.active \in 0..active' - 1
  <2>1. previews[p].active = active
    BY DEF PublishVersion, AsPreviewed
  <2>2. published' = published \cup {[operation |-> Operation(p), version |-> n]}
    BY DEF PublishVersion
  <2> QED
    BY <1>0, <2>1, <2>2 DEF PublicationInv, Operation
<1>3. ASSUME NEW m \in 1..active
      PROVE  /\ Verified(children', m, versions'[m])
             /\ versions'[m].parent = m - 1
             /\ Indexable(versions'[m].content)
             /\ m > 1 => versions'[m].content # versions'[m - 1].content
  <2>1. m # n /\ m \in DOMAIN versions /\ (m > 1 => m - 1 \in 1..active)
    BY <1>0
  <2>2. Verified(children', m, versions[m])
    BY <1>0, <2>1, OldContent DEF PublicationInv, VersionSound
  <2> QED
    BY <1>0, <2>1, <2>2 DEF PublicationInv, VersionSound
<1>4. /\ Verified(children', n, versions'[n])
      /\ versions'[n].parent = n - 1
      /\ Indexable(versions'[n].content)
      /\ n > 1 => versions'[n].content # versions'[n - 1].content
  <2>1. /\ Verified(children', n, Version(Manifest))
        /\ active # 0 => versions[active].content # Manifest.content
    BY <1>0 DEF PublishVersion, Publishable
  <2>2. Version(Manifest).parent = active /\ Version(Manifest).content = Content
    BY <1>0 DEF Version
  <2>3. Indexable(Content)
    BY <1>0, CleanDraft
  <2>4. n > 1 => active # 0 /\ n - 1 = active /\ versions'[n - 1] = versions[active]
    BY <1>0
  <2> QED
    BY <1>0, <2>1, <2>2, <2>3, <2>4
<1>5. VersionSound'
  <2>1. DOMAIN versions' = 1..active \cup {n}
    BY <1>0
  <2> HIDE DEF n
  <2>2. \A m \in DOMAIN versions' :
            /\ Verified(children', m, versions'[m])
            /\ versions'[m].parent = m - 1
            /\ Indexable(versions'[m].content)
            /\ m > 1 => versions'[m].content # versions'[m - 1].content
    BY <1>3, <1>4, <2>1
  <2> QED
    BY <2>2 DEF VersionSound
<1> QED
  BY <1>0, <1>1, <1>2, <1>5 DEF PublicationInv

LEMMA PublicationStepInv ==
    ASSUME PublicationInv, [Next]_vars
    PROVE  PublicationInv'
<1>1. CASE UNCHANGED <<versions, children, active, published>>
  BY <1>1 DEF PublicationInv, VersionSound
<1>2. \/ UNCHANGED <<versions, children, active, published>>
      \/ \E p \in Publishers : PublishVersion(p)
  BY DEF Next, PublicationStep, Preview, publicationVars, versionVars, vars
<1> QED
  BY <1>1, <1>2, PublishInv

LEMMA PublicationInitInv == ASSUME InitPublication PROVE PublicationInv
<1>1. versions \in Seq({}) /\ Len(versions) = 0 /\ DOMAIN versions = {}
  BY DEF InitPublication
<1> QED
  BY <1>1 DEF InitPublication, PublicationInv, VersionSound

\* Every published version can be rebuilt from its rows, follows the one before
\* it and can be indexed, for ever.
THEOREM VersionsStaySound == Spec => []VersionSound
<1>1. Init => PublicationInv
  BY PublicationInitInv DEF Init
<1>2. PublicationInv /\ [Next]_vars => PublicationInv'
  BY PublicationStepInv
<1>3. PublicationInv => VersionSound
  BY DEF PublicationInv
<1> QED
  BY <1>1, <1>2, <1>3, PTL DEF Spec

----------------------------------------------------------------------------
(***************************************************************************)
(* A version just published is one paths are served from.                  *)
(***************************************************************************)

\* The evidence rows of the new version are those of the draft the gate passed.
LEMMA PublishServes ==
    ASSUME PublicationInv, NEW p \in Publishers, PublishVersion(p)
    PROVE  PathsServed(active)'
<1> DEFINE n == active + 1
<1>1. /\ active \in Nat /\ active' = n
      /\ versions'[n] = Version(Manifest)
      /\ children' = children \cup Children(n, Content)
      /\ DraftIssues(Content) = {} /\ Manifest.content = Content
  BY PublishWrites
<1>2. /\ ~courseDeleted /\ UNCHANGED <<courseDeleted, chunks>>
      /\ Verified(children', n, Version(Manifest))
  BY <1>1 DEF PublishVersion, graphVars
<1>3. ASSUME NEW x \in children', x.version = n,
             x.type \in {"concept_evidence", "relation_evidence"}
      PROVE  EvidenceIsCurrent(x.row)
  <2>1. x \in Children(n, Content)
    BY <1>1, <1>3 DEF PublicationInv
  <2>2. PICK i \in Content.concepts \cup Content.relations : x.row \in i.evidence
    BY <2>1, <1>3, NewRows
  <2> QED
    BY <1>1, <2>2, CleanDraft
<1>4. \A e : EvidenceIsCurrent(e)' <=> EvidenceIsCurrent(e)
  BY <1>2 DEF EvidenceIsCurrent
<1>5. SourceAuthorityCurrent(children, active)'
  <2>1. \A x \in RowsOf(children', n, "concept_evidence")
                   \cup RowsOf(children', n, "relation_evidence") : EvidenceIsCurrent(x.row)'
    BY <1>3, <1>4 DEF RowsOf
  <2> QED
    BY <1>1, <2>1 DEF SourceAuthorityCurrent
<1>6. Verified(children', active', versions'[active'])
  BY <1>1, <1>2
<1>7. ~courseDeleted' /\ active' # 0
  BY <1>1, <1>2
<1> QED
  BY <1>5, <1>6, <1>7 DEF PathsServed

\* Only publishing moves the active version.
LEMMA ActiveMoves ==
    ASSUME [Next]_vars
    PROVE  \/ UNCHANGED versionVars /\ UNCHANGED previews
           \/ \E p \in Publishers : Preview(p)
           \/ \E p \in Publishers : PublishVersion(p)
BY DEF Next, PublicationStep, publicationVars, versionVars, vars

\* Every publication leaves an active version that paths are served from.
THEOREM PublishedStaysServed == Spec => PublishedIsServed
<1>1. Init => PublicationInv
  BY PublicationInitInv DEF Init
<1>2. PublicationInv /\ [Next]_vars => PublicationInv'
  BY PublicationStepInv
<1>3. PublicationInv /\ [Next]_vars => [active' # active => PathsServed(active)']_vars
  <2> SUFFICES ASSUME PublicationInv, [Next]_vars, active' # active
               PROVE  PathsServed(active)'
    OBVIOUS
  <2> QED
    BY ActiveMoves, PublishServes DEF Preview, versionVars
<1> QED
  BY <1>1, <1>2, <1>3, PTL DEF Spec, PublishedIsServed

----------------------------------------------------------------------------
(***************************************************************************)
(* Publication implements the history of seen graphs.                      *)
(***************************************************************************)

History == [n \in DOMAIN versions |-> versions[n].content]

Waiting == {p \in Publishers : Pending(p)}

Seen == [p \in Waiting |-> [base |-> previews[p].active,
                            graph |-> previews[p].manifest.content]]

\* The history is a sequence as long as the active version's number.
LEMMA HistoryIsSeq ==
    ASSUME PublicationInv
    PROVE  active \in Nat /\ Len(History) = active /\ \E S : History \in Seq(S)
<1>1. PICK S : versions \in Seq(S)
  BY DEF PublicationInv
<1>2. /\ active \in Nat /\ DOMAIN versions = 1..active
  BY <1>1 DEF PublicationInv
<1> DEFINE T == {versions[n].content : n \in 1..active}
<1>3. History \in [1..active -> T]
  BY <1>2 DEF History
<1> HIDE DEF T
<1>4. History \in Seq(T)
  BY <1>2, <1>3, SeqDef
<1>5. Len(History) = active
  BY <1>2, <1>3, <1>4, LenProperties
<1> QED
  BY <1>2, <1>4, <1>5

\* A publisher that looks has not published over what it sees now.
LEMMA PreviewLooks ==
    ASSUME PublicationInv, NEW p \in Publishers, Preview(p)
    PROVE  Log!Look(p)
<1>1. /\ previews' = [q \in DOMAIN previews \cup {p} |->
                        IF q = p THEN [active |-> active, manifest |-> Manifest]
                        ELSE previews[q]]
      /\ UNCHANGED versionVars
  BY DEF Preview
<1>2. UNCHANGED <<versions, published, active>>
  BY <1>1 DEF versionVars
<1>3. /\ DOMAIN previews' = DOMAIN previews \cup {p}
      /\ previews'[p].active = active
      /\ \A q \in DOMAIN previews \ {p} : previews'[q] = previews[q]
  BY <1>1
<1>4. Pending(p)'
  <2>1. \A x \in published : x.operation # [publisher |-> p, active |-> active]
    BY HistoryIsSeq DEF PublicationInv
  <2> QED
    BY <1>2, <1>3, <2>1 DEF Pending, Replayed, Operation
<1>5. \A q \in Publishers \ {p} : Pending(q)' <=> Pending(q)
  BY <1>2, <1>3 DEF Pending, Replayed, Operation
<1>6. Waiting' = Waiting \cup {p}
  BY <1>4, <1>5 DEF Waiting
<1>7. Seen'[p].base = Len(History)
  BY <1>2, <1>3, <1>6, HistoryIsSeq DEF Seen
<1>8. ASSUME NEW q \in Waiting \ {p}
      PROVE  Seen'[q] = Seen[q]
  BY <1>3, <1>6 DEF Seen, Waiting, Pending
<1>9. History' = History
  BY <1>2 DEF History
<1>10. DOMAIN Seen = Waiting /\ DOMAIN Seen' = Waiting'
  BY DEF Seen
<1> QED
  BY <1>6, <1>7, <1>8, <1>9, <1>10 DEF Log!Look, Log!Only, History, Seen, Waiting

\* What is published is what its publisher looked at, once.
LEMMA PublishAppends ==
    ASSUME PublicationInv, NEW p \in Publishers, PublishVersion(p)
    PROVE  Log!Publish(p)
<1> DEFINE n == active + 1
           graph == previews[p].manifest.content
<1>1. /\ active \in Nat
      /\ DOMAIN versions' = 1..n /\ DOMAIN versions = 1..active
      /\ \A m \in 1..active : versions'[m] = versions[m]
      /\ versions'[n] = Version(Manifest)
  BY PublishWrites
<1>2. /\ p \in DOMAIN previews /\ ~Replayed(p)
      /\ previews[p].active = active /\ previews[p].manifest = Manifest
      /\ published' = published \cup {[operation |-> Operation(p), version |-> n]}
      /\ previews' = previews
  BY DEF PublishVersion, AsPreviewed
<1>3. Pending(p) /\ ~Pending(p)'
  <2>1. Operation(p)' = Operation(p)
    BY <1>2 DEF Operation
  <2> DEFINE receipt == [operation |-> Operation(p), version |-> n]
  <2>2. receipt \in published' /\ receipt.operation = Operation(p)'
    BY <1>2, <2>1
  <2> QED
    BY <1>2, <2>2 DEF Pending, Replayed
<1>4. ASSUME NEW q \in Publishers \ {p}
      PROVE  Pending(q)' <=> Pending(q)
  <2>1. Operation(q)' = Operation(q) /\ Operation(q) # Operation(p)
    BY <1>2 DEF Operation
  <2> QED
    BY <1>2, <2>1 DEF Pending, Replayed
<1>5. Waiting' = Waiting \ {p} /\ p \in Waiting
  BY <1>3, <1>4 DEF Waiting
<1>6. Seen[p].base = Len(History) /\ Seen[p].graph = graph
  BY <1>2, <1>5, HistoryIsSeq DEF Seen
<1>7. \A q \in Waiting \ {p} : Seen'[q] = Seen[q]
  BY <1>2, <1>5 DEF Seen
<1>8. DOMAIN Seen = Waiting /\ DOMAIN Seen' = Waiting'
  BY DEF Seen
<1>9. History' = Append(History, graph)
  <2>1. PICK S : History \in Seq(S)
    BY HistoryIsSeq
  <2> DEFINE T == S \cup {graph}
  <2>2. History \in Seq(T) /\ graph \in T
    BY <2>1
  <2> HIDE DEF T, graph
  <2>3. /\ DOMAIN Append(History, graph) = 1..n
        /\ \A m \in 1..active : Append(History, graph)[m] = History[m]
        /\ Append(History, graph)[n] = graph
    BY <2>2, <1>1, HistoryIsSeq, AppendProperties
  <2>4. versions'[n].content = graph
    BY <1>1, <1>2 DEF Version, graph
  <2>5. History' = [m \in 1..n |-> versions'[m].content]
    BY <1>1 DEF History
  <2>6. \A m \in 1..n : Append(History, graph)[m] = versions'[m].content
    BY <1>1, <2>3, <2>4 DEF History
  <2>7. Append(History, graph) = [m \in 1..n |-> Append(History, graph)[m]]
    <3>1. Append(History, graph) \in Seq(T)
      BY <2>2, AppendProperties
    <3>2. Append(History, graph) \in [1..n -> T]
      BY <3>1, <2>3, LenProperties
    <3> QED
      BY <3>2
  <2> QED
    BY <2>5, <2>6, <2>7
<1> QED
  BY <1>5, <1>6, <1>7, <1>8, <1>9 DEF Log!Publish, Log!Only, History, Seen, Waiting

LEMMA LogStep ==
    ASSUME PublicationInv, [Next]_vars
    PROVE  [Log!Next]_<<History, Seen>>
<1>1. CASE UNCHANGED versionVars /\ UNCHANGED previews
  <2>1. UNCHANGED <<versions, published, previews>>
    BY <1>1 DEF versionVars
  <2>2. Waiting' = Waiting
    BY <2>1 DEF Waiting, Pending, Replayed, Operation
  <2> QED
    BY <2>1, <2>2 DEF History, Seen
<1>2. CASE \E p \in Publishers : Preview(p)
  BY <1>2, PreviewLooks DEF Log!Next
<1>3. CASE \E p \in Publishers : PublishVersion(p)
  BY <1>3, PublishAppends DEF Log!Next
<1> QED
  BY <1>1, <1>2, <1>3, ActiveMoves

LEMMA LogInit == ASSUME InitPublication PROVE Log!Init
<1>1. DOMAIN versions = {} /\ DOMAIN previews = {}
  BY DEF InitPublication
<1>2. History = <<>>
  BY <1>1 DEF History
<1>3. DOMAIN Seen = {}
  BY <1>1 DEF Seen, Waiting, Pending
<1> QED
  BY <1>2, <1>3 DEF Log!Init, History, Seen, Waiting

\* However previews, edits and publications interleave, the graphs published are
\* those that were seen, each over the history its publisher saw, and each is
\* served when it is published.
THEOREM PublicationStaysSafe == Spec => PublicationSafe
<1>1. Init => PublicationInv /\ Log!Init
  BY PublicationInitInv, LogInit DEF Init
<1>2. PublicationInv /\ [Next]_vars => PublicationInv'
  BY PublicationStepInv
<1>3. PublicationInv /\ [Next]_vars => [Log!Next]_<<History, Seen>>
  BY LogStep
<1>4. Spec => Log!Spec
  BY <1>1, <1>2, <1>3, PTL DEF Spec, Log!Spec, History, Seen, Waiting
<1> QED
  BY <1>4, PublishedStaysServed DEF PublicationSafe, PublishesWhatWasSeen
----------------------------------------------------------------------------
(***************************************************************************)
(* Induction over a set of numbers.                                        *)
(***************************************************************************)

\* A set of numbers that is not empty has a least element.
LEMMA LeastOf ==
    ASSUME NEW T \in SUBSET Nat, T # {}
    PROVE  \E x \in T : \A y \in T : x <= y
<1> DEFINE Less == OpToRel(<, Nat)
<1>0. IsWellFoundedOn(Less, Nat)
  BY NatLessThanWellFounded
<1>1. \E x \in T : \A y \in T : <<y, x>> \notin Less
  <2> HIDE DEF Less
  <2> QED BY <1>0, WFMin
<1>2. \A x, y \in Nat : <<y, x>> \notin Less => x <= y
  BY DEF OpToRel
<1> QED BY <1>1, <1>2

\* Induction, over a set of numbers.
LEMMA AllNumbers ==
    ASSUME NEW T \in SUBSET Nat, 0 \in T, \A n \in T : n + 1 \in T
    PROVE  \A n \in Nat : n \in T
<1>1. SUFFICES ASSUME Nat \ T # {} PROVE FALSE
  OBVIOUS
<1>2. PICK x \in Nat \ T : \A y \in Nat \ T : x <= y
  BY <1>1, LeastOf
<1>3. x # 0 /\ x - 1 \in Nat /\ ~(x <= x - 1) /\ x = (x - 1) + 1
  BY <1>2
<1>4. x - 1 \in T
  BY <1>2, <1>3
<1> QED BY <1>2, <1>3, <1>4

LEMMA RecursionExists ==
    ASSUME NEW S, NEW a \in S, NEW F \in [S -> S]
    PROVE  \E f \in [Nat -> S] : f[0] = a /\ \A n \in Nat \ {0} : f[n] = F[f[n - 1]]
<1> DEFINE Begins(g, n) == g[0] = a /\ \A i \in 1 .. n : g[i] = F[g[i - 1]]
           Part(n) == {g \in [0 .. n -> S] : Begins(g, n)}
           Some == {n \in Nat : Part(n) # {}}
<1>1. \A n \in Nat : n \in Some
  <2>1. 0 \in Some
    <3>1. [i \in 0 .. 0 |-> a] \in Part(0)
      OBVIOUS
    <3> QED BY <3>1
  <2>2. ASSUME NEW n \in Some PROVE n + 1 \in Some
    <3>1. PICK g \in [0 .. n -> S] : Begins(g, n)
      BY <2>2
    <3> DEFINE h == [i \in 0 .. n + 1 |-> IF i = n + 1 THEN F[g[n]] ELSE g[i]]
    <3>2. h \in [0 .. n + 1 -> S]
      BY <2>2, <3>1
    <3>3. h[0] = a
      BY <2>2, <3>1
    <3>4. ASSUME NEW i \in 1 .. n + 1 PROVE h[i] = F[h[i - 1]]
      BY <2>2, <3>1, <3>4
    <3>5. h \in Part(n + 1)
      <4> HIDE DEF h
      <4> QED BY <3>2, <3>3, <3>4
    <3>6. n + 1 \in Nat /\ Part(n + 1) # {}
      <4> HIDE DEF Part
      <4> QED BY <2>2, <3>5
    <3> QED BY <3>6
  <2> HIDE DEF Some
  <2>3. Some \in SUBSET Nat
    BY DEF Some
  <2> QED BY <2>1, <2>2, <2>3, AllNumbers
<1> DEFINE best(n) == CHOOSE g : g \in Part(n)
           f == [n \in Nat |-> best(n)[n]]
<1>2. \A n \in Nat : best(n) \in Part(n)
  <2> HIDE DEF Part
  <2> QED BY <1>1
<1>3. ASSUME NEW n \in Nat, NEW m \in Nat, n <= m, NEW g \in Part(n), NEW h \in Part(m)
      PROVE  \A i \in 0 .. n : g[i] = h[i]
  <2> DEFINE Same == {i \in Nat : i <= n => g[i] = h[i]}
  <2>1. 0 \in Same
    OBVIOUS
  <2>2. ASSUME NEW i \in Same PROVE i + 1 \in Same
    <3>1. CASE i + 1 <= n
      <4>1. i + 1 \in 1 .. n /\ i + 1 \in 1 .. m /\ (i + 1) - 1 = i /\ g[i] = h[i]
        BY <1>3, <3>1
      <4>2. g[i + 1] = F[g[(i + 1) - 1]] /\ h[i + 1] = F[h[(i + 1) - 1]]
        BY <4>1
      <4> QED BY <4>1, <4>2
    <3> QED BY <3>1
  <2>3. \A i \in Nat : i \in Same
    <3>1. Same \in SUBSET Nat
      OBVIOUS
    <3> HIDE DEF Same
    <3> QED BY <2>1, <2>2, <3>1, AllNumbers
  <2> QED BY <2>3
<1>4. f \in [Nat -> S]
  <2>1. ASSUME NEW n \in Nat PROVE best(n)[n] \in S
    <3>1. best(n) \in [0 .. n -> S]
      BY <1>2
    <3> HIDE DEF best
    <3> QED BY <3>1
  <2> HIDE DEF best
  <2> QED BY <2>1
<1>5. f[0] = a
  BY <1>2
<1>6. ASSUME NEW n \in Nat, n # 0 PROVE f[n] = F[f[n - 1]]
  <2>1. n - 1 \in Nat /\ n - 1 <= n /\ n \in 1 .. n /\ n - 1 \in 0 .. n - 1
    BY <1>6
  <2>2. best(n)[n] = F[best(n)[n - 1]]
    BY <1>2, <2>1
  <2>3. best(n - 1)[n - 1] = best(n)[n - 1]
    <3>1. best(n - 1) \in Part(n - 1) /\ best(n) \in Part(n)
      BY <1>2, <2>1
    <3> HIDE DEF best, Part
    <3> QED BY <1>3, <2>1, <3>1
  <2> HIDE DEF best
  <2> QED BY <2>1, <2>2, <2>3
<1> HIDE DEF f
<1> QED BY <1>4, <1>5, <1>6

----------------------------------------------------------------------------
(***************************************************************************)
(* Directed graphs.  A relation on a finite set has a cycle exactly when   *)
(* it is not acyclic, whatever the order in which its edges are followed.  *)
(***************************************************************************)

\* The image of a finite set; one to one, it has as many elements.
LEMMA ImageFinite ==
    ASSUME NEW S, IsFiniteSet(S), NEW T, NEW f \in [S -> T], \A y \in T : \E x \in S : f[x] = y
    PROVE  /\ IsFiniteSet(T)
           /\ (\A x, y \in S : f[x] = f[y] => x = y) => Cardinality(T) = Cardinality(S)
<1>1. f \in Surjection(S, T)
  BY DEF Surjection
<1>2. (\A x, y \in S : f[x] = f[y] => x = y) => f \in Injection(S, T)
  BY DEF Injection, IsInjective
<1> QED BY <1>1, <1>2, FS_Surjection

\* Subsets of a finite set that grow, or shrink, at every step until they stay
\* as they are have done so after as many steps as it has elements.
LEMMA GrowsToRest ==
    ASSUME NEW S, IsFiniteSet(S), NEW f \in [Nat -> SUBSET S], NEW F,
           f[0] # {},
           \A n \in Nat : f[n] \subseteq f[n + 1] /\ f[n + 1] = F[f[n]]
    PROVE  F[f[Cardinality(S)]] = f[Cardinality(S)]
<1> DEFINE N == Cardinality(S)
           Done == {n \in Nat : F[f[n]] = f[n] \/ Cardinality(f[n]) >= n + 1}
<1>0. N \in Nat
  BY FS_CardinalityType
<1>1. \A n \in Nat : IsFiniteSet(f[n]) /\ Cardinality(f[n]) \in Nat /\ Cardinality(f[n]) <= N
  BY FS_Subset, FS_CardinalityType
<1>2. 0 \in Done
  <2>1. Cardinality(f[0]) # 0
    BY <1>1, FS_EmptySet
  <2> QED BY <1>1, <2>1
<1>3. ASSUME NEW n \in Done PROVE n + 1 \in Done
  <2>1. CASE f[n + 1] = f[n]
    <3>1. F[f[n + 1]] = f[n + 1]
      BY <2>1
    <3> QED BY <3>1
  <2>2. CASE f[n + 1] # f[n]
    <3>1. Cardinality(f[n]) >= n + 1
      BY <2>2
    <3>2. Cardinality(f[n]) < Cardinality(f[n + 1])
      <4>1. f[n] \in SUBSET f[n + 1] /\ f[n] # f[n + 1] /\ IsFiniteSet(f[n + 1])
        BY <1>1, <2>2
      <4>2. /\ Cardinality(f[n]) <= Cardinality(f[n + 1])
            /\ Cardinality(f[n + 1]) = Cardinality(f[n]) => f[n + 1] = f[n]
        BY <4>1, FS_Subset
      <4>3. Cardinality(f[n]) \in Nat /\ Cardinality(f[n + 1]) \in Nat
        BY <1>1
      <4>4. Cardinality(f[n]) # Cardinality(f[n + 1])
        BY <4>1, <4>2
      <4> QED BY <4>2, <4>3, <4>4
    <3> QED BY <1>1, <3>1, <3>2
  <2> QED BY <2>1, <2>2
<1>4. N \in Done
  <2>1. Done \in SUBSET Nat
    OBVIOUS
  <2> HIDE DEF Done, N
  <2> QED BY <1>0, <1>2, <1>3, <2>1, AllNumbers
<1> QED BY <1>0, <1>1, <1>4

LEMMA ShrinksToRest ==
    ASSUME NEW S, IsFiniteSet(S), NEW f \in [Nat -> SUBSET S], NEW F,
           f[0] = S, F[{}] = {},
           \A n \in Nat : f[n + 1] \subseteq f[n] /\ f[n + 1] = F[f[n]]
    PROVE  F[f[Cardinality(S)]] = f[Cardinality(S)]
<1> DEFINE N == Cardinality(S)
           Done == {n \in Nat : F[f[n]] = f[n] \/ Cardinality(f[n]) + n <= N}
<1>0. N \in Nat
  BY FS_CardinalityType
<1>1. \A n \in Nat : IsFiniteSet(f[n]) /\ Cardinality(f[n]) \in Nat
  BY FS_Subset, FS_CardinalityType
<1>2. 0 \in Done
  BY <1>0
<1>3. ASSUME NEW n \in Done PROVE n + 1 \in Done
  <2>1. CASE f[n + 1] = f[n]
    <3>1. F[f[n + 1]] = f[n + 1]
      BY <2>1
    <3> QED BY <3>1
  <2>2. CASE f[n + 1] # f[n]
    <3>1. Cardinality(f[n]) + n <= N
      BY <2>2
    <3>2. Cardinality(f[n + 1]) < Cardinality(f[n])
      <4>1. f[n + 1] \in SUBSET f[n] /\ f[n] # f[n + 1] /\ IsFiniteSet(f[n])
        BY <1>1, <2>2
      <4>2. /\ Cardinality(f[n + 1]) <= Cardinality(f[n])
            /\ Cardinality(f[n]) = Cardinality(f[n + 1]) => f[n] = f[n + 1]
        BY <4>1, FS_Subset
      <4>3. Cardinality(f[n]) \in Nat /\ Cardinality(f[n + 1]) \in Nat
        BY <1>1
      <4>4. Cardinality(f[n]) # Cardinality(f[n + 1])
        BY <4>1, <4>2
      <4> QED BY <4>2, <4>3, <4>4
    <3> QED BY <1>0, <1>1, <3>1, <3>2
  <2> QED BY <2>1, <2>2
<1>4. N \in Done
  <2>1. Done \in SUBSET Nat
    OBVIOUS
  <2> HIDE DEF Done, N
  <2> QED BY <1>0, <1>2, <1>3, <2>1, AllNumbers
<1>5. CASE Cardinality(f[N]) + N <= N
  <2>1. f[N] = {}
    BY <1>0, <1>1, <1>5, FS_EmptySet
  <2> QED BY <2>1
<1> QED BY <1>4, <1>5

\* A traversal takes its start and every edge that leaves what it has taken.
LEMMA ReachedClosed ==
    ASSUME IsFiniteSet(Concepts), NEW start \in Concepts,
           NEW edges \in SUBSET (Concepts \X Concepts)
    PROVE  /\ start \in Reached(start, edges)
           /\ \A e \in edges : e[1] \in Reached(start, edges) => e[2] \in Reached(start, edges)
<1> DEFINE Grown(B) == B \cup {e[2] : e \in {d \in edges : d[1] \in B}}
           F == [B \in SUBSET Concepts |-> Grown(B)]
           visit[n \in Nat] == IF n = 0 THEN {start}
                               ELSE LET before == visit[n - 1] IN
                                    before \cup {e[2] : e \in {e \in edges : e[1] \in before}}
           N == Cardinality(Concepts)
<1>1. \A B \in SUBSET Concepts : Grown(B) \in SUBSET Concepts
  OBVIOUS
<1>2. F \in [SUBSET Concepts -> SUBSET Concepts]
  BY <1>1
<1>3. \E f \in [Nat -> SUBSET Concepts] :
         f[0] = {start} /\ \A n \in Nat \ {0} : f[n] = F[f[n - 1]]
  <2> DEFINE S == SUBSET Concepts
  <2>1. {start} \in S /\ F \in [S -> S]
    BY <1>2
  <2> HIDE DEF F, S
  <2>2. \E f \in [Nat -> S] : f[0] = {start} /\ \A n \in Nat \ {0} : f[n] = F[f[n - 1]]
    BY <2>1, RecursionExists
  <2> QED BY <2>2 DEF S
<1>4. \E f : f = [n \in Nat |-> IF n = 0 THEN {start}
                               ELSE LET before == f[n - 1] IN
                                    before \cup {e[2] : e \in {e \in edges : e[1] \in before}}]
  <2>1. PICK f \in [Nat -> SUBSET Concepts] :
               f[0] = {start} /\ \A n \in Nat \ {0} : f[n] = F[f[n - 1]]
    BY <1>3
  <2>2. \A B \in SUBSET Concepts : F[B] = Grown(B)
    OBVIOUS
  <2>3. \A n \in Nat : f[n] = IF n = 0 THEN {start} ELSE Grown(f[n - 1])
    <3>1. \A n \in Nat \ {0} : n - 1 \in Nat /\ f[n - 1] \in SUBSET Concepts
      BY <2>1
    <3> HIDE DEF F, Grown
    <3> QED BY <2>1, <2>2, <3>1
  <2>4. f = [n \in Nat |-> IF n = 0 THEN {start} ELSE Grown(f[n - 1])]
    <3> HIDE DEF Grown
    <3> QED BY <2>3
  <2> QED BY <2>4
<1>5. visit = [n \in Nat |-> IF n = 0 THEN {start}
                               ELSE LET before == visit[n - 1] IN
                                    before \cup {e[2] : e \in {e \in edges : e[1] \in before}}]
  BY <1>4 DEF visit
<1> HIDE DEF visit
<1>6. visit[0] = {start} /\ \A n \in Nat : visit[n + 1] = Grown(visit[n])
  <2>1. \A n \in Nat : n + 1 # 0 /\ n + 1 \in Nat /\ (n + 1) - 1 = n
    OBVIOUS
  <2> QED BY <1>5, <2>1
<1>7. \A n \in Nat : visit[n] \in SUBSET Concepts
  <2> DEFINE In == {n \in Nat : visit[n] \in SUBSET Concepts}
  <2>1. 0 \in In /\ \A n \in In : n + 1 \in In
    <3> HIDE DEF Grown
    <3> QED BY <1>1, <1>6
  <2>2. In \in SUBSET Nat
    OBVIOUS
  <2>3. \A n \in Nat : n \in In
    <3> HIDE DEF In
    <3> QED BY <2>1, <2>2, AllNumbers
  <2> QED BY <2>3
<1>8. visit \in [Nat -> SUBSET Concepts]
  <2>1. visit = [n \in Nat |-> visit[n]]
    BY <1>5
  <2> QED BY <1>7, <2>1
<1>9. \A n \in Nat : visit[n] \subseteq visit[n + 1] /\ visit[n + 1] = F[visit[n]]
  BY <1>6, <1>7
<1>10. N \in Nat /\ F[visit[N]] = visit[N]
  <2>1. visit[0] # {}
    BY <1>6
  <2> HIDE DEF F
  <2> QED BY <1>8, <1>9, <2>1, GrowsToRest, FS_CardinalityType
<1>11. Grown(visit[N]) = visit[N]
  BY <1>7, <1>10
<1>12. start \in visit[N]
  <2> DEFINE On == {n \in Nat : start \in visit[n]}
  <2>1. 0 \in On /\ \A n \in On : n + 1 \in On
    BY <1>6
  <2>2. On \in SUBSET Nat
    OBVIOUS
  <2>3. \A n \in Nat : n \in On
    <3> HIDE DEF On
    <3> QED BY <2>1, <2>2, AllNumbers
  <2> QED BY <1>10, <2>3
<1>13. Reached(start, edges) = visit[N]
  BY DEF Reached, visit
<1> QED BY <1>11, <1>12, <1>13

\* No set of nodes each of which another one of the set points to.
Acyclic(nodes, edges) ==
    \A ring \in SUBSET nodes : ring # {} => \E x \in ring : \A y \in ring : <<y, x>> \notin edges

\* _has_directed_cycle finds a cycle where there is one, and only there.
LEMMA CycleFound ==
    ASSUME NEW nodes, IsFiniteSet(nodes), NEW edges
    PROVE  HasCycle(nodes, edges) <=> ~Acyclic(nodes, edges)
<1> DEFINE Left(B) == {x \in B : \E y \in B : <<y, x>> \in edges}
           F == [B \in SUBSET nodes |-> Left(B)]
           rest[n \in Nat] == IF n = 0 THEN nodes
                              ELSE LET left == rest[n - 1] IN
                                   {x \in left : \E y \in left : <<y, x>> \in edges}
           N == Cardinality(nodes)
<1>1. \A B \in SUBSET nodes : Left(B) \in SUBSET nodes
  OBVIOUS
<1>2. F \in [SUBSET nodes -> SUBSET nodes]
  BY <1>1
<1>3. \E f \in [Nat -> SUBSET nodes] :
         f[0] = nodes /\ \A n \in Nat \ {0} : f[n] = F[f[n - 1]]
  <2> DEFINE S == SUBSET nodes
  <2>1. nodes \in S /\ F \in [S -> S]
    BY <1>2
  <2> HIDE DEF F, S
  <2>2. \E f \in [Nat -> S] : f[0] = nodes /\ \A n \in Nat \ {0} : f[n] = F[f[n - 1]]
    BY <2>1, RecursionExists
  <2> QED BY <2>2 DEF S
<1>4. \E f : f = [n \in Nat |-> IF n = 0 THEN nodes
                               ELSE LET left == f[n - 1] IN
                                    {x \in left : \E y \in left : <<y, x>> \in edges}]
  <2>1. PICK f \in [Nat -> SUBSET nodes] :
               f[0] = nodes /\ \A n \in Nat \ {0} : f[n] = F[f[n - 1]]
    BY <1>3
  <2>2. \A B \in SUBSET nodes : F[B] = Left(B)
    OBVIOUS
  <2>3. \A n \in Nat : f[n] = IF n = 0 THEN nodes ELSE Left(f[n - 1])
    <3>1. \A n \in Nat \ {0} : n - 1 \in Nat /\ f[n - 1] \in SUBSET nodes
      BY <2>1
    <3> HIDE DEF F, Left
    <3> QED BY <2>1, <2>2, <3>1
  <2>4. f = [n \in Nat |-> IF n = 0 THEN nodes ELSE Left(f[n - 1])]
    <3> HIDE DEF Left
    <3> QED BY <2>3
  <2> QED BY <2>4
<1>5. rest = [n \in Nat |-> IF n = 0 THEN nodes
                            ELSE LET left == rest[n - 1] IN
                                 {x \in left : \E y \in left : <<y, x>> \in edges}]
  BY <1>4 DEF rest
<1> HIDE DEF rest
<1>6. rest[0] = nodes /\ \A n \in Nat : rest[n + 1] = Left(rest[n])
  <2>1. \A n \in Nat : n + 1 # 0 /\ n + 1 \in Nat /\ (n + 1) - 1 = n
    OBVIOUS
  <2> QED BY <1>5, <2>1
<1>7. \A n \in Nat : rest[n] \in SUBSET nodes
  <2> DEFINE In == {n \in Nat : rest[n] \in SUBSET nodes}
  <2>1. 0 \in In /\ \A n \in In : n + 1 \in In
    <3> HIDE DEF Left
    <3> QED BY <1>1, <1>6
  <2>2. In \in SUBSET Nat
    OBVIOUS
  <2>3. \A n \in Nat : n \in In
    <3> HIDE DEF In
    <3> QED BY <2>1, <2>2, AllNumbers
  <2> QED BY <2>3
<1>8. rest \in [Nat -> SUBSET nodes]
  <2>1. rest = [n \in Nat |-> rest[n]]
    BY <1>5
  <2> QED BY <1>7, <2>1
<1>9. \A n \in Nat : rest[n + 1] \subseteq rest[n] /\ rest[n + 1] = F[rest[n]]
  BY <1>6, <1>7
<1>10. N \in Nat /\ F[rest[N]] = rest[N]
  <2>1. F[{}] = {}
    OBVIOUS
  <2>2. rest[0] = nodes
    BY <1>6
  <2> HIDE DEF F, Left
  <2>3. F[rest[Cardinality(nodes)]] = rest[Cardinality(nodes)]
    BY <1>8, <1>9, <2>1, <2>2, ShrinksToRest
  <2> QED BY <2>3, FS_CardinalityType
<1>11. Left(rest[N]) = rest[N] /\ rest[N] \in SUBSET nodes
  BY <1>7, <1>10
<1>12. HasCycle(nodes, edges) <=> rest[N] # {}
  BY DEF HasCycle, rest
<1>13. ASSUME HasCycle(nodes, edges) PROVE ~Acyclic(nodes, edges)
  <2>1. \A x \in rest[N] : \E y \in rest[N] : <<y, x>> \in edges
    BY <1>11
  <2> HIDE DEF N
  <2>2. rest[N] \in SUBSET nodes /\ rest[N] # {}
    BY <1>11, <1>12, <1>13
  <2> QED BY <2>1, <2>2 DEF Acyclic
<1>14. ASSUME NEW ring \in SUBSET nodes, ring # {},
              \A x \in ring : \E y \in ring : <<y, x>> \in edges
       PROVE  HasCycle(nodes, edges)
  <2> DEFINE Has == {n \in Nat : ring \subseteq rest[n]}
  <2>1. 0 \in Has
    BY <1>6
  <2>2. ASSUME NEW n \in Has PROVE n + 1 \in Has
    BY <1>6, <1>14, <2>2
  <2>3. Has \in SUBSET Nat
    OBVIOUS
  <2>4. \A n \in Nat : n \in Has
    <3> HIDE DEF Has
    <3> QED BY <2>1, <2>2, <2>3, AllNumbers
  <2> QED BY <1>10, <1>12, <1>14, <2>4
<1> QED BY <1>13, <1>14 DEF Acyclic

LEMMA FewerEdges ==
    ASSUME NEW nodes, NEW edges, NEW ns \in SUBSET nodes, NEW es \in SUBSET edges,
           Acyclic(nodes, edges)
    PROVE  Acyclic(ns, es)
BY DEF Acyclic

\* An edge whose target does not lead to its source closes no cycle.
LEMMA EdgeKeepsAcyclic ==
    ASSUME IsFiniteSet(Concepts), NEW edges \in SUBSET (Concepts \X Concepts),
           NEW s \in Concepts, NEW t \in Concepts,
           Acyclic(Concepts, edges), s \notin Reached(t, edges)
    PROVE  Acyclic(Concepts, edges \cup {<<s, t>>})
<1> DEFINE R == Reached(t, edges)
<1>1. t \in R /\ \A e \in edges : e[1] \in R => e[2] \in R
  BY ReachedClosed
<1> HIDE DEF R
<1>2. SUFFICES ASSUME NEW ring \in SUBSET Concepts, ring # {},
                      \A x \in ring : \E y \in ring : <<y, x>> \in edges \cup {<<s, t>>}
               PROVE  FALSE
  BY DEF Acyclic
<1>3. CASE s \notin ring \/ t \notin ring
  <2>1. \A x \in ring : \E y \in ring : <<y, x>> \in edges
    BY <1>2, <1>3
  <2> QED BY <1>2, <2>1 DEF Acyclic
<1>4. CASE s \in ring /\ t \in ring
  <2>1. s \in ring \ R
    BY <1>4 DEF R
  <2>2. ASSUME NEW x \in ring \ R PROVE \E y \in ring \ R : <<y, x>> \in edges
    <3>1. PICK y \in ring : <<y, x>> \in edges \cup {<<s, t>>}
      BY <1>2
    <3>2. <<y, x>> \in edges
      BY <1>1, <3>1
    <3>3. y \notin R
      BY <1>1, <3>2
    <3> QED BY <3>2, <3>3
  <2>3. ring \ R \in SUBSET Concepts /\ ring \ R # {}
    BY <2>1
  <2> QED BY <2>2, <2>3 DEF Acyclic
<1> QED BY <1>3, <1>4

----------------------------------------------------------------------------
(***************************************************************************)
(* The draft.  Every head that is accepted and current is the revision its *)
(* review wrote; a relation in force is bound to the Concepts as they are, *)
(* because every other change of a Concept makes its relations stale.      *)
(***************************************************************************)
Quotes == [chunk : Chunks, generation : Nat]
Roles == {"relation_assertion", "source_endpoint", "target_endpoint"}
RoleQuotes == [role : Roles, chunk : Chunks, generation : Nat]
Reviews == {"candidate", "accepted", "rejected"}
ConceptRows == [identity : {"active", "merged", "retired"}, into : Concepts \cup {None},
                review : Reviews, validity : {"current", "stale"},
                evidence : SUBSET Quotes, reviewRevision : Nat]
RelationRows == [basis : {"source_asserted", "pedagogical_inference"}, review : Reviews,
                 validity : {"current", "stale"}, evidence : SUBSET RoleQuotes,
                 source : Nat, target : Nat, reviewRevision : Nat]

DraftTypes ==
    /\ concepts \in [Concepts -> Seq(ConceptRows)]
    /\ relations \in [Relations -> Seq(RelationRows)]
    /\ chunks \in [Chunks -> [generation : Nat, live : BOOLEAN]]
    /\ \A c \in Concepts : Created(c) => IsFiniteSet(Last(concepts[c]).evidence)
    /\ \A r \in Relations : Known(r) => IsFiniteSet(Last(relations[r]).evidence)

ReceiptsFollow ==
    \A x \in receipts : /\ x.expected \in Nat /\ x.revision = x.expected + 1
                        /\ x = Receipt(x.kind, x.entity, x.expected, x.revision)

\* The head is what the review of the revision before it wrote.
JustReviewed(kind, entity, revisions) ==
    /\ Receipt(kind, entity, Len(revisions) - 1, Len(revisions)) \in receipts
    /\ Last(revisions).reviewRevision = Len(revisions) - 1
    /\ Last(revisions).evidence # {}

Bound(r) ==
    /\ Included(r.source) /\ Included(r.target)
    /\ BoundTo(r, Len(concepts[r.source]), Len(concepts[r.target]))
    /\ Supported(Last(relations[r]).basis, Last(relations[r]).evidence, EndpointEvidence(r))

DraftInv ==
    /\ DraftTypes /\ ReceiptsFollow
    /\ \A c \in Concepts : Included(c) => JustReviewed("concept_review", c, concepts[c])
    /\ \A c \in Concepts : Created(c) /\ Last(concepts[c]).identity = "merged" =>
          LET d == Last(concepts[c]).into IN
          d \in Concepts /\ Created(d) /\ Last(concepts[d]).identity = "active"
    /\ \A r \in Relations : Known(r) => r.source # r.target /\ Canonical(r) = r
    /\ \A r \in DraftRelationIds :
          JustReviewed("relation_review", r, relations[r]) /\ Bound(r)
    /\ Acyclic(Concepts, PrerequisiteEdges(DraftRelationIds))

\* What an appended revision makes of its sequence.
LEMMA AppendedHead ==
    ASSUME NEW R, NEW s \in Seq(R), NEW row \in R
    PROVE  /\ Append(s, row) \in Seq(R) /\ Append(s, row) # <<>>
           /\ Last(Append(s, row)) = row
           /\ Len(Append(s, row)) = Len(s) + 1 /\ Len(s) \in Nat
           /\ s # <<>> => Last(s) \in R
<1>1. /\ Append(s, row) \in Seq(R) /\ Append(s, row) # <<>>
      /\ Len(Append(s, row)) = Len(s) + 1 /\ Len(s) \in Nat
      /\ Append(s, row)[Len(s) + 1] = row
  OBVIOUS
<1>2. s # <<>> => s[Len(s)] \in R
  OBVIOUS
<1> QED BY <1>1, <1>2 DEF Last

\* A Concept changes, and the relations it is an end of become stale.
ConceptMoves(c, kind, row) ==
    /\ AppendConcept(c, kind, Len(concepts[c]), row)
    /\ UNCHANGED sourceVars
    /\ relations' = StaleIncident(c) \/ (UNCHANGED relations /\ ~Created(c))

LEMMA StaleRelations ==
    ASSUME DraftInv, NEW c \in Concepts, NEW kind, NEW row \in ConceptRows, ConceptMoves(c, kind, row)
    PROVE  /\ relations' \in [Relations -> Seq(RelationRows)]
           /\ \A r \in Relations :
                 /\ Known(r)' <=> Known(r)
                 /\ Known(r) => Last(relations'[r]).evidence = Last(relations[r]).evidence
                 /\ InForce(r)' => /\ relations'[r] = relations[r] /\ InForce(r)
                                   /\ r.source # c /\ r.target # c
<1>1. relations \in [Relations -> Seq(RelationRows)]
  BY DEF DraftInv, DraftTypes
<1>2. CASE UNCHANGED relations /\ ~Created(c)
  <2>1. ASSUME NEW r \in Relations, InForce(r) PROVE r.source # c /\ r.target # c
    <3>1. Created(r.source) /\ Created(r.target)
      BY <2>1 DEF DraftInv, DraftRelationIds, Bound, Included
    <3> QED BY <1>2, <3>1
  <2> QED BY <1>1, <1>2, <2>1 DEF Known, InForce
<1>3. CASE relations' = StaleIncident(c)
  <2> SUFFICES ASSUME NEW r \in Relations
               PROVE  /\ relations'[r] \in Seq(RelationRows)
                      /\ Known(r)' <=> Known(r)
                      /\ Known(r) => Last(relations'[r]).evidence = Last(relations[r]).evidence
                      /\ InForce(r)' => /\ relations'[r] = relations[r] /\ InForce(r)
                                        /\ r.source # c /\ r.target # c
    <3>1. relations' = [r \in Relations |-> relations'[r]]
      BY <1>3 DEF StaleIncident
    <3> QED BY <3>1
  <2>1. CASE Known(r) /\ c \in {r.source, r.target} /\ Last(relations[r]).validity = "current"
    <3> DEFINE head == Last(relations[r])
               new == [head EXCEPT !.validity = "stale"]
    <3>1. head \in RelationRows
      BY <1>1, <2>1, AppendedHead DEF Known, Last
    <3>2. new \in RelationRows /\ new.validity = "stale" /\ new.evidence = head.evidence
      BY <3>1 DEF RelationRows
    <3>3. relations'[r] = Append(relations[r], new)
      BY <1>3, <2>1 DEF StaleIncident
    <3> HIDE DEF new, head
    <3>4. /\ relations'[r] \in Seq(RelationRows) /\ relations'[r] # <<>>
          /\ Last(relations'[r]) = new
      BY <1>1, <3>2, <3>3, AppendedHead
    <3>5. ~InForce(r)' /\ Known(r)'
      BY <3>2, <3>4 DEF InForce, Known
    <3> QED BY <2>1, <3>2, <3>4, <3>5 DEF head
  <2>2. CASE ~(Known(r) /\ c \in {r.source, r.target} /\ Last(relations[r]).validity = "current")
    <3>1. relations'[r] = relations[r]
      BY <1>3, <2>2 DEF StaleIncident
    <3>2. /\ Known(r)' <=> Known(r)
          /\ InForce(r)' <=> InForce(r)
      BY <3>1 DEF Known, InForce
    <3>3. InForce(r) => r.source # c /\ r.target # c
      BY <2>2 DEF InForce
    <3> QED BY <1>1, <3>1, <3>2, <3>3
  <2> QED BY <2>1, <2>2
<1> QED BY <1>2, <1>3 DEF ConceptMoves

LEMMA PrerequisiteFacts ==
    ASSUME NEW rs \in SUBSET Relations, NEW qs \in SUBSET rs
    PROVE  /\ PrerequisiteEdges(rs) \in SUBSET (Concepts \X Concepts)
           /\ PrerequisiteEdges(qs) \in SUBSET PrerequisiteEdges(rs)
BY GraphAssumption DEF PrerequisiteEdges

\* Receipts of a change are one more.
LEMMA ReceiptAdded ==
    ASSUME ReceiptsFollow, NEW kind, NEW entity, NEW n \in Nat,
           receipts' = receipts \cup {Receipt(kind, entity, n, n + 1)}
    PROVE  ReceiptsFollow'
<1>1. LET x == Receipt(kind, entity, n, n + 1) IN
      /\ x.expected = n /\ x.revision = n + 1
      /\ x = Receipt(x.kind, x.entity, x.expected, x.revision)
  BY DEF Receipt
<1> QED BY <1>1 DEF ReceiptsFollow

LEMMA ConceptMoveInv ==
    ASSUME DraftInv, NEW c \in Concepts, NEW kind, NEW row \in ConceptRows,
           ConceptMoves(c, kind, row), IsFiniteSet(row.evidence),
           row.identity = "active" /\ row.review = "accepted" /\ row.validity = "current" =>
              /\ kind = "concept_review" /\ row.evidence # {}
              /\ row.reviewRevision = Len(concepts[c]),
           row.identity # "active" => NoIncomingRedirects(c),
           row.identity = "merged" =>
              /\ row.into \in Concepts \ {c} /\ Created(row.into)
              /\ Last(concepts[row.into]).identity = "active"
    PROVE  DraftInv'
<1> DEFINE n == Len(concepts[c])
<1>1. /\ concepts \in [Concepts -> Seq(ConceptRows)]
      /\ concepts' = [concepts EXCEPT ![c] = Append(concepts[c], row)]
      /\ receipts' = receipts \cup {Receipt(kind, c, n, n + 1)}
      /\ chunks' = chunks
  BY DEF DraftInv, DraftTypes, ConceptMoves, AppendConcept, sourceVars
<1>2. /\ concepts' \in [Concepts -> Seq(ConceptRows)]
      /\ concepts'[c] # <<>> /\ Last(concepts'[c]) = row
      /\ n \in Nat /\ Len(concepts'[c]) = n + 1
      /\ \A d \in Concepts \ {c} : concepts'[d] = concepts[d]
  <2>1. /\ concepts[c] \in Seq(ConceptRows)
        /\ concepts'[c] = Append(concepts[c], row)
        /\ \A d \in Concepts \ {c} : concepts'[d] = concepts[d]
    BY <1>1
  <2>2. /\ concepts'[c] \in Seq(ConceptRows) /\ concepts'[c] # <<>> /\ Last(concepts'[c]) = row
        /\ n \in Nat /\ Len(concepts'[c]) = n + 1
    BY <2>1, AppendedHead
  <2> QED BY <1>1, <2>1, <2>2
<1>3. /\ relations' \in [Relations -> Seq(RelationRows)]
      /\ \A r \in Relations :
            /\ Known(r)' <=> Known(r)
            /\ Known(r) => Last(relations'[r]).evidence = Last(relations[r]).evidence
            /\ InForce(r)' => /\ relations'[r] = relations[r] /\ InForce(r)
                              /\ r.source # c /\ r.target # c
  BY StaleRelations
<1>4. DraftTypes'
  <2>1. ASSUME NEW d \in Concepts, Created(d)' PROVE IsFiniteSet(Last(concepts'[d]).evidence)
    BY <1>2, <2>1 DEF DraftInv, DraftTypes, Created
  <2>2. ASSUME NEW r \in Relations, Known(r)' PROVE IsFiniteSet(Last(relations'[r]).evidence)
    BY <1>3, <2>2 DEF DraftInv, DraftTypes
  <2>3. chunks' \in [Chunks -> [generation : Nat, live : BOOLEAN]]
    BY <1>1 DEF DraftInv, DraftTypes
  <2> QED BY <1>2, <1>3, <2>1, <2>2, <2>3 DEF DraftTypes
<1>5. ReceiptsFollow'
  BY <1>1, <1>2, ReceiptAdded DEF DraftInv
<1>6. ASSUME NEW d \in Concepts, Included(d)'
      PROVE  JustReviewed("concept_review", d, concepts[d])'
  <2>1. CASE d = c
    <3>1. row.identity = "active" /\ row.review = "accepted" /\ row.validity = "current"
      BY <1>2, <1>6, <2>1 DEF Included
    <3>2. Receipt("concept_review", c, n, n + 1) \in receipts' /\ (n + 1) - 1 = n
      BY <1>1, <1>2, <3>1
    <3> QED BY <1>2, <2>1, <3>1, <3>2 DEF JustReviewed
  <2>2. CASE d # c
    <3>1. concepts'[d] = concepts[d]
      BY <1>2, <2>2
    <3>2. Included(d)
      BY <1>6, <3>1 DEF Included, Created
    <3> QED BY <1>1, <3>1, <3>2 DEF DraftInv, JustReviewed
  <2> QED BY <2>1, <2>2
<1>7. ASSUME NEW d \in Concepts, Created(d)', Last(concepts'[d]).identity = "merged"
      PROVE  LET e == Last(concepts'[d]).into IN
             e \in Concepts /\ concepts'[e] # <<>> /\ Last(concepts'[e]).identity = "active"
  <2>1. CASE d = c
    <3>1. row.identity = "merged" /\ row.into = Last(concepts'[d]).into
      BY <1>2, <1>7, <2>1
    <3>2. row.into \in Concepts \ {c} /\ concepts'[row.into] = concepts[row.into]
      BY <1>2, <3>1
    <3> QED BY <3>1, <3>2 DEF Created
  <2>2. CASE d # c
    <3>1. concepts'[d] = concepts[d] /\ Created(d)
      BY <1>2, <1>7, <2>2 DEF Created
    <3> DEFINE e == Last(concepts[d]).into
    <3>2. e \in Concepts /\ Created(e) /\ Last(concepts[e]).identity = "active"
      BY <1>7, <3>1 DEF DraftInv
    <3>3. CASE e = c
      <4>1. row.identity = "active"
        BY <1>7, <3>1, <3>3 DEF NoIncomingRedirects
      <4> QED BY <1>2, <3>1, <3>3, <4>1 DEF Created
    <3>4. CASE e # c
      BY <1>2, <3>1, <3>2, <3>4 DEF Created
    <3> QED BY <3>3, <3>4
  <2> QED BY <2>1, <2>2
<1>8. \A r \in Relations : Known(r)' => r.source # r.target /\ Canonical(r) = r
  BY <1>3 DEF DraftInv
<1>9. ASSUME NEW r \in Relations, InForce(r)'
      PROVE  JustReviewed("relation_review", r, relations[r])' /\ Bound(r)'
  <2>1. /\ relations'[r] = relations[r] /\ r \in DraftRelationIds
        /\ r.source \in Concepts \ {c} /\ r.target \in Concepts \ {c}
    BY <1>3, <1>9, GraphAssumption DEF DraftRelationIds
  <2>2. concepts'[r.source] = concepts[r.source] /\ concepts'[r.target] = concepts[r.target]
    BY <1>2, <2>1
  <2>3. JustReviewed("relation_review", r, relations[r]) /\ Bound(r)
    BY <2>1 DEF DraftInv
  <2>4. JustReviewed("relation_review", r, relations[r])'
    BY <1>1, <2>1, <2>3 DEF JustReviewed
  <2>5. EndpointEvidence(r)' = EndpointEvidence(r)
    BY <2>2 DEF EndpointEvidence
  <2>6. Bound(r)'
    BY <2>1, <2>2, <2>3, <2>5 DEF Bound, Included, Created, BoundTo, Supported
  <2> QED BY <2>4, <2>6
<1>10. Acyclic(Concepts, PrerequisiteEdges(DraftRelationIds))'
  <2>1. DraftRelationIds \in SUBSET Relations /\ DraftRelationIds' \in SUBSET DraftRelationIds
    BY <1>3 DEF DraftRelationIds
  <2>2. PrerequisiteEdges(DraftRelationIds') \in SUBSET PrerequisiteEdges(DraftRelationIds)
    BY <2>1, PrerequisiteFacts
  <2>3. Acyclic(Concepts, PrerequisiteEdges(DraftRelationIds'))
    BY <2>2, FewerEdges DEF DraftInv
  <2> QED BY <2>3
<1>11. /\ \A d \in Concepts : Included(d)' => JustReviewed("concept_review", d, concepts[d])'
       /\ \A r \in DraftRelationIds' :
             JustReviewed("relation_review", r, relations[r])' /\ Bound(r)'
  BY <1>6, <1>9 DEF DraftRelationIds
<1>12. (\A d \in Concepts : Created(d) /\ Last(concepts[d]).identity = "merged" =>
          LET e == Last(concepts[d]).into IN
          e \in Concepts /\ Created(e) /\ Last(concepts[e]).identity = "active")'
  BY <1>7 DEF Created
<1> QED BY <1>4, <1>5, <1>8, <1>10, <1>11, <1>12 DEF DraftInv

\* A relation changes.
RelationMoves(r, kind, row) ==
    /\ AppendRelation(r, kind, Len(relations[r]), row)
    /\ UNCHANGED <<concepts, sourceVars>>

LEMMA RelationMoveInv ==
    ASSUME DraftInv, NEW r \in Relations, NEW kind, NEW row \in RelationRows,
           RelationMoves(r, kind, row), IsFiniteSet(row.evidence),
           r.source # r.target, Canonical(r) = r,
           row.review = "accepted" /\ row.validity = "current" =>
              /\ kind = "relation_review" /\ row.evidence # {}
              /\ row.reviewRevision = Len(relations[r])
              /\ Included(r.source) /\ Included(r.target)
              /\ row.source = Len(concepts[r.source]) /\ row.target = Len(concepts[r.target])
              /\ Supported(row.basis, row.evidence, EndpointEvidence(r))
              /\ r.type = "prerequisite" => NoPrerequisiteCycle(r)
    PROVE  DraftInv'
<1> DEFINE n == Len(relations[r])
           lasting == row.review = "accepted" /\ row.validity = "current"
<1>1. /\ relations \in [Relations -> Seq(RelationRows)]
      /\ relations' = [relations EXCEPT ![r] = Append(relations[r], row)]
      /\ receipts' = receipts \cup {Receipt(kind, r, n, n + 1)}
      /\ chunks' = chunks /\ concepts' = concepts
  BY DEF DraftInv, DraftTypes, RelationMoves, AppendRelation, sourceVars
<1>2. /\ relations' \in [Relations -> Seq(RelationRows)]
      /\ relations'[r] # <<>> /\ Last(relations'[r]) = row
      /\ n \in Nat /\ Len(relations'[r]) = n + 1
      /\ \A q \in Relations \ {r} : relations'[q] = relations[q]
  <2>1. /\ relations[r] \in Seq(RelationRows)
        /\ relations'[r] = Append(relations[r], row)
        /\ \A q \in Relations \ {r} : relations'[q] = relations[q]
    BY <1>1
  <2>2. /\ relations'[r] \in Seq(RelationRows) /\ relations'[r] # <<>> /\ Last(relations'[r]) = row
        /\ n \in Nat /\ Len(relations'[r]) = n + 1
    BY <2>1, AppendedHead
  <2> QED BY <1>1, <2>1, <2>2
<1>3. \A q \in Relations \ {r} : /\ Known(q)' <=> Known(q)
                                 /\ InForce(q)' <=> InForce(q)
  BY <1>2 DEF Known, InForce
<1>4. DraftTypes'
  <2>1. ASSUME NEW q \in Relations, Known(q)' PROVE IsFiniteSet(Last(relations'[q]).evidence)
    BY <1>2, <1>3, <2>1 DEF DraftInv, DraftTypes
  <2>2. \A c \in Concepts : Created(c)' => IsFiniteSet(Last(concepts'[c]).evidence)
    BY <1>1 DEF DraftInv, DraftTypes, Created
  <2>3. chunks' \in [Chunks -> [generation : Nat, live : BOOLEAN]]
    BY <1>1 DEF DraftInv, DraftTypes
  <2>4. concepts' \in [Concepts -> Seq(ConceptRows)]
    BY <1>1 DEF DraftInv, DraftTypes
  <2> QED BY <1>2, <2>1, <2>2, <2>3, <2>4 DEF DraftTypes
<1>5. ReceiptsFollow'
  BY <1>1, <1>2, ReceiptAdded DEF DraftInv
<1>6. \A c \in Concepts : Included(c)' => JustReviewed("concept_review", c, concepts[c])'
  BY <1>1 DEF DraftInv, JustReviewed, Included, Created
<1>7. (\A d \in Concepts : Created(d) /\ Last(concepts[d]).identity = "merged" =>
          LET e == Last(concepts[d]).into IN
          e \in Concepts /\ Created(e) /\ Last(concepts[e]).identity = "active")'
  BY <1>1 DEF DraftInv, Created
<1>8. \A q \in Relations : Known(q)' => q.source # q.target /\ Canonical(q) = q
  BY <1>3 DEF DraftInv
<1>9. ASSUME NEW q \in DraftRelationIds'
      PROVE  JustReviewed("relation_review", q, relations[q])' /\ Bound(q)'
  <2>1. CASE q = r
    <3>1. lasting
      BY <1>2, <1>9, <2>1 DEF DraftRelationIds, InForce
    <3>2. Receipt("relation_review", r, n, n + 1) \in receipts' /\ (n + 1) - 1 = n
      BY <1>1, <1>2, <3>1
    <3>3. JustReviewed("relation_review", q, relations[q])'
      BY <1>2, <2>1, <3>1, <3>2 DEF JustReviewed
    <3>4. EndpointEvidence(r)' = EndpointEvidence(r) /\ Included(r.source)' /\ Included(r.target)'
      BY <1>1, <3>1 DEF EndpointEvidence, Included, Created
    <3>5. BoundTo(r, Len(concepts[r.source]), Len(concepts[r.target]))'
      BY <1>1, <1>2, <3>1 DEF BoundTo
    <3>6. Supported(Last(relations[r]).basis, Last(relations[r]).evidence, EndpointEvidence(r))'
      BY <1>2, <3>1, <3>4 DEF Supported
    <3> QED BY <2>1, <3>3, <3>4, <3>5, <3>6 DEF Bound
  <2>2. CASE q # r
    <3>1. q \in DraftRelationIds /\ relations'[q] = relations[q]
      BY <1>2, <1>3, <1>9, <2>2 DEF DraftRelationIds
    <3>2. JustReviewed("relation_review", q, relations[q]) /\ Bound(q)
      BY <3>1 DEF DraftInv
    <3>3. EndpointEvidence(q)' = EndpointEvidence(q)
      BY <1>1 DEF EndpointEvidence
    <3>4. JustReviewed("relation_review", q, relations[q])'
      <4>1. receipts \subseteq receipts'
        BY <1>1
      <4> QED BY <3>1, <3>2, <4>1 DEF JustReviewed
    <3> QED BY <1>1, <3>1, <3>2, <3>3, <3>4 DEF Bound, Included, Created, BoundTo, Supported
  <2> QED BY <2>1, <2>2
<1>10. Acyclic(Concepts, PrerequisiteEdges(DraftRelationIds))'
  <2> DEFINE others == {s \in Relations \ {r} : InForce(s)}
             edges == PrerequisiteEdges(others)
             after == PrerequisiteEdges(DraftRelationIds')
  <2>1. /\ others \in SUBSET DraftRelationIds /\ DraftRelationIds \in SUBSET Relations
        /\ DraftRelationIds' \in SUBSET (others \cup {r})
    BY <1>3 DEF DraftRelationIds
  <2>2. edges \in SUBSET PrerequisiteEdges(DraftRelationIds) /\ edges \in SUBSET (Concepts \X Concepts)
    BY <2>1, PrerequisiteFacts
  <2>3. Acyclic(Concepts, edges)
    BY <2>2, FewerEdges DEF DraftInv
  <2>4. CASE r \in DraftRelationIds' /\ r.type = "prerequisite"
    <3>1. lasting
      BY <1>2, <2>4 DEF DraftRelationIds, InForce
    <3>2. r.source \notin Reached(r.target, edges) /\ r.source \in Concepts /\ r.target \in Concepts
      BY <2>4, <3>1, GraphAssumption DEF NoPrerequisiteCycle
    <3>3. Acyclic(Concepts, edges \cup {<<r.source, r.target>>})
      <4> HIDE DEF edges
      <4> QED BY <2>2, <2>3, <3>2, EdgeKeepsAcyclic, GraphAssumption
    <3>4. after \in SUBSET (edges \cup {<<r.source, r.target>>})
      BY <2>1 DEF PrerequisiteEdges
    <3>5. Acyclic(Concepts, after)
      <4> HIDE DEF after, edges
      <4> QED BY <3>3, <3>4, FewerEdges
    <3> QED BY <3>5
  <2>5. CASE ~(r \in DraftRelationIds' /\ r.type = "prerequisite")
    <3>1. after \in SUBSET edges
      BY <2>1, <2>5 DEF PrerequisiteEdges
    <3>2. Acyclic(Concepts, after)
      <4> HIDE DEF after, edges
      <4> QED BY <2>3, <3>1, FewerEdges
    <3> QED BY <3>2
  <2> QED BY <2>4, <2>5
<1> QED BY <1>4, <1>5, <1>6, <1>7, <1>8, <1>9, <1>10 DEF DraftInv

\* What an author quotes becomes evidence.
LEMMA ConceptEvidence ==
    ASSUME DraftInv, NEW ground \in Grounds
    PROVE  /\ {Snapshot(k) : k \in ground} \in SUBSET Quotes
           /\ IsFiniteSet({Snapshot(k) : k \in ground})
           /\ NewConcept({Snapshot(k) : k \in ground}) \in ConceptRows
<1>1. ground \subseteq Chunks /\ IsFiniteSet(ground)
  BY GraphAssumption
<1>2. \A k \in Chunks : Snapshot(k) \in Quotes
  BY DEF DraftInv, DraftTypes, Snapshot, Quotes
<1>3. {Snapshot(k) : k \in ground} \in SUBSET Quotes
  BY <1>1, <1>2
<1>4. IsFiniteSet({Snapshot(k) : k \in ground})
  <2> DEFINE T == {Snapshot(k) : k \in ground}
             f == [k \in ground |-> Snapshot(k)]
  <2>1. f \in [ground -> T] /\ \A y \in T : \E k \in ground : f[k] = y
    OBVIOUS
  <2> HIDE DEF f, T
  <2>2. IsFiniteSet(T)
    BY <1>1, <2>1, ImageFinite
  <2> QED BY <2>2 DEF T
<1> QED BY <1>3, <1>4 DEF NewConcept, ConceptRows, Reviews

LEMMA ActiveConcept ==
    ASSUME DraftInv, NEW c \in Concepts, NEW expected, Active(c, expected)
    PROVE  /\ expected = Len(concepts[c]) /\ expected \in Nat /\ Created(c)
           /\ Last(concepts[c]) \in ConceptRows /\ Last(concepts[c]).identity = "active"
           /\ IsFiniteSet(Last(concepts[c]).evidence)
<1>1. concepts[c] \in Seq(ConceptRows) /\ concepts[c] # <<>>
  BY DEF DraftInv, DraftTypes, Active, Created
<1>2. Last(concepts[c]) \in ConceptRows /\ Len(concepts[c]) \in Nat
  BY <1>1 DEF Last
<1> QED BY <1>2 DEF Active, IsHead, DraftInv, DraftTypes

LEMMA ConceptStepInv ==
    ASSUME DraftInv, NEW c \in Concepts,
           \/ \E ground \in Grounds : CreateConcept(c, ground)
           \/ \E expected \in DOMAIN concepts[c] : ConceptStep(c, expected)
    PROVE  DraftInv'
<1>1. ASSUME NEW ground \in Grounds, CreateConcept(c, ground) PROVE DraftInv'
  <2> DEFINE row == NewConcept({Snapshot(k) : k \in ground})
  <2>1. row \in ConceptRows /\ IsFiniteSet({Snapshot(k) : k \in ground})
    BY ConceptEvidence
  <2>2. /\ row.identity = "active" /\ row.review = "candidate"
        /\ row.evidence = {Snapshot(k) : k \in ground}
    BY DEF NewConcept
  <2>3. Len(concepts[c]) = 0
    BY <1>1 DEF CreateConcept, Created
  <2>4. ConceptMoves(c, "concept_create", row)
    BY <1>1, <2>3 DEF CreateConcept, ConceptMoves, AppendConcept
  <2> HIDE DEF row
  <2> QED BY <2>1, <2>2, <2>4, ConceptMoveInv
<1>2. ASSUME NEW expected, NEW ground \in Grounds, EditConcept(c, expected, ground) PROVE DraftInv'
  <2> DEFINE row == NewConcept({Snapshot(k) : k \in ground})
  <2>1. row \in ConceptRows /\ IsFiniteSet({Snapshot(k) : k \in ground})
    BY ConceptEvidence
  <2>2. /\ row.identity = "active" /\ row.review = "candidate"
        /\ row.evidence = {Snapshot(k) : k \in ground}
    BY DEF NewConcept
  <2>3. expected = Len(concepts[c])
    BY <1>2, ActiveConcept DEF EditConcept
  <2>4. ConceptMoves(c, "concept_edit", row)
    BY <1>2, <2>3 DEF EditConcept, ConceptMoves
  <2> HIDE DEF row
  <2> QED BY <2>1, <2>2, <2>4, ConceptMoveInv
<1>3. ASSUME NEW expected, NEW decision \in Decisions, ReviewConcept(c, expected, decision)
      PROVE  DraftInv'
  <2> DEFINE head == Last(concepts[c])
             row == Reviewed(head, Len(concepts[c]), decision)
  <2>1. /\ expected = Len(concepts[c]) /\ expected \in Nat
        /\ head \in ConceptRows /\ head.identity = "active" /\ IsFiniteSet(head.evidence)
    BY <1>3, ActiveConcept DEF ReviewConcept
  <2>2. decision = "accept" => head.evidence # {}
    BY <1>3 DEF ReviewConcept, AllCurrent
  <2>3. /\ row \in ConceptRows /\ row.identity = "active" /\ row.evidence = head.evidence
        /\ row.reviewRevision = Len(concepts[c])
        /\ row.review = "accepted" => decision = "accept"
    <3> HIDE DEF head
    <3> QED BY <2>1 DEF Reviewed, ConceptRows, Reviews
  <2>4. ConceptMoves(c, "concept_review", row)
    BY <1>3, <2>1 DEF ReviewConcept, ConceptMoves
  <2> HIDE DEF row, head
  <2> QED BY <2>1, <2>2, <2>3, <2>4, ConceptMoveInv
<1>4. ASSUME NEW expected, MarkConceptStale(c, expected) PROVE DraftInv'
  <2> DEFINE head == Last(concepts[c])
             row == [head EXCEPT !.validity = "stale"]
  <2>1. /\ expected = Len(concepts[c])
        /\ head \in ConceptRows /\ head.identity = "active" /\ IsFiniteSet(head.evidence)
    BY <1>4, ActiveConcept DEF MarkConceptStale
  <2>2. /\ row \in ConceptRows /\ row.identity = "active" /\ row.evidence = head.evidence
        /\ row.validity = "stale"
    <3> HIDE DEF head
    <3> QED BY <2>1 DEF ConceptRows
  <2>3. ConceptMoves(c, "concept_mark_stale", row)
    BY <1>4, <2>1 DEF MarkConceptStale, ConceptMoves
  <2> HIDE DEF row, head
  <2> QED BY <2>1, <2>2, <2>3, ConceptMoveInv
<1>5. ASSUME NEW expected, NEW survivor \in Concepts, NEW seen,
             MergeConcept(c, expected, survivor, seen)
      PROVE  DraftInv'
  <2> DEFINE head == Last(concepts[c])
             row == [head EXCEPT !.identity = "merged", !.into = survivor]
  <2>1. /\ expected = Len(concepts[c])
        /\ head \in ConceptRows /\ IsFiniteSet(head.evidence)
        /\ Created(survivor) /\ Last(concepts[survivor]).identity = "active"
    BY <1>5, ActiveConcept DEF MergeConcept
  <2>2. /\ row \in ConceptRows /\ row.identity = "merged" /\ row.evidence = head.evidence
        /\ row.into = survivor
    <3> HIDE DEF head
    <3> QED BY <2>1 DEF ConceptRows
  <2>3. ConceptMoves(c, "concept_merge", row)
    BY <1>5, <2>1 DEF MergeConcept, ConceptMoves
  <2>4. survivor \in Concepts \ {c} /\ NoIncomingRedirects(c)
    BY <1>5 DEF MergeConcept
  <2> HIDE DEF row, head
  <2> QED BY <2>1, <2>2, <2>3, <2>4, ConceptMoveInv
<1>6. ASSUME NEW expected, RetireConcept(c, expected) PROVE DraftInv'
  <2> DEFINE head == Last(concepts[c])
             row == [head EXCEPT !.identity = "retired", !.into = None]
  <2>1. /\ expected = Len(concepts[c])
        /\ head \in ConceptRows /\ IsFiniteSet(head.evidence)
    BY <1>6, ActiveConcept DEF RetireConcept
  <2>2. row \in ConceptRows /\ row.identity = "retired" /\ row.evidence = head.evidence
    <3> HIDE DEF head
    <3> QED BY <2>1 DEF ConceptRows
  <2>3. ConceptMoves(c, "concept_retire", row) /\ NoIncomingRedirects(c)
    BY <1>6, <2>1 DEF RetireConcept, ConceptMoves
  <2> HIDE DEF row, head
  <2> QED BY <2>1, <2>2, <2>3, ConceptMoveInv
<1> QED BY <1>1, <1>2, <1>3, <1>4, <1>5, <1>6 DEF ConceptStep

LEMMA RelationEvidence ==
    ASSUME DraftInv, NEW items \in SUBSET [chunk : Chunks, role : Roles], IsFiniteSet(items),
           NEW basis \in {"source_asserted", "pedagogical_inference"},
           NEW source \in Nat, NEW target \in Nat
    PROVE  /\ IsFiniteSet(Grounded(items))
           /\ NewRelation(basis, Grounded(items), source, target) \in RelationRows
<1> DEFINE Quote(item) == [role |-> item.role, chunk |-> item.chunk,
                           generation |-> Snapshot(item.chunk).generation]
<1>1. \A item \in items : Quote(item) \in RoleQuotes
  BY DEF DraftInv, DraftTypes, Snapshot, RoleQuotes
<1> DEFINE T == {Quote(item) : item \in items}
           f == [item \in items |-> Quote(item)]
<1>2. f \in [items -> T] /\ \A y \in T : \E x \in items : f[x] = y
  <2> HIDE DEF Quote
  <2> QED OBVIOUS
<1>3. T \in SUBSET RoleQuotes
  BY <1>1
<1>4. Grounded(items) = T
  BY DEF Grounded
<1> HIDE DEF f, T
<1>5. IsFiniteSet(T)
  BY <1>2, ImageFinite
<1> QED BY <1>3, <1>4, <1>5 DEF NewRelation, RelationRows, Reviews

LEMMA CanonicalForm ==
    ASSUME NEW sent \in Relations, sent.source # sent.target, Canonical(sent) \in Relations,
           NEW items \in SUBSET [chunk : Chunks, role : Roles], IsFiniteSet(items)
    PROVE  LET r == Canonical(sent) IN
           /\ r.source # r.target /\ Canonical(r) = r
           /\ CanonicalItems(sent, items) \in SUBSET [chunk : Chunks, role : Roles]
           /\ IsFiniteSet(CanonicalItems(sent, items))
<1>1. /\ sent = [type |-> sent.type, source |-> sent.source, target |-> sent.target]
      /\ sent.source \in Concepts /\ sent.target \in Concepts
      /\ \A c, d \in Concepts : Before(c, d) => ~Before(d, c)
  BY GraphAssumption
<1>2. CASE Canonical(sent) = sent
  BY <1>2 DEF CanonicalItems
<1>3. CASE Canonical(sent) # sent
  <2> DEFINE r == Canonical(sent)
             Other(item) == [item EXCEPT !.role = SwappedRole(item.role)]
             T == {Other(item) : item \in items}
             f == [item \in items |-> Other(item)]
  <2>1. /\ r = [sent EXCEPT !.source = sent.target, !.target = sent.source]
        /\ sent.type \in Symmetric /\ Before(sent.target, sent.source)
    BY <1>3 DEF Canonical
  <2>2. r.type = sent.type /\ r.source = sent.target /\ r.target = sent.source
    BY <1>1, <2>1
  <2>3. Canonical(r) = r
    <3>1. ~Before(r.target, r.source)
      BY <1>1, <2>1, <2>2
    <3> HIDE DEF r
    <3> QED BY <3>1 DEF Canonical
  <2>4. \A item \in items : Other(item) \in [chunk : Chunks, role : Roles]
    BY DEF SwappedRole, Roles
  <2>5. f \in [items -> T] /\ \A y \in T : \E x \in items : f[x] = y
    <3> HIDE DEF Other
    <3> QED OBVIOUS
  <2>6. CanonicalItems(sent, items) = T
    BY <1>3 DEF CanonicalItems
  <2>7. T \in SUBSET [chunk : Chunks, role : Roles]
    BY <2>4
  <2> HIDE DEF f, T, r
  <2>8. IsFiniteSet(T)
    BY <2>5, ImageFinite
  <2> QED BY <2>2, <2>3, <2>6, <2>7, <2>8 DEF r
<1> QED BY <1>2, <1>3

LEMMA KnownRelation ==
    ASSUME DraftInv, NEW r \in Relations, Known(r)
    PROVE  /\ Last(relations[r]) \in RelationRows /\ Len(relations[r]) \in Nat
           /\ IsFiniteSet(Last(relations[r]).evidence)
           /\ r.source # r.target /\ Canonical(r) = r
<1>1. relations[r] \in Seq(RelationRows) /\ relations[r] # <<>>
  BY DEF DraftInv, DraftTypes, Known
<1>2. Last(relations[r]) \in RelationRows /\ Len(relations[r]) \in Nat
  BY <1>1 DEF Last
<1> QED BY <1>2 DEF DraftInv, DraftTypes

LEMMA EndpointLengths ==
    ASSUME DraftInv, NEW r \in Relations
    PROVE  Len(concepts[r.source]) \in Nat /\ Len(concepts[r.target]) \in Nat
<1>1. r.source \in Concepts /\ r.target \in Concepts
  BY GraphAssumption
<1>2. concepts[r.source] \in Seq(ConceptRows) /\ concepts[r.target] \in Seq(ConceptRows)
  BY <1>1 DEF DraftInv, DraftTypes
<1> QED BY <1>2

LEMMA RelationStepInv ==
    ASSUME DraftInv, NEW r \in Relations,
           \/ \E support \in Supports : CreateRelation(r, support)
           \/ \E expected \in DOMAIN relations[r] : RelationStep(r, expected)
    PROVE  DraftInv'
<1>0. \A support \in Supports :
         /\ support.basis \in {"source_asserted", "pedagogical_inference"}
         /\ support.items \in SUBSET [chunk : Chunks, role : Roles] /\ IsFiniteSet(support.items)
  BY GraphAssumption DEF Roles
<1>1. ASSUME NEW support \in Supports, CreateRelation(r, support) PROVE DraftInv'
  <2> DEFINE q == Canonical(r)
             items == CanonicalItems(r, support.items)
             row == NewRelation(support.basis, Grounded(items),
                                Len(concepts[q.source]), Len(concepts[q.target]))
  <2>1. q \in Relations /\ ~Known(q) /\ r.source # r.target
    BY <1>1 DEF CreateRelation
  <2>2. /\ q.source # q.target /\ Canonical(q) = q
        /\ items \in SUBSET [chunk : Chunks, role : Roles] /\ IsFiniteSet(items)
    BY <1>0, <2>1, CanonicalForm
  <2>3. RelationMoves(q, "relation_create", row)
    <3>1. Len(relations[q]) = 0
      BY <2>1 DEF Known
    <3>2. AppendRelation(q, "relation_create", 0, row) /\ UNCHANGED <<concepts, sourceVars>>
      BY <1>1 DEF CreateRelation
    <3> HIDE DEF row, q
    <3> QED BY <3>1, <3>2 DEF RelationMoves
  <2> HIDE DEF items, q
  <2>4. IsFiniteSet(Grounded(items)) /\ row \in RelationRows
    BY <1>0, <2>1, <2>2, RelationEvidence, EndpointLengths
  <2>5. row.review = "candidate" /\ row.evidence = Grounded(items)
    BY DEF NewRelation
  <2> HIDE DEF row
  <2> QED BY <2>1, <2>2, <2>3, <2>4, <2>5, RelationMoveInv
<1>2. ASSUME NEW expected, NEW source, NEW target, NEW support \in Supports,
             EditRelation(r, expected, source, target, support)
      PROVE  DraftInv'
  <2> DEFINE row == NewRelation(support.basis, Grounded(support.items), source, target)
  <2>1. /\ Known(r) /\ expected = Len(relations[r])
        /\ source = Len(concepts[r.source]) /\ target = Len(concepts[r.target])
    BY <1>2 DEF EditRelation, IsHead, ExpectedEndpoints
  <2>2. IsFiniteSet(Grounded(support.items)) /\ row \in RelationRows
    BY <1>0, <2>1, RelationEvidence, EndpointLengths
  <2>3. row.review = "candidate" /\ row.evidence = Grounded(support.items)
    BY DEF NewRelation
  <2>4. RelationMoves(r, "relation_edit", row)
    BY <1>2, <2>1 DEF EditRelation, RelationMoves
  <2> HIDE DEF row
  <2> QED BY <2>1, <2>2, <2>3, <2>4, KnownRelation, RelationMoveInv
<1>3. ASSUME NEW expected, NEW source, NEW target, NEW decision \in Decisions,
             ReviewRelation(r, expected, source, target, decision)
      PROVE  DraftInv'
  <2> DEFINE head == Last(relations[r])
             row == Reviewed(head, Len(relations[r]), decision)
  <2>1. /\ Known(r) /\ expected = Len(relations[r])
        /\ head.source = source /\ head.target = target
        /\ decision = "accept" => AcceptableRelation(r, source, target)
    BY <1>3 DEF ReviewRelation, IsHead, BoundTo
  <2>2. /\ head \in RelationRows /\ IsFiniteSet(head.evidence) /\ Len(relations[r]) \in Nat
        /\ r.source # r.target /\ Canonical(r) = r
    BY <2>1, KnownRelation
  <2>3. /\ row \in RelationRows /\ row.evidence = head.evidence /\ row.basis = head.basis
        /\ row.source = head.source /\ row.target = head.target
        /\ row.reviewRevision = Len(relations[r])
        /\ row.review = "accepted" => decision = "accept"
    <3> HIDE DEF head
    <3> QED BY <2>2 DEF Reviewed, RelationRows, Reviews
  <2>4. RelationMoves(r, "relation_review", row)
    BY <1>3, <2>1 DEF ReviewRelation, RelationMoves
  <2>5. ASSUME decision = "accept"
        PROVE  /\ Included(r.source) /\ Included(r.target)
               /\ source = Len(concepts[r.source]) /\ target = Len(concepts[r.target])
               /\ head.evidence # {}
               /\ Supported(head.basis, head.evidence, EndpointEvidence(r))
               /\ r.type = "prerequisite" => NoPrerequisiteCycle(r)
    <3>1. AcceptableRelation(r, source, target)
      BY <2>1, <2>5
    <3> QED BY <3>1
            DEF AcceptableRelation, ExpectedEndpoints, IsHead, Endpoint, Included, AllCurrent
  <2> HIDE DEF row, head
  <2>6. row.review = "accepted" =>
           /\ row.evidence # {} /\ Included(r.source) /\ Included(r.target)
           /\ row.source = Len(concepts[r.source]) /\ row.target = Len(concepts[r.target])
           /\ Supported(row.basis, row.evidence, EndpointEvidence(r))
           /\ r.type = "prerequisite" => NoPrerequisiteCycle(r)
    BY <2>1, <2>3, <2>5
  <2> QED BY <2>2, <2>3, <2>4, <2>6, RelationMoveInv
<1>4. ASSUME NEW expected, MarkRelationStale(r, expected) PROVE DraftInv'
  <2> DEFINE head == Last(relations[r])
             row == [head EXCEPT !.validity = "stale"]
  <2>1. Known(r) /\ expected = Len(relations[r])
    BY <1>4 DEF MarkRelationStale, IsHead
  <2>2. /\ head \in RelationRows /\ IsFiniteSet(head.evidence)
        /\ r.source # r.target /\ Canonical(r) = r
    BY <2>1, KnownRelation
  <2>3. row \in RelationRows /\ row.evidence = head.evidence /\ row.validity = "stale"
    <3> HIDE DEF head
    <3> QED BY <2>2 DEF RelationRows
  <2>4. RelationMoves(r, "relation_mark_stale", row)
    BY <1>4, <2>1 DEF MarkRelationStale, RelationMoves
  <2> HIDE DEF row, head
  <2> QED BY <2>2, <2>3, <2>4, RelationMoveInv
<1> QED BY <1>1, <1>2, <1>3, <1>4 DEF RelationStep

LEMMA DraftStepInv == ASSUME DraftInv, [Next]_vars PROVE DraftInv'
<1>1. CASE DraftStep
  BY <1>1, ConceptStepInv, RelationStepInv DEF DraftStep
<1>2. ASSUME UNCHANGED draftVars, chunks' \in [Chunks -> [generation : Nat, live : BOOLEAN]]
      PROVE  DraftInv'
  BY <1>2, ZenonT(60)
     DEF draftVars, DraftInv, DraftTypes, ReceiptsFollow, JustReviewed, Bound, Included,
         Created, Known, BoundTo, Supported, EndpointEvidence, DraftRelationIds, InForce
<1>3. CASE SourceStep
  <2>1. chunks \in [Chunks -> [generation : Nat, live : BOOLEAN]]
    BY DEF DraftInv, DraftTypes
  <2>2. UNCHANGED draftVars /\ chunks' \in [Chunks -> [generation : Nat, live : BOOLEAN]]
    <3>1. ASSUME NEW chunk \in Chunks, Regenerate(chunk)
          PROVE  UNCHANGED draftVars /\ chunks' \in [Chunks -> [generation : Nat, live : BOOLEAN]]
      BY <2>1, <3>1 DEF Regenerate
    <3>2. ASSUME NEW chunk \in Chunks, SwitchSource(chunk)
          PROVE  UNCHANGED draftVars /\ chunks' \in [Chunks -> [generation : Nat, live : BOOLEAN]]
      BY <2>1, <3>2 DEF SwitchSource
    <3>3. CASE SwitchCourse
      BY <2>1, <3>3 DEF SwitchCourse
    <3> QED BY <1>3, <3>1, <3>2, <3>3 DEF SourceStep
  <2> QED BY <1>2, <2>2
<1>4. CASE UNCHANGED graphVars
  <2>1. UNCHANGED draftVars /\ chunks' \in [Chunks -> [generation : Nat, live : BOOLEAN]]
    BY <1>4 DEF graphVars, draftVars, DraftInv, DraftTypes
  <2> QED BY <1>2, <2>1
<1> QED BY <1>1, <1>3, <1>4 DEF Next, PublicationStep, Preview, PublishVersion, vars

LEMMA DraftStart == Init => DraftInv
<1> SUFFICES ASSUME Init PROVE DraftInv
  OBVIOUS
<1>1. DraftTypes
  BY DEF Init, DraftTypes, Created, Known
<1>2. /\ \A c \in Concepts : ~Created(c)
      /\ \A r \in Relations : ~Known(r)
      /\ receipts = {}
  BY DEF Init, Created, Known
<1>3. DraftRelationIds = {}
  BY <1>2 DEF DraftRelationIds, InForce
<1>4. Acyclic(Concepts, PrerequisiteEdges(DraftRelationIds))
  BY <1>3 DEF Acyclic, PrerequisiteEdges
<1> QED BY <1>1, <1>2, <1>3, <1>4 DEF DraftInv, ReceiptsFollow, Included

----------------------------------------------------------------------------
(* What the gate says of such a draft.                                     *)

LEMMA OneReceipt ==
    ASSUME ReceiptsFollow, NEW kind, NEW entity, NEW n \in Nat, n >= 1,
           Receipt(kind, entity, n - 1, n) \in receipts
    PROVE  ReviewReceipts(kind, entity, n) = {Receipt(kind, entity, n - 1, n)}
<1>1. Receipt(kind, entity, n - 1, n) \in ReviewReceipts(kind, entity, n)
  BY DEF ReviewReceipts
<1>2. ASSUME NEW x \in ReviewReceipts(kind, entity, n)
      PROVE  x = Receipt(kind, entity, n - 1, n)
  <2>1. PICK expected \in 0 .. n : x = Receipt(kind, entity, expected, n)
    BY DEF ReviewReceipts
  <2>2. x.expected = expected /\ x.revision = n
    BY <2>1 DEF Receipt
  <2>3. x.revision = x.expected + 1
    BY DEF ReviewReceipts, ReceiptsFollow
  <2>4. expected = n - 1
    BY <2>2, <2>3
  <2> QED BY <2>1, <2>4
<1> QED BY <1>1, <1>2

LEMMA NoReceiptIssues ==
    ASSUME NEW item, NEW x, item.receipts = {x}, item.reviewRevision = item.revision - 1
    PROVE  ReceiptIssues(item) = {}
<1>1. Cardinality(item.receipts) = 1 /\ item.receipts # {}
  BY FS_Singleton
<1> QED BY <1>1 DEF ReceiptIssues, IssueIf

LEMMA IncludedConcept ==
    ASSUME DraftInv, NEW c \in DraftConceptIds
    PROVE  /\ c \in Concepts /\ Included(c)
           /\ ReceiptIssues(DraftConcept(c)) = {}
           /\ DraftConcept(c).evidence = Last(concepts[c]).evidence
           /\ DraftConcept(c).evidence # {} /\ IsFiniteSet(DraftConcept(c).evidence)
<1>1. c \in Concepts /\ Included(c) /\ Created(c) /\ concepts[c] \in Seq(ConceptRows)
  BY DEF DraftConceptIds, Included, DraftInv, DraftTypes
<1>2. JustReviewed("concept_review", c, concepts[c]) /\ IsFiniteSet(Last(concepts[c]).evidence)
  BY <1>1 DEF DraftInv, DraftTypes
<1>3. Len(concepts[c]) \in Nat /\ Len(concepts[c]) >= 1
  BY <1>1 DEF Created
<1>4. ReviewReceipts("concept_review", c, Len(concepts[c])) =
         {Receipt("concept_review", c, Len(concepts[c]) - 1, Len(concepts[c]))}
  BY <1>2, <1>3, OneReceipt DEF JustReviewed, DraftInv
<1>5. ReceiptIssues(DraftConcept(c)) = {}
  <2>1. /\ DraftConcept(c).receipts = ReviewReceipts("concept_review", c, Len(concepts[c]))
        /\ DraftConcept(c).reviewRevision = DraftConcept(c).revision - 1
    BY <1>2 DEF DraftConcept, JustReviewed
  <2> QED BY <1>4, <2>1, NoReceiptIssues
<1> QED BY <1>1, <1>2, <1>5 DEF DraftConcept, JustReviewed

LEMMA IncludedRelation ==
    ASSUME DraftInv, NEW r \in DraftRelationIds
    PROVE  /\ r \in Relations /\ InForce(r) /\ Bound(r)
           /\ ReceiptIssues(DraftRelation(r)) = {}
           /\ RelationIssues(DraftRelation(r)) = {}
           /\ DraftRelation(r).evidence = Last(relations[r]).evidence
           /\ DraftRelation(r).evidence # {} /\ IsFiniteSet(DraftRelation(r).evidence)
<1>1. r \in Relations /\ InForce(r) /\ Known(r) /\ relations[r] \in Seq(RelationRows)
  BY DEF DraftRelationIds, InForce, DraftInv, DraftTypes
<1>2. /\ JustReviewed("relation_review", r, relations[r]) /\ Bound(r)
      /\ IsFiniteSet(Last(relations[r]).evidence)
      /\ r.source # r.target /\ Canonical(r) = r
  BY <1>1 DEF DraftInv, DraftTypes
<1>3. Len(relations[r]) \in Nat /\ Len(relations[r]) >= 1
  BY <1>1 DEF Known
<1>4. ReviewReceipts("relation_review", r, Len(relations[r])) =
         {Receipt("relation_review", r, Len(relations[r]) - 1, Len(relations[r]))}
  BY <1>2, <1>3, OneReceipt DEF JustReviewed, DraftInv
<1> DEFINE item == DraftRelation(r)
<1>5. /\ item.id = r /\ item.revision = Len(relations[r])
      /\ item.evidence = Last(relations[r]).evidence /\ item.basis = Last(relations[r]).basis
      /\ item.source = Last(relations[r]).source /\ item.target = Last(relations[r]).target
      /\ item.reviewRevision = Last(relations[r]).reviewRevision
      /\ item.receipts = ReviewReceipts("relation_review", r, Len(relations[r]))
  BY DEF DraftRelation
<1> HIDE DEF item
<1>6. ReceiptIssues(item) = {}
  BY <1>2, <1>4, <1>5, NoReceiptIssues DEF JustReviewed
<1>7. RelationIssues(item) = {}
  <2>1. /\ EndpointIssues(item, r.source, item.source, "source") = {}
        /\ EndpointIssues(item, r.target, item.target, "target") = {}
    BY <1>2, <1>5 DEF Bound, BoundTo, EndpointIssues, IssueIf
  <2>2. Supported(item.basis, item.evidence, EndpointEvidence(r))
    BY <1>2, <1>5 DEF Bound
  <2> QED BY <1>2, <1>5, <2>1, <2>2 DEF RelationIssues, IssueIf, Supported
<1> QED BY <1>1, <1>2, <1>5, <1>6, <1>7 DEF JustReviewed, item

LEMMA DraftHasNoCycle ==
    ASSUME DraftInv
    PROVE  /\ ~HasCycle(Concepts, PrerequisiteEdges(DraftRelationIds))
           /\ ~HasCycle(DraftConceptIds, PrerequisiteEdges(DraftRelationIds))
<1> DEFINE edges == PrerequisiteEdges(DraftRelationIds)
<1>1. IsFiniteSet(Concepts) /\ DraftConceptIds \in SUBSET Concepts /\ Acyclic(Concepts, edges)
  BY GraphAssumption DEF DraftConceptIds, DraftInv
<1> HIDE DEF edges
<1>2. IsFiniteSet(DraftConceptIds) /\ Acyclic(DraftConceptIds, edges)
  BY <1>1, FS_Subset, FewerEdges
<1> QED BY <1>1, <1>2, CycleFound DEF edges

\* The only things the gate can find.
LEMMA IssuesFound ==
    ASSUME DraftInv
    PROVE  DraftIssues(Content) =
             (UNION {EvidenceIssues(i, "concept") : i \in Content.concepts})
             \cup (UNION {EvidenceIssues(i, "relation") : i \in Content.relations})
             \cup IssueIf(Content.concepts = {}, "concept_set_empty", None)
<1>1. \A i \in Content.concepts : ReceiptIssues(i) = {}
  BY ContentIds, IncludedConcept
<1>2. \A i \in Content.relations : ReceiptIssues(i) = {} /\ RelationIssues(i) = {}
  BY ContentIds, IncludedRelation
<1>3. IssueIf(HasCycle(DraftConceptIds, PrerequisiteEdges(DraftRelationIds)),
              "prerequisite_cycle", None) = {}
  BY DraftHasNoCycle DEF IssueIf
<1>4. /\ \A i \in Content.concepts :
            ReceiptIssues(i) \cup EvidenceIssues(i, "concept") = EvidenceIssues(i, "concept")
      /\ \A i \in Content.relations :
            ReceiptIssues(i) \cup EvidenceIssues(i, "relation") \cup RelationIssues(i) =
               EvidenceIssues(i, "relation")
  BY <1>1, <1>2
<1>5. /\ {ReceiptIssues(i) \cup EvidenceIssues(i, "concept") : i \in Content.concepts} =
           {EvidenceIssues(i, "concept") : i \in Content.concepts}
      /\ {ReceiptIssues(i) \cup EvidenceIssues(i, "relation") \cup RelationIssues(i)
             : i \in Content.relations} = {EvidenceIssues(i, "relation") : i \in Content.relations}
  BY <1>4
<1> QED BY <1>3, <1>5 DEF DraftIssues

LEMMA ContentEvidence ==
    ASSUME DraftInv
    PROVE  /\ \A i \in Content.concepts : i.evidence # {} /\ IsFiniteSet(i.evidence)
           /\ \A i \in Content.relations : i.evidence # {} /\ IsFiniteSet(i.evidence)
BY ContentIds, IncludedConcept, IncludedRelation

LEMMA IssueCodes ==
    ASSUME DraftInv, NEW issue \in DraftIssues(Content)
    PROVE  issue.code \in {"concept_evidence_not_current",
                           "relation_evidence_not_current", "concept_set_empty"}
<1>1. ASSUME NEW i \in Content.concepts, issue \in EvidenceIssues(i, "concept")
      PROVE  issue.code = "concept_evidence_not_current"
  BY <1>1, ContentEvidence DEF EvidenceIssues, IssueIf, Issue
<1>2. ASSUME NEW i \in Content.relations, issue \in EvidenceIssues(i, "relation")
      PROVE  issue.code = "relation_evidence_not_current"
  BY <1>2, ContentEvidence DEF EvidenceIssues, IssueIf, Issue
<1>3. ASSUME issue \in IssueIf(Content.concepts = {}, "concept_set_empty", None)
      PROVE  issue.code = "concept_set_empty"
  BY <1>3 DEF IssueIf, Issue
<1> QED BY <1>1, <1>2, <1>3, IssuesFound

LEMMA CleanMeansCurrent ==
    ASSUME DraftInv
    PROVE  DraftIssues(Content) = {} <=>
              /\ Content.concepts # {}
              /\ \A i \in Content.concepts \cup Content.relations :
                    \A e \in i.evidence : EvidenceIsCurrent(e)
<1>1. \A i, kind : i.evidence # {} =>
         (EvidenceIssues(i, kind) = {} <=> \A e \in i.evidence : EvidenceIsCurrent(e))
  BY DEF EvidenceIssues, IssueIf
<1>2. IssueIf(Content.concepts = {}, "concept_set_empty", None) = {} <=> Content.concepts # {}
  BY DEF IssueIf
<1>3. DraftIssues(Content) = {} <=>
         /\ \A i \in Content.concepts : EvidenceIssues(i, "concept") = {}
         /\ \A i \in Content.relations : EvidenceIssues(i, "relation") = {}
         /\ IssueIf(Content.concepts = {}, "concept_set_empty", None) = {}
  BY IssuesFound
<1> QED BY <1>1, <1>2, <1>3, ContentEvidence

\* The editor and the gate judge evidence alike.
LEMMA SameJudgement ==
    ASSUME NEW evidence, evidence # {}
    PROVE  AllCurrent(evidence) <=> \A e \in evidence : EvidenceIsCurrent(e)
BY DEF AllCurrent, ProjectionIsCurrent, Groundable, EvidenceIsCurrent

LEMMA ReadyMeansClean ==
    ASSUME DraftInv
    PROVE  DraftIssues(Content) = {} <=>
             /\ DraftConceptIds # {}
             /\ \A c \in DraftConceptIds : EligibleConcept(c)
             /\ \A r \in DraftRelationIds : EligibleRelation(r)
<1> DEFINE Fresh(i) == \A e \in i.evidence : EvidenceIsCurrent(e)
<1>1. /\ Content.concepts = {DraftConcept(c) : c \in DraftConceptIds}
      /\ Content.relations = {DraftRelation(r) : r \in DraftRelationIds}
  BY DEF Content
<1>2. \A c \in DraftConceptIds : EligibleConcept(c) <=> Fresh(DraftConcept(c))
  BY IncludedConcept, SameJudgement DEF EligibleConcept
<1>3. ASSUME \A c \in DraftConceptIds : EligibleConcept(c), NEW r \in DraftRelationIds
      PROVE  EligibleRelation(r) <=> Fresh(DraftRelation(r))
  <2>1. /\ r \in Relations /\ InForce(r) /\ Bound(r)
        /\ DraftRelation(r).evidence = Last(relations[r]).evidence /\ DraftRelation(r).evidence # {}
    BY IncludedRelation
  <2>2. r.source \in DraftConceptIds /\ r.target \in DraftConceptIds
    BY <2>1, GraphAssumption DEF Bound, DraftConceptIds
  <2>3. EligibleConcept(r.source) /\ EligibleConcept(r.target)
    BY <1>3, <2>2
  <2>4. BoundTo(r, Len(concepts[r.source]), Len(concepts[r.target]))
    BY <2>1 DEF Bound
  <2>5. {e.role : e \in Last(relations[r]).evidence} =
           IF Last(relations[r]).basis = "source_asserted" THEN {"relation_assertion"}
           ELSE {"source_endpoint", "target_endpoint"}
    BY <2>1 DEF Bound, Supported
  <2>6. AllCurrent(Last(relations[r]).evidence) <=> Fresh(DraftRelation(r))
    BY <2>1, SameJudgement
  <2> QED BY <2>1, <2>3, <2>4, <2>5, <2>6 DEF EligibleRelation
<1>4. DraftIssues(Content) = {} <=>
         /\ Content.concepts # {}
         /\ \A i \in Content.concepts : Fresh(i)
         /\ \A i \in Content.relations : Fresh(i)
  BY CleanMeansCurrent
<1> HIDE DEF Fresh
<1>5. /\ Content.concepts # {} <=> DraftConceptIds # {}
      /\ (\A i \in Content.concepts : Fresh(i)) <=> \A c \in DraftConceptIds : Fresh(DraftConcept(c))
      /\ (\A i \in Content.relations : Fresh(i)) <=> \A r \in DraftRelationIds : Fresh(DraftRelation(r))
  BY <1>1
<1> QED BY <1>2, <1>3, <1>4, <1>5

\* The rows of a version, one by one.
ItemRows(n, type, items) ==
    {[version |-> n, type |-> type, row |-> [item EXCEPT !.evidence = {}]] : item \in items}
CitedRows(n, type, items) ==
    UNION {{[version |-> n, type |-> type, owner |-> item.id,
             revision |-> item.revision, row |-> e] : e \in item.evidence} : item \in items}

LEMMA ItemsCounted ==
    ASSUME NEW n, NEW type, NEW items, IsFiniteSet(items),
           \A i \in items : [i EXCEPT !.evidence = {}].id = i.id,
           \A i, j \in items : i.id = j.id => i = j
    PROVE  Cardinality(ItemRows(n, type, items)) = Cardinality(items)
<1> DEFINE Bare(i) == [i EXCEPT !.evidence = {}]
           Row(i) == [version |-> n, type |-> type, row |-> Bare(i)]
           f == [i \in items |-> Row(i)]
           T == ItemRows(n, type, items)
<1>1. f \in [items -> T] /\ \A y \in T : \E i \in items : f[i] = y
  BY DEF ItemRows
<1>2. \A i, j \in items : f[i] = f[j] => i = j
  <2> HIDE DEF Bare
  <2>1. \A i, j \in items : f[i] = f[j] => Bare(i) = Bare(j)
    OBVIOUS
  <2>2. \A i \in items : Bare(i).id = i.id
    BY DEF Bare
  <2> QED BY <2>1, <2>2
<1> HIDE DEF f, T
<1>3. Cardinality(T) = Cardinality(items)
  BY <1>1, <1>2, ImageFinite
<1> QED BY <1>3 DEF T

LEMMA CitedCounted ==
    ASSUME NEW n, NEW type, NEW items, IsFiniteSet(items),
           \A i \in items : IsFiniteSet(i.evidence)
    PROVE  Cardinality(CitedRows(n, type, items)) = EvidenceCount(items)
<1> DEFINE Of(i) == {<<i.id, i.revision, e>> : e \in i.evidence}
           S == UNION {Of(i) : i \in items}
           Row(x) == [version |-> n, type |-> type, owner |-> x[1], revision |-> x[2], row |-> x[3]]
           f == [x \in S |-> Row(x)]
           T == CitedRows(n, type, items)
<1>1. IsFiniteSet(S)
  <2>1. ASSUME NEW i \in items PROVE IsFiniteSet(Of(i))
    <3> DEFINE g == [e \in i.evidence |-> <<i.id, i.revision, e>>]
               U == Of(i)
    <3>1. g \in [i.evidence -> U] /\ \A y \in U : \E e \in i.evidence : g[e] = y
      OBVIOUS
    <3> HIDE DEF g, U
    <3>2. IsFiniteSet(U)
      BY <3>1, ImageFinite
    <3> QED BY <3>2 DEF U
  <2> DEFINE U == {Of(i) : i \in items}
             h == [i \in items |-> Of(i)]
  <2>2. h \in [items -> U] /\ (\A y \in U : \E i \in items : h[i] = y)
        /\ \A y \in U : IsFiniteSet(y)
    <3> HIDE DEF Of
    <3> QED BY <2>1
  <2> HIDE DEF U, h
  <2>3. IsFiniteSet(U)
    BY <2>2, ImageFinite
  <2>4. IsFiniteSet(UNION U)
    BY <2>2, <2>3, FS_UNION
  <2> QED BY <2>4 DEF U
<1>2. T = {Row(x) : x \in S}
  <2>1. \A i \in items : {[version |-> n, type |-> type, owner |-> i.id,
                           revision |-> i.revision, row |-> e] : e \in i.evidence}
                         = {Row(x) : x \in Of(i)}
    <3> SUFFICES ASSUME NEW i \in items
                 PROVE  {[version |-> n, type |-> type, owner |-> i.id,
                          revision |-> i.revision, row |-> e] : e \in i.evidence}
                        = {Row(x) : x \in Of(i)}
      OBVIOUS
    <3> DEFINE Cited(e) == [version |-> n, type |-> type, owner |-> i.id,
                            revision |-> i.revision, row |-> e]
               Key(e) == <<i.id, i.revision, e>>
    <3>1. \A e : Row(Key(e)) = Cited(e)
      OBVIOUS
    <3>2. Of(i) = {Key(e) : e \in i.evidence}
      OBVIOUS
    <3> HIDE DEF Row, Key, Of
    <3>3. {Row(x) : x \in Of(i)} = {Row(Key(e)) : e \in i.evidence}
      BY <3>2
    <3>4. {Row(Key(e)) : e \in i.evidence} = {Cited(e) : e \in i.evidence}
      BY <3>1
    <3> QED BY <3>3, <3>4
  <2> QED BY <2>1 DEF CitedRows
<1>3. f \in [S -> T] /\ \A y \in T : \E x \in S : f[x] = y
  <2> HIDE DEF T, S, Row
  <2> QED BY <1>2
<1>4. \A x, y \in S : f[x] = f[y] => x = y
  <2>1. \A x \in S : x = <<x[1], x[2], x[3]>>
    OBVIOUS
  <2>2. \A x \in S : /\ f[x] = Row(x)
                    /\ f[x].owner = x[1] /\ f[x].revision = x[2] /\ f[x].row = x[3]
    <3>1. \A x : Row(x).owner = x[1] /\ Row(x).revision = x[2] /\ Row(x).row = x[3]
      OBVIOUS
    <3> HIDE DEF S, Row
    <3>2. \A x \in S : f[x] = Row(x)
      OBVIOUS
    <3> HIDE DEF f
    <3> QED BY <3>1, <3>2
  <2> HIDE DEF S, f, Row, T
  <2>3. \A x, y \in S : f[x] = f[y] => x[1] = y[1] /\ x[2] = y[2] /\ x[3] = y[3]
    BY <2>2
  <2> QED BY <2>1, <2>3
<1> HIDE DEF f, T, S
<1>5. Cardinality(T) = Cardinality(S)
  BY <1>1, <1>3, <1>4, ImageFinite
<1> QED BY <1>5 DEF T, S, EvidenceCount

LEMMA NewVersionRows ==
    ASSUME PublicationInv, NEW content
    PROVE  LET n == active + 1
               rows == children \cup Children(n, content) IN
           /\ RowsOf(rows, n, "concept") = ItemRows(n, "concept", content.concepts)
           /\ RowsOf(rows, n, "relation") = ItemRows(n, "relation", content.relations)
           /\ RowsOf(rows, n, "concept_evidence") =
                 CitedRows(n, "concept_evidence", content.concepts)
           /\ RowsOf(rows, n, "relation_evidence") =
                 CitedRows(n, "relation_evidence", content.relations)
<1> DEFINE n == active + 1
           rows == children \cup Children(n, content)
           A == ItemRows(n, "concept", content.concepts)
           B == ItemRows(n, "relation", content.relations)
           C == CitedRows(n, "concept_evidence", content.concepts)
           D == CitedRows(n, "relation_evidence", content.relations)
<1>1. Children(n, content) = A \cup B \cup C \cup D
  BY DEF Children, ItemRows, CitedRows
<1>2. \A x \in children : x.version # n
  BY DEF PublicationInv
<1>3. /\ \A x \in A : x.version = n /\ x.type = "concept"
      /\ \A x \in B : x.version = n /\ x.type = "relation"
  BY DEF ItemRows
<1>4. /\ \A x \in C : x.version = n /\ x.type = "concept_evidence"
      /\ \A x \in D : x.version = n /\ x.type = "relation_evidence"
  BY DEF CitedRows
<1> HIDE DEF A, B, C, D, n
<1>5. \A type : RowsOf(rows, n, type) = {x \in A \cup B \cup C \cup D : x.type = type}
  BY <1>1, <1>2, <1>3, <1>4 DEF RowsOf
<1>6. /\ RowsOf(rows, n, "concept") = A /\ RowsOf(rows, n, "relation") = B
      /\ RowsOf(rows, n, "concept_evidence") = C /\ RowsOf(rows, n, "relation_evidence") = D
  <2> DEFINE All == A \cup B \cup C \cup D
  <2>1. \A x \in All : x \in A \/ x \in B \/ x \in C \/ x \in D
    OBVIOUS
  <2>2. A \subseteq All /\ B \subseteq All /\ C \subseteq All /\ D \subseteq All
    OBVIOUS
  <2>3. /\ RowsOf(rows, n, "concept") = {x \in All : x.type = "concept"}
        /\ RowsOf(rows, n, "relation") = {x \in All : x.type = "relation"}
        /\ RowsOf(rows, n, "concept_evidence") = {x \in All : x.type = "concept_evidence"}
        /\ RowsOf(rows, n, "relation_evidence") = {x \in All : x.type = "relation_evidence"}
    BY <1>5
  <2>0. /\ \A x \in A : x.type = "concept"
        /\ \A x \in B : x.type = "relation"
        /\ \A x \in C : x.type = "concept_evidence"
        /\ \A x \in D : x.type = "relation_evidence"
    BY <1>3, <1>4
  <2> HIDE DEF All, rows
  <2>4. RowsOf(rows, n, "concept") = A
    <3>1. \A x : x \in A <=> x \in All /\ x.type = "concept"
      BY <2>0, <2>1, <2>2
    <3>2. {x \in All : x.type = "concept"} = A
      BY <3>1
    <3> QED BY <3>2, <2>3
  <2>5. RowsOf(rows, n, "relation") = B
    <3>1. \A x : x \in B <=> x \in All /\ x.type = "relation"
      BY <2>0, <2>1, <2>2
    <3>2. {x \in All : x.type = "relation"} = B
      BY <3>1
    <3> QED BY <3>2, <2>3
  <2>6. RowsOf(rows, n, "concept_evidence") = C
    <3>1. \A x : x \in C <=> x \in All /\ x.type = "concept_evidence"
      BY <2>0, <2>1, <2>2
    <3>2. {x \in All : x.type = "concept_evidence"} = C
      BY <3>1
    <3> QED BY <3>2, <2>3
  <2>7. RowsOf(rows, n, "relation_evidence") = D
    <3>1. \A x : x \in D <=> x \in All /\ x.type = "relation_evidence"
      BY <2>0, <2>1, <2>2
    <3>2. {x \in All : x.type = "relation_evidence"} = D
      BY <3>1
    <3> QED BY <3>2, <2>3
  <2> QED BY <2>4, <2>5, <2>6, <2>7
<1> QED BY <1>6 DEF A, B, C, D, n

LEMMA ContentFinite ==
    /\ IsFiniteSet(Content.concepts) /\ IsFiniteSet(Content.relations)
    /\ \A i \in Content.concepts \cup Content.relations : [i EXCEPT !.evidence = {}].id = i.id
    /\ \A i \in Content.concepts \cup Content.relations :
          [i EXCEPT !.evidence = {}].revision = i.revision
<1>1. IsFiniteSet(DraftConceptIds) /\ IsFiniteSet(DraftRelationIds)
  <2>1. DraftConceptIds \in SUBSET Concepts /\ DraftRelationIds \in SUBSET Relations
    BY DEF DraftConceptIds, DraftRelationIds
  <2> QED BY <2>1, FS_Subset, GraphAssumption
<1>2. IsFiniteSet(Content.concepts)
  <2> DEFINE T == {DraftConcept(c) : c \in DraftConceptIds}
             f == [c \in DraftConceptIds |-> DraftConcept(c)]
  <2>1. f \in [DraftConceptIds -> T] /\ \A y \in T : \E c \in DraftConceptIds : f[c] = y
    OBVIOUS
  <2> HIDE DEF f, T
  <2>2. IsFiniteSet(T)
    BY <1>1, <2>1, ImageFinite
  <2> QED BY <2>2 DEF T, Content
<1>3. IsFiniteSet(Content.relations)
  <2> DEFINE T == {DraftRelation(r) : r \in DraftRelationIds}
             f == [r \in DraftRelationIds |-> DraftRelation(r)]
  <2>1. f \in [DraftRelationIds -> T] /\ \A y \in T : \E r \in DraftRelationIds : f[r] = y
    OBVIOUS
  <2> HIDE DEF f, T
  <2>2. IsFiniteSet(T)
    BY <1>1, <2>1, ImageFinite
  <2> QED BY <2>2 DEF T, Content
<1>4. ASSUME NEW i \in Content.concepts
      PROVE  [i EXCEPT !.evidence = {}].id = i.id /\ [i EXCEPT !.evidence = {}].revision = i.revision
  <2>1. i = DraftConcept(i.id)
    BY ContentIds
  <2> QED BY <2>1 DEF DraftConcept
<1>5. ASSUME NEW i \in Content.relations
      PROVE  [i EXCEPT !.evidence = {}].id = i.id /\ [i EXCEPT !.evidence = {}].revision = i.revision
  <2>1. i = DraftRelation(i.id)
    BY ContentIds
  <2> QED BY <2>1 DEF DraftRelation
<1> QED BY <1>2, <1>3, <1>4, <1>5

\* The seal takes what the gate lets through.
LEMMA SealTakesDraft ==
    ASSUME DraftInv, PublicationInv
    PROVE  SealAccepts(active + 1, active, Counts(Content),
                       children \cup Children(active + 1, Content))
<1> DEFINE n == active + 1
           rows == children \cup Children(n, Content)
<1>1. active \in Nat /\ DOMAIN versions = 1 .. active
  BY DEF PublicationInv
<1>2. NotSealed(n) /\ SealParent(n, active) /\ HeadAdvances(n)
  BY <1>1 DEF NotSealed, SealParent, HeadAdvances
<1>3. /\ RowsOf(rows, n, "concept") = ItemRows(n, "concept", Content.concepts)
      /\ RowsOf(rows, n, "relation") = ItemRows(n, "relation", Content.relations)
      /\ RowsOf(rows, n, "concept_evidence") = CitedRows(n, "concept_evidence", Content.concepts)
      /\ RowsOf(rows, n, "relation_evidence") = CitedRows(n, "relation_evidence", Content.relations)
  BY NewVersionRows
<1> HIDE DEF rows, n
<1>4. SealCounts(n, Counts(Content), rows)
  <2>1. /\ Cardinality(ItemRows(n, "concept", Content.concepts)) = Cardinality(Content.concepts)
        /\ Cardinality(ItemRows(n, "relation", Content.relations)) = Cardinality(Content.relations)
    BY ItemsCounted, ContentFinite, ContentIds
  <2>2. /\ Cardinality(CitedRows(n, "concept_evidence", Content.concepts)) =
              EvidenceCount(Content.concepts)
        /\ Cardinality(CitedRows(n, "relation_evidence", Content.relations)) =
              EvidenceCount(Content.relations)
    BY CitedCounted, ContentFinite, ContentEvidence
  <2> QED BY <1>3, <2>1, <2>2 DEF SealCounts, Counts
<1>5. ASSUME NEW x \in ItemRows(n, "concept", Content.concepts)
      PROVE  EvidenceOf(rows, n, "concept_evidence", x.row) # {}
  <2>1. PICK i \in Content.concepts :
                x = [version |-> n, type |-> "concept", row |-> [i EXCEPT !.evidence = {}]]
    BY DEF ItemRows
  <2>2. x.row.id = i.id /\ x.row.revision = i.revision
    BY <2>1, ContentFinite
  <2>3. PICK e \in i.evidence : TRUE
    BY ContentEvidence
  <2> DEFINE y == [version |-> n, type |-> "concept_evidence", owner |-> i.id,
                   revision |-> i.revision, row |-> e]
  <2>4. y \in RowsOf(rows, n, "concept_evidence")
    BY <1>3, <2>3 DEF CitedRows
  <2>5. y.owner = x.row.id /\ y.revision = x.row.revision
    BY <2>2
  <2> HIDE DEF y
  <2> QED BY <2>4, <2>5 DEF EvidenceOf
<1>6. ASSUME NEW x \in ItemRows(n, "relation", Content.relations)
      PROVE  EvidenceOf(rows, n, "relation_evidence", x.row) # {}
  <2>1. PICK i \in Content.relations :
                x = [version |-> n, type |-> "relation", row |-> [i EXCEPT !.evidence = {}]]
    BY DEF ItemRows
  <2>2. x.row.id = i.id /\ x.row.revision = i.revision
    BY <2>1, ContentFinite
  <2>3. PICK e \in i.evidence : TRUE
    BY ContentEvidence
  <2> DEFINE y == [version |-> n, type |-> "relation_evidence", owner |-> i.id,
                   revision |-> i.revision, row |-> e]
  <2>4. y \in RowsOf(rows, n, "relation_evidence")
    BY <1>3, <2>3 DEF CitedRows
  <2>5. y.owner = x.row.id /\ y.revision = x.row.revision
    BY <2>2
  <2> HIDE DEF y
  <2> QED BY <2>4, <2>5 DEF EvidenceOf
<1>7. SealEvidence(n, rows)
  BY <1>3, <1>5, <1>6 DEF SealEvidence
<1> QED BY <1>2, <1>4, <1>7 DEF SealAccepts, rows, n

LEMMA DraftIsSound == ASSUME DraftInv, PublicationInv PROVE DraftSound
<1>1. Manifest.content = Content /\ Manifest.issues = DraftIssues(Content)
  BY DEF Manifest
<1>2. DraftCoherent
  <2>1. \A receipt \in receipts : receipt.revision = receipt.expected + 1
    BY DEF DraftInv, ReceiptsFollow
  <2> QED BY <1>1, <2>1, IssueCodes, SealTakesDraft, ReadyMeansClean DEF DraftCoherent
<1>3. GraphTypeOK
  <2>1. ASSUME NEW c \in Concepts, NEW i \in DOMAIN concepts[c]
        PROVE  /\ concepts[c][i].identity \in {"active", "merged", "retired"}
               /\ concepts[c][i].review \in {"candidate", "accepted", "rejected"}
               /\ concepts[c][i].validity \in {"current", "stale"}
    <3>1. concepts[c] \in Seq(ConceptRows)
      BY DEF DraftInv, DraftTypes
    <3>2. concepts[c][i] \in ConceptRows
      BY <3>1
    <3> QED BY <3>2 DEF ConceptRows, Reviews
  <2> QED BY <2>1 DEF GraphTypeOK, PublicationInv
<1>4. GraphSound
  BY <1>3, DraftHasNoCycle DEF GraphSound, DraftInv
<1> QED BY <1>2, <1>4 DEF DraftSound

\* For any Concepts, relations, chunks, authors and publishers, whatever is
\* read again, deleted or restored in between: accepted prerequisites form no
\* cycle although each was accepted on its own, a merged Concept leads to one
\* that is active, every accepted head has the one receipt of its review, and
\* the gate of publication, the editor's view of what is ready and the triggers
\* that seal a version agree (concept_graph_store.py,
\* concept_graph_publication_store.py).
THEOREM DraftStaysSound == Spec => []DraftSound
<1>1. Init => DraftInv /\ PublicationInv
  BY DraftStart, PublicationInitInv DEF Init
<1>2. DraftInv /\ PublicationInv /\ [Next]_vars => DraftInv' /\ PublicationInv'
  BY DraftStepInv, PublicationStepInv
<1>3. DraftInv /\ PublicationInv => DraftSound
  BY DraftIsSound
<1> QED BY <1>1, <1>2, <1>3, PTL DEF Spec
=============================================================================
