--------------------------- MODULE LearningDocuments ---------------------------
(***************************************************************************)
(* Study documents: manual edits, restored versions, card links and the    *)
(* generation of a version by a background task                            *)
(* (backend/app/learning_document_service.py, learning_document_store.py). *)
(*                                                                         *)
(* The requests of the editor run in server threads without a lock and are *)
(* several transactions each; a generation publishes in one, and is        *)
(* retried under the id of its task.  A body stands for title, summary and *)
(* Markdown.  Init, Crash and the Trash steps belong to every document.    *)
(***************************************************************************)
EXTENDS Naturals, FiniteSets

CONSTANTS Documents,
          Cards,
          DocBodies,
          Generations,    \* ids of generation tasks
          Writers,        \* threads that serve edits
          NoDoc,
          MaxDocVersions  \* bound: versions of a document

ASSUME DocumentsAssumption ==
    /\ DocBodies \cap Generations = {} /\ NoDoc \notin Documents
    /\ "manual" \notin Generations
    /\ MaxDocVersions \in Nat \ {0}

VARIABLES doc,        \* learning_documents: state and body
          versions,   \* learning_document_versions, per document
          links,      \* learning_document_cards: the role of a linked card
          evidence,   \* learning_document_sources: the generation that chose them
          writer,     \* the request each thread serves
          generation, \* the attempt of each task: what it read
          retired     \* purged cards

docVars == <<doc, versions, links, evidence, writer, generation, retired>>

Roles == {"primary_anchor", "supporting"}
NoLinks == [k \in {} |-> "supporting"]
\* The card a request looked up, the body it will write, the number it read.
IdleWriter == [pc |-> "idle", doc |-> NoDoc, card |-> NoDoc, role |-> "none",
               body |-> NoDoc, number |-> 0]

DocInit == /\ doc = [d \in Documents |-> [state |-> "none", body |-> NoDoc]]
           /\ versions = [d \in Documents |-> {}]
           /\ links = [d \in Documents |-> NoLinks]
           /\ evidence = [d \in Documents |-> NoDoc]
           /\ writer = [w \in Writers |-> IdleWriter]
           /\ generation = [g \in Generations |-> [pc |-> "none", doc |-> NoDoc]]
           /\ retired = {}

\* The document and its course are not in the Trash.
Readable(d) == doc[d].state = "live"

LinkRole(d, k) == IF k \in DOMAIN links[d] THEN links[d][k] ELSE "none"
Anchors(d) == {k \in DOMAIN links[d] : links[d][k] = "primary_anchor"}
Linked(d, k, role) ==
    [links EXCEPT ![d] = [j \in DOMAIN @ \cup {k} |-> IF j = k THEN role ELSE @[j]]]

\* next_document_version_number: one more than the greatest.
NextNumber(d) ==
    LET numbers == {0} \cup {v.number : v \in versions[d]} IN
    1 + CHOOSE n \in numbers : \A m \in numbers : m <= n

----------------------------------------------------------------------------
(* The editor.  create: row, link, version; update and restore: row, next  *)
(* number, version.                                                        *)

CreateDocument(w, d, k, body) ==
    /\ writer[w] = IdleWriter /\ doc[d].state = "none" /\ k \notin retired
    /\ doc' = [doc EXCEPT ![d] = [state |-> "live", body |-> body]]
    /\ writer' = [writer EXCEPT ![w] = [IdleWriter EXCEPT !.pc = "anchor", !.doc = d,
                                           !.card = k, !.role = "primary_anchor",
                                           !.body = body]]
    /\ UNCHANGED <<versions, links, evidence, generation, retired>>

LinkAnchor(w) ==
    /\ writer[w].pc = "anchor"
    /\ links' = Linked(writer[w].doc, writer[w].card, writer[w].role)
    /\ writer' = [writer EXCEPT ![w].pc = "number"]
    /\ UNCHANGED <<doc, versions, evidence, generation, retired>>

\* What the request will write: a new body, an older version, or, when it
\* sets the status only, the body it read.
Edits(d) == DocBodies \cup {v.body : v \in versions[d]} \cup {doc[d].body}

ReadDocument(w, d, body) ==
    /\ writer[w] = IdleWriter /\ Readable(d) /\ body \in Edits(d)
    /\ writer' = [writer EXCEPT ![w] = [IdleWriter EXCEPT !.pc = "write", !.doc = d,
                                                    !.body = body]]
    /\ UNCHANGED <<doc, versions, links, evidence, generation, retired>>

\* A document that was moved to the Trash meanwhile is not updated; the number
\* of rows is not looked at.
WriteDocument(w) ==
    /\ writer[w].pc = "write"
    /\ LET d == writer[w].doc IN
       doc' = IF doc[d].state = "live" THEN [doc EXCEPT ![d].body = writer[w].body]
              ELSE doc
    /\ \E next \in {"number", "idle"} :       \* a status has no version
          writer' = [writer EXCEPT ![w] =
                        IF next = "idle" THEN IdleWriter ELSE [@ EXCEPT !.pc = next]]
    /\ UNCHANGED <<versions, links, evidence, generation, retired>>

ReadNumber(w) ==
    /\ writer[w].pc = "number"
    /\ writer' = [writer EXCEPT ![w].pc = "version",
                                ![w].number = NextNumber(writer[w].doc)]
    /\ UNCHANGED <<doc, versions, links, evidence, generation, retired>>

\* A number that was taken meanwhile fails the request, after its update.
SaveVersion(w) ==
    /\ writer[w].pc = "version"
    /\ LET d == writer[w].doc
           taken == \E v \in versions[d] : v.number = writer[w].number IN
       versions' = IF taken THEN versions
                   ELSE [versions EXCEPT ![d] = @ \cup {[by |-> "manual",
                            number |-> writer[w].number, body |-> writer[w].body]}]
    /\ writer' = [writer EXCEPT ![w] = IdleWriter]
    /\ UNCHANGED <<doc, links, evidence, generation, retired>>

\* Document, card and links are looked at first, in transactions of their own;
\* a primary anchor excludes another one, as far as it is seen.
CheckCard(w, d, k, role) ==
    /\ writer[w] = IdleWriter /\ Readable(d) /\ k \notin retired
    /\ role = "primary_anchor" => Anchors(d) \subseteq {k}
    /\ writer' = [writer EXCEPT ![w] = [IdleWriter EXCEPT !.pc = "link", !.doc = d,
                                           !.card = k, !.role = role]]
    /\ UNCHANGED <<doc, versions, links, evidence, generation, retired>>

CheckLink(w, d, k) ==
    /\ writer[w] = IdleWriter /\ Readable(d) /\ LinkRole(d, k) = "supporting"
    /\ writer' = [writer EXCEPT ![w] = [IdleWriter EXCEPT !.pc = "unlink", !.doc = d,
                                           !.card = k]]
    /\ UNCHANGED <<doc, versions, links, evidence, generation, retired>>

\* The table has no foreign keys: the row is written or deleted whatever
\* became of the document, of the card and of the other links.
AddCard(w) ==
    /\ writer[w].pc = "link"
    /\ links' = Linked(writer[w].doc, writer[w].card, writer[w].role)
    /\ writer' = [writer EXCEPT ![w] = IdleWriter]
    /\ UNCHANGED <<doc, versions, evidence, generation, retired>>

RemoveCard(w) ==
    /\ writer[w].pc = "unlink"
    /\ links' = [links EXCEPT ![writer[w].doc] = [j \in DOMAIN @ \ {writer[w].card} |-> @[j]]]
    /\ writer' = [writer EXCEPT ![w] = IdleWriter]
    /\ UNCHANGED <<doc, versions, evidence, generation, retired>>

----------------------------------------------------------------------------
(* Generation.                                                             *)

OfGeneration(d, g) == {v \in versions[d] : v.by = g}

\* The endpoint reads the document before it adds the task.
EnqueueGeneration(g, d) ==
    /\ generation[g].pc = "none" /\ Readable(d)
    /\ generation' = [generation EXCEPT ![g] = [pc |-> "queued", doc |-> d]]
    /\ UNCHANGED <<doc, versions, links, evidence, writer, retired>>

RetryGeneration(g) ==
    /\ generation[g].pc = "failed"
    /\ generation' = [generation EXCEPT ![g].pc = "queued"]
    /\ UNCHANGED <<doc, versions, links, evidence, writer, retired>>

\* The document, its anchor and the cards are read before the model is called;
\* a published operation is replayed.
StartGeneration(g) ==
    /\ generation[g].pc = "queued"
    /\ LET d == generation[g].doc IN
       generation' = [generation EXCEPT ![g].pc =
          IF ~Readable(d) THEN "failed"
          ELSE IF OfGeneration(d, g) # {} THEN "done"
          ELSE IF Anchors(d) \subseteq retired THEN "failed"
          ELSE "prompt"]
    /\ UNCHANGED <<doc, versions, links, evidence, writer, retired>>

\* The model fails, the checkpoint finds the task canceled, or the claim on
\* the task is lost after the publication.
FailGeneration(g) ==
    /\ generation[g].pc \in {"prompt", "published"}
    /\ generation' = [generation EXCEPT ![g].pc = "failed"]
    /\ UNCHANGED <<doc, versions, links, evidence, writer, retired>>

\* The anchor stays; the other links become the supporting cards of the task.
Supported(d, ks) ==
    [links EXCEPT ![d] = [k \in Anchors(d) \cup ks |->
                             IF k \in ks THEN "supporting" ELSE "primary_anchor"]]

Publishes(d, g, ks) ==
    /\ doc' = [doc EXCEPT ![d].body = g]
    /\ links' = Supported(d, ks)
    /\ evidence' = [evidence EXCEPT ![d] = g]
    /\ versions' = [versions EXCEPT ![d] =
          @ \cup {[by |-> g, number |-> NextNumber(d), body |-> g]}]

SourcesMutant(g, ks) ==           \* the sources of the first generation stay
    /\ generation[g].pc = "prompt"
    /\ generation' = [generation EXCEPT ![g].pc = "published"]
    /\ LET d == generation[g].doc IN
       /\ Readable(d)
       /\ doc' = [doc EXCEPT ![d].body = g]
       /\ links' = Supported(d, ks)
       /\ evidence' = [evidence EXCEPT ![d] = IF @ = NoDoc THEN g ELSE @]
       /\ versions' = [versions EXCEPT ![d] =
             @ \cup {[by |-> g, number |-> NextNumber(d), body |-> g]}]
    /\ UNCHANGED <<writer, retired>>

TrashedMutant(g, ks) ==           \* the document may be in the Trash
    /\ generation[g].pc = "prompt"
    /\ doc[generation[g].doc].state # "gone"
    /\ generation' = [generation EXCEPT ![g].pc = "published"]
    /\ Publishes(generation[g].doc, g, ks)
    /\ UNCHANGED <<writer, retired>>

\* One transaction: a version of this task is returned, a document that is not
\* live any more refuses it.
PublishGenerated(g, ks) ==
    /\ generation[g].pc = "prompt"
    /\ generation' = [generation EXCEPT ![g].pc = "published"]
    /\ LET d == generation[g].doc IN
       IF OfGeneration(d, g) # {} THEN UNCHANGED <<doc, versions, links, evidence>>
       ELSE Readable(d) /\ Publishes(d, g, ks)
    /\ UNCHANGED <<writer, retired>>

SettleGeneration(g) ==
    /\ generation[g].pc = "published"
    /\ generation' = [generation EXCEPT ![g].pc = "done"]
    /\ UNCHANGED <<doc, versions, links, evidence, writer, retired>>

----------------------------------------------------------------------------
(* The Trash, the purge of a card, and a stop of the process.              *)

ActiveTask(d) == \E g \in Generations :
    generation[g].doc = d /\ generation[g].pc \in {"queued", "prompt", "published"}

\* The tasks are looked at under the lifecycle lock, which enqueue and the
\* workers do not take.
CheckNoTasks(w, d) ==
    /\ writer[w] = IdleWriter /\ Readable(d) /\ ~ActiveTask(d)
    /\ writer' = [writer EXCEPT ![w] = [IdleWriter EXCEPT !.pc = "trash", !.doc = d]]
    /\ UNCHANGED <<doc, versions, links, evidence, generation, retired>>

TrashDocument(w) ==
    /\ writer[w].pc = "trash"
    /\ LET d == writer[w].doc IN
       doc' = IF Readable(d) THEN [doc EXCEPT ![d].state = "trashed"] ELSE doc
    /\ writer' = [writer EXCEPT ![w] = IdleWriter]
    /\ UNCHANGED <<versions, links, evidence, generation, retired>>

RestoreDocument(d) ==
    /\ doc[d].state = "trashed"
    /\ doc' = [doc EXCEPT ![d].state = "live"]
    /\ UNCHANGED <<versions, links, evidence, writer, generation, retired>>

\* The rows of the documents ds go together.
PurgedDocuments(ds) ==
    /\ doc' = [d \in Documents |-> IF d \in ds THEN [state |-> "gone", body |-> NoDoc]
                                   ELSE doc[d]]
    /\ versions' = [d \in Documents |-> IF d \in ds THEN {} ELSE versions[d]]
    /\ evidence' = [d \in Documents |-> IF d \in ds THEN NoDoc ELSE evidence[d]]

PurgeDocument(d) ==
    /\ doc[d].state = "trashed"
    /\ PurgedDocuments({d})
    /\ links' = [links EXCEPT ![d] = NoLinks]
    /\ UNCHANGED <<writer, generation, retired>>

\* _delete_learning_documents_for_cards: the documents the card anchors go
\* with it, whatever their state; other documents lose their link.
PurgeLinkedCard(k) ==
    /\ k \notin retired
    /\ retired' = retired \cup {k}
    /\ LET anchored == {d \in Documents : k \in Anchors(d)} IN
       /\ PurgedDocuments(anchored)
       /\ links' = [d \in Documents |-> IF d \in anchored THEN NoLinks
                        ELSE [j \in DOMAIN links[d] \ {k} |-> links[d][j]]]
    /\ UNCHANGED <<writer, generation>>

DocCrash ==
    /\ writer' = [w \in Writers |-> IdleWriter]
    /\ generation' = [g \in Generations |->
          IF generation[g].pc \in {"prompt", "published"}
          THEN [generation[g] EXCEPT !.pc = "failed"] ELSE generation[g]]
    /\ UNCHANGED <<doc, versions, links, evidence, retired>>

RoomForVersion == \A d \in Documents : Cardinality(versions[d]) < MaxDocVersions

DocNext ==
    \/ \E w \in Writers :
          \/ LinkAnchor(w) \/ WriteDocument(w) \/ ReadNumber(w) \/ TrashDocument(w)
          \/ AddCard(w) \/ RemoveCard(w)
          \/ RoomForVersion /\ SaveVersion(w)
          \/ \E d \in Documents :
                \/ CheckNoTasks(w, d)
                \/ \E b \in DocBodies \cup Generations : ReadDocument(w, d, b)
                \/ \E k \in Cards :
                      \/ CheckLink(w, d, k)
                      \/ \E role \in Roles : CheckCard(w, d, k, role)
                      \/ \E b \in DocBodies : CreateDocument(w, d, k, b)
    \/ \E d \in Documents :
          \/ RestoreDocument(d) \/ PurgeDocument(d)
          \/ \E g \in Generations : EnqueueGeneration(g, d)
    \/ \E g \in Generations :
          \/ RetryGeneration(g) \/ StartGeneration(g) \/ FailGeneration(g) \/ SettleGeneration(g)
          \/ RoomForVersion /\ \E ks \in SUBSET (Cards \ retired) : PublishGenerated(g, ks)
    \/ \E k \in Cards : PurgeLinkedCard(k)
    \/ DocCrash

----------------------------------------------------------------------------

\* A task publishes at most one version, whose body and number never change,
\* and the sources of a document are those of its newest generated version,
\* whatever edits, retries and stops surround the publication.
DocumentsSound ==
    \A d \in Documents :
       LET made == {v \in versions[d] : v.by \in Generations} IN
       /\ \A g \in Generations : Cardinality(OfGeneration(d, g)) <= 1
       /\ \A v, w \in versions[d] : v.number = w.number => v = w
       /\ IF made = {} THEN evidence[d] = NoDoc
          ELSE \E v \in made : evidence[d] = v.by /\ \A w \in made : w.number <= v.number

\* History is kept: a version disappears only with its document, and a
\* document in the Trash keeps its body, its sources and its links; a link
\* goes with its purged card, or changes by a request that had checked this
\* card for the document before.
HistoryKept ==
    \A d \in Documents :
       \/ doc'[d].state = "gone"
       \/ /\ versions[d] \subseteq versions'[d]
          /\ doc[d].state = "trashed" =>
                /\ doc'[d].body = doc[d].body /\ evidence'[d] = evidence[d]
                /\ \A k \in Cards :
                      \/ LinkRole(d, k)' = LinkRole(d, k)
                      \/ k \in retired' \ retired
                      \/ \E w \in Writers : /\ writer[w].doc = d /\ writer[w].card = k
                                             /\ writer[w].pc \in {"anchor", "link", "unlink"}
                                             /\ writer'[w] # writer[w]
=============================================================================
