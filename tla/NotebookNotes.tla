----------------------------- MODULE NotebookNotes -----------------------------
(***************************************************************************)
(* Notebook notes of one course: revisions, answers captured from a chat,  *)
(* and the Source a note is published as                                   *)
(* (backend/app/notebook_note_store.py, notebook_note_service.py).         *)
(*                                                                         *)
(* Every operation is one transaction; a request carries the revision its  *)
(* editor saw, which may be old by the time it arrives.  A body stands for *)
(* title and text; an answer for its text and its citations.               *)
(***************************************************************************)
EXTENDS Naturals, Sequences, FiniteSets

CONSTANTS NoteIds,
          Editors,
          Bodies,
          Answers,     \* assistant messages of the course's conversations
          NoAnswer,
          NoNote, NoSource,
          MaxRevision  \* bound: revisions of a note

ASSUME NotebookAssumption ==
    /\ NoAnswer \notin Answers /\ NoNote \notin NoteIds
    /\ NoNote \notin [body : Bodies, rev : Nat, trashed : BOOLEAN,
                      answer : Answers \cup {NoAnswer}]
    /\ MaxRevision \in Nat \ {0}

VARIABLES note,      \* notebook_notes, with the answer a note came from
          snapshots, \* notebook_note_source_snapshots: <<revision, body>>, per note
          source,    \* the note's projection: the snapshot it was built from
          grounded,  \* the messages that are complete, answered and cited
          notebook,  \* the course: "live", "trashed" or "purged"
          saw,       \* per editor: the note, revision and body it last read
          text       \* ghost: the body of every revision of a note

noteVars == <<note, snapshots, source, grounded, notebook, saw, text>>

Nothing == [id |-> NoNote, rev |-> 0, body |-> NoAnswer]

NotesInit == /\ note = [n \in NoteIds |-> NoNote]
             /\ snapshots = [n \in NoteIds |-> {}]
             /\ source = [n \in NoteIds |-> NoSource]
             /\ grounded = {}
             /\ notebook = "live"
             /\ saw = [e \in Editors |-> Nothing]
             /\ text = [n \in NoteIds |-> <<>>]

NoteLive(n) == notebook = "live" /\ note[n] # NoNote /\ ~note[n].trashed
Copy(n) == [id |-> n, rev |-> note[n].rev, body |-> note[n].body]

\* The editor's copy when its request was answered with note n.
Sees(e, n) == saw' = [saw EXCEPT ![e] = Copy(n)']

OpenNote(e, n) ==
    /\ NoteLive(n)
    /\ saw' = [saw EXCEPT ![e] = Copy(n)]
    /\ UNCHANGED <<note, snapshots, source, grounded, notebook, text>>

\* _insert_note
Inserted(n, body, answer) ==
    /\ note[n] = NoNote /\ text[n] = <<>>
    /\ note' = [note EXCEPT ![n] = [body |-> body, rev |-> 1, trashed |-> FALSE,
                                    answer |-> answer]]
    /\ text' = [text EXCEPT ![n] = <<body>>]

CreateNote(e, n, body) ==
    /\ notebook = "live"
    /\ Inserted(n, body, NoAnswer)
    /\ Sees(e, n)
    /\ UNCHANGED <<snapshots, source, grounded, notebook>>

CapturedAs(a) == {n \in NoteIds : note[n] # NoNote /\ note[n].answer = a}

\* A turn ends with a grounded answer.
AnswerQuestion(a) ==
    /\ notebook = "live" /\ a \notin grounded
    /\ grounded' = grounded \cup {a}
    /\ UNCHANGED <<note, snapshots, source, notebook, saw, text>>

\* The conversation is purged from the Trash; the captured evidence is a copy.
ForgetAnswer(a) ==
    /\ a \in grounded
    /\ grounded' = grounded \ {a}
    /\ UNCHANGED <<note, snapshots, source, notebook, saw, text>>

CaptureMutant(e, n, a, body) ==           \* the first capture is not looked up
    /\ notebook = "live" /\ a \in grounded
    /\ Inserted(n, body, a) /\ Sees(e, n)
    /\ UNCHANGED <<snapshots, source, grounded, notebook>>

\* An answer is captured once; a repeated capture returns the same note, and
\* one whose note is in the Trash is refused.
CaptureAnswer(e, n, a, body) ==
    /\ notebook = "live"
    /\ IF CapturedAs(a) # {}
       THEN /\ UNCHANGED <<note, text>>
            /\ \E m \in CapturedAs(a) : NoteLive(m) /\ Sees(e, m)
       ELSE /\ a \in grounded
            /\ Inserted(n, body, a)
            /\ Sees(e, n)
    /\ UNCHANGED <<snapshots, source, grounded, notebook>>

UpToDate(e, n) == NoteLive(n) /\ saw[e].id = n /\ saw[e].rev = note[n].rev

UpdateMutant(e, n, body) ==                \* the revision is not compared
    /\ NoteLive(n) /\ saw[e].id = n
    /\ note' = [note EXCEPT ![n].body = body, ![n].rev = @ + 1]
    /\ text' = [text EXCEPT ![n] = Append(@, body)]
    /\ Sees(e, n)
    /\ UNCHANGED <<snapshots, source, grounded, notebook>>

\* An update that changes nothing keeps the revision.
UpdateNote(e, n, body) ==
    /\ UpToDate(e, n)
    /\ body # note[n].body
    /\ note[n].rev < MaxRevision
    /\ note' = [note EXCEPT ![n].body = body, ![n].rev = @ + 1]
    /\ text' = [text EXCEPT ![n] = Append(@, body)]
    /\ Sees(e, n)
    /\ UNCHANGED <<snapshots, source, grounded, notebook>>

\* A conflict is answered with the current note.
HearNoteConflict(e, n) ==
    /\ NoteLive(n) /\ saw[e].id = n /\ saw[e].rev # note[n].rev
    /\ UNCHANGED <<note, snapshots, source, grounded, notebook, text>>
    /\ Sees(e, n)

Published(n, rev) == {s \in snapshots[n] : s[1] = rev}

\* One snapshot per revision, and the projection, in one transaction.
PromoteNote(e, n) ==
    /\ UpToDate(e, n)
    /\ LET new == IF Published(n, saw[e].rev) # {} THEN {}
                  ELSE {<<note[n].rev, note[n].body>>} IN
       /\ snapshots' = [snapshots EXCEPT ![n] = @ \cup new]
       /\ source' = [source EXCEPT ![n] =
             CHOOSE s \in snapshots[n] \cup new : s[1] = saw[e].rev]
    /\ UNCHANGED <<note, grounded, notebook, saw, text>>

TrashNote(e, n) ==
    /\ UpToDate(e, n)
    /\ note' = [note EXCEPT ![n].trashed = TRUE]
    /\ UNCHANGED <<snapshots, source, grounded, notebook, saw, text>>

RestoreNote(n) ==
    /\ notebook = "live" /\ note[n] # NoNote /\ note[n].trashed
    /\ note' = [note EXCEPT ![n].trashed = FALSE]
    /\ UNCHANGED <<snapshots, source, grounded, notebook, saw, text>>

\* _purge_note_rows
PurgeRows(ns) ==
    /\ note' = [n \in NoteIds |-> IF n \in ns THEN NoNote ELSE note[n]]
    /\ snapshots' = [n \in NoteIds |-> IF n \in ns THEN {} ELSE snapshots[n]]
    /\ source' = [n \in NoteIds |-> IF n \in ns THEN NoSource ELSE source[n]]

PurgeNote(n) ==
    /\ note[n] # NoNote /\ note[n].trashed /\ notebook # "purged"
    /\ PurgeRows({n})
    /\ UNCHANGED <<grounded, notebook, saw, text>>

SwitchNotebook ==
    /\ notebook' = CASE notebook = "live" -> "trashed" [] notebook = "trashed" -> "live"
                     [] OTHER -> notebook
    /\ UNCHANGED <<note, snapshots, source, grounded, saw, text>>

\* purge_notebook_notes_for_course
PurgeNotebook ==
    /\ notebook = "trashed"
    /\ notebook' = "purged"
    /\ PurgeRows(NoteIds)
    /\ UNCHANGED <<grounded, saw, text>>

Newest(n) == CHOOSE s \in snapshots[n] : \A t \in snapshots[n] : t[1] <= s[1]

\* reconcile_course_sources rebuilds the projections from the newest snapshots.
ReconcileNotes ==
    /\ notebook = "live"
    /\ source' = [n \in NoteIds |-> IF snapshots[n] = {} THEN NoSource ELSE Newest(n)]
    /\ UNCHANGED <<note, snapshots, grounded, notebook, saw, text>>

NotesNext == \/ \E n \in NoteIds, e \in Editors :
                   \/ OpenNote(e, n) \/ HearNoteConflict(e, n)
                   \/ PromoteNote(e, n) \/ TrashNote(e, n)
                   \/ \E b \in Bodies : \/ CreateNote(e, n, b) \/ UpdateNote(e, n, b)
                                        \/ \E a \in Answers : CaptureAnswer(e, n, a, b)
             \/ \E n \in NoteIds : RestoreNote(n) \/ PurgeNote(n)
             \/ \E a \in Answers : AnswerQuestion(a) \/ ForgetAnswer(a)
             \/ SwitchNotebook \/ PurgeNotebook \/ ReconcileNotes

----------------------------------------------------------------------------

\* An answer is kept by one note, the Source of a note shows its newest
\* published revision as it was when it was published, whatever was edited,
\* trashed or reconciled since, and a purged note leaves nothing.
NotesSound ==
    /\ \A a \in Answers : Cardinality(CapturedAs(a)) <= 1
    /\ \A n \in NoteIds :
          /\ \A s \in snapshots[n] : s[2] = text[n][s[1]]
          /\ IF note[n] = NoNote THEN snapshots[n] = {} /\ source[n] = NoSource
             ELSE /\ source[n] = IF snapshots[n] = {} THEN NoSource ELSE Newest(n)
                  /\ \A s \in snapshots[n] : s[1] <= note[n].rev

\* Editors that share a note never lose an edit: a revision is replaced only
\* by an editor that saw its body.
NoEditLost ==
    \A n \in NoteIds :
       note[n] # NoNote /\ note'[n] # NoNote /\ note'[n].body # note[n].body
       => \E e \in Editors : saw[e] = Copy(n) /\ saw'[e] = Copy(n)'
=============================================================================
