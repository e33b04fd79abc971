---------------------------- MODULE WorkspaceDrafts ----------------------------
(***************************************************************************)
(* Autosaved drafts: the revisioned row of one draft                       *)
(* (backend/app/workspace_draft_store.py, workspace_draft_service.py) and  *)
(* the editors of it in several windows (useAutosavedDraft.ts).            *)
(*                                                                         *)
(* An edit is followed by its request at once: the delay of the autosave   *)
(* only drops edits that are typed over.  Requests of one window may be    *)
(* served in any order, and the reply to one that was superseded is not    *)
(* looked at.                                                              *)
(***************************************************************************)
EXTENDS Naturals, FiniteSets

CONSTANTS Windows,
          Saved,       \* the durable text the editors started from
          Texts,       \* other texts
          NoDraft, NoText,
          MaxRequests  \* bound: requests of one window

ASSUME WorkspaceDraftAssumption ==
    /\ Saved \notin Texts /\ NoText \notin Texts \cup {Saved}
    /\ NoDraft \notin [rev : Nat, text : Texts \cup {Saved}, row : Nat]
    /\ MaxRequests \in Nat

VARIABLES draft,   \* the row: revision, payload, and which row of this id it is
          window,  \* per editor: its text, revisionRef, the server payload it saw
          wire,    \* requests not served yet
          reply,   \* per window: what the server answered
          rows     \* rows created so far

draftVars == <<draft, window, wire, reply, rows>>

NoReply == [op |-> "none", rev |-> 0, text |-> NoText, row |-> 0]

\* row belongs to rev: the row whose revision the editor holds.
NewWindow == [text |-> Saved, rev |-> 0, row |-> 0, saw |-> NoText,
              state |-> "hydrating", recovery |-> NoText, seq |-> 0]

DraftInit == /\ draft = NoDraft
             /\ window = [w \in Windows |-> NewWindow]
             /\ wire = {}
             /\ reply = [w \in Windows |-> NoReply]
             /\ rows = 0

\* Supersede what is in flight and send op; state is what the editor shows.
Send(w, op, text, rev, new) ==
    /\ window[w].seq < MaxRequests
    /\ wire' = wire \cup {[w |-> w, seq |-> window[w].seq + 1, op |-> op,
                           rev |-> rev, text |-> text, saw |-> new.saw]}
    /\ window' = [window EXCEPT ![w] = [new EXCEPT !.seq = window[w].seq + 1]]
    /\ reply' = [reply EXCEPT ![w] = NoReply]

Hydrate(w) ==
    /\ window[w].state = "hydrating" /\ window[w].seq = 0
    /\ Send(w, "get", NoText, 0, window[w])
    /\ UNCHANGED <<draft, rows>>

Synced(w) == window[w].state # "hydrating" /\ window[w].recovery = NoText

\* An edit: save it against the revision this editor knows.
Type(w, t) ==
    /\ Synced(w) /\ t # window[w].text
    /\ Send(w, "put", t, window[w].rev, [window[w] EXCEPT !.text = t, !.state = "saving"])
    /\ UNCHANGED <<draft, rows>>

\* Before hydration, or while a conflict is shown, an edit stays on the device.
TypeOffline(w, t) ==
    /\ ~Synced(w) /\ t # window[w].text
    /\ window' = [window EXCEPT ![w].text = t]
    /\ UNCHANGED <<draft, wire, reply, rows>>

\* The text is saved to the domain, or typed back to it: both cleanup paths
\* become create-only and delete only a known positive revision.
Settle(w) ==
    /\ Synced(w) /\ window[w].text # Saved
    /\ LET new == [window[w] EXCEPT !.text = Saved, !.rev = 0, !.row = 0,
                                    !.saw = NoText, !.state = "clean"] IN
       IF window[w].rev > 0
       THEN Send(w, "delete", NoText, window[w].rev, [new EXCEPT !.saw = window[w].saw])
       ELSE /\ window[w].seq < MaxRequests
            /\ window' = [window EXCEPT ![w] = [new EXCEPT !.seq = @ + 1]]
            /\ reply' = [reply EXCEPT ![w] = NoReply]
            /\ UNCHANGED wire
    /\ UNCHANGED <<draft, rows>>

\* The person chooses the other editor's text, or keeps the current one.
Resolve(w, t) ==
    /\ window[w].state = "conflict" /\ window[w].recovery # NoText
    /\ t \in {window[w].text, window[w].recovery} \ {Saved}
    /\ Send(w, "put", t, window[w].rev,
            [window[w] EXCEPT !.text = t, !.recovery = NoText, !.state = "saving"])
    /\ UNCHANGED <<draft, rows>>

----------------------------------------------------------------------------
(* The server.                                                             *)

Accepts(r) == draft # NoDraft /\ r.rev = draft.rev
Creates(r) == draft = NoDraft /\ r.op = "put" /\ r.rev = 0

AfterServe(r) ==
    CASE r.op = "put" /\ Creates(r) -> [rev |-> 1, text |-> r.text, row |-> rows + 1]
      [] r.op = "put" /\ Accepts(r) -> [draft EXCEPT !.rev = @ + 1, !.text = r.text]
      [] r.op = "delete" /\ Accepts(r) -> NoDraft
      [] OTHER -> draft

Respond(op, d) == IF d = NoDraft THEN [NoReply EXCEPT !.op = op]
                 ELSE [op |-> op, rev |-> d.rev, text |-> d.text, row |-> d.row]

Outcome(r) == CASE r.op = "get" -> "read"
                [] r.op = "put" -> IF Creates(r) \/ Accepts(r) THEN "saved" ELSE "conflict"
                [] r.op = "delete" -> "deleted"

AwaitedMutant(r) == TRUE                           \* any reply is taken for the last one
Awaited(r) == r.seq = window[r.w].seq

\* One request; its caller may have moved on, or the reply may be lost.
Serve(r, heard) ==
    /\ r \in wire
    /\ wire' = wire \ {r}
    /\ draft' = AfterServe(r)
    /\ rows' = IF Creates(r) THEN rows + 1 ELSE rows
    /\ reply' = IF heard /\ Awaited(r)
                THEN [reply EXCEPT ![r.w] = Respond(Outcome(r), AfterServe(r))]
                ELSE reply
    /\ UNCHANGED window

Told(w) == [window[w] EXCEPT !.rev = reply[w].rev, !.row = reply[w].row,
                             !.saw = reply[w].text]
Other(w) == reply[w].text \notin {NoText, window[w].text}

\* The first read restores the server's text into an editor nobody typed in.
HearRead(w) ==
    IF window[w].text = Saved /\ Other(w)
    THEN [Told(w) EXCEPT !.text = reply[w].text, !.state = "saved"]
    ELSE IF Other(w) /\ reply[w].text # Saved
    THEN [Told(w) EXCEPT !.recovery = reply[w].text, !.state = "conflict"]
    ELSE [Told(w) EXCEPT !.state = "saved_local"]

HearConflict(w) ==
    [Told(w) EXCEPT !.state = "conflict",
                    !.recovery = IF Other(w) THEN reply[w].text ELSE NoText]

Hear(w) ==
    /\ reply[w].op # "none"
    /\ window' = [window EXCEPT ![w] =
          CASE reply[w].op = "read"     -> HearRead(w)
            [] reply[w].op = "saved"    -> [Told(w) EXCEPT !.state = "saved"]
            [] reply[w].op = "conflict" -> HearConflict(w)
            [] reply[w].op = "deleted"  -> window[w]]
    /\ reply' = [reply EXCEPT ![w] = NoReply]
    /\ UNCHANGED <<draft, wire, rows>>

DraftNext == \/ \E w \in Windows : Hydrate(w) \/ Settle(w) \/ Hear(w)
             \/ \E w \in Windows, t \in Texts : \/ Type(w, t) \/ TypeOffline(w, t)
                                                \/ Resolve(w, t)
             \/ \E r \in wire, heard \in BOOLEAN : Serve(r, heard)

----------------------------------------------------------------------------

\* An editor that shows "Saved" and holds the revision of the row that is
\* there holds its text, however its requests were delayed, reordered or lost.
SavedAgrees ==
    \A w \in Windows :
       window[w].state = "saved" /\ draft # NoDraft
         /\ window[w].row = draft.row /\ window[w].rev = draft.rev
       => window[w].text = draft.text

\* "A third editor that advances the draft remains visible as a conflict
\* rather than being overwritten": a save that was not superseded replaces
\* only a payload that its editor has seen.
NoSilentOverwrite ==
    \A r \in wire : r.op = "put" /\ draft # NoDraft /\ Accepts(r)
                       /\ r.seq = window[r.w].seq
                     => r.saw = draft.text
=============================================================================
