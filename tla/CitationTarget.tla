----------------------------- MODULE CitationTarget -----------------------------
(***************************************************************************)
(* What a citation leads to: the quotation as it was saved, or the place   *)
(* in the source with the very file the citation was made from             *)
(* (backend/app/citation_target_service.py, citation_target_store.py,      *)
(* citation_content_response.py).                                          *)
(*                                                                         *)
(* A request reads the citation and the source's projection in one         *)
(* transaction, then the file's owner, opens the file, hashes it and       *)
(* streams it; uploads, purges, new projections and changes of the files   *)
(* on disk come in between.  A file is an inode and its bytes.             *)
(***************************************************************************)
EXTENDS Integers, Sequences

CONSTANTS Citations,
          KindOf,       \* per citation: "video", "asset", "evidence" or "note"
          Readers,      \* requests under way at a time
          FileBytes,    \* what a file can hold
          NoHash,       \* no fingerprint stored
          MaxChanges    \* bound: changes of sources, owners and files

ASSUME CitationAssumption == /\ NoHash \notin FileBytes
                             /\ MaxChanges \in Nat

VARIABLES origin,   \* per citation: the source's row, its generation, the chunk
          owner,    \* the job, asset or note: "live", "trash" or "gone"
          hash,     \* the fingerprint stored with the upload
          path,     \* the inode the managed path leads to, 0 when missing
          inode,    \* the inodes made so far: their bytes
          dirty,    \* the inodes written in place
          reader,   \* per request: where it is and what it has read
          touched,  \* the citations something happened to
          changes

citationVars == <<origin, owner, hash, path, inode, dirty, reader, touched, changes>>

Filed(c) == KindOf[c] # "note"
Resting == [at |-> "idle"]

CitationInit ==
    /\ origin = [c \in Citations |-> [there |-> TRUE, generation |-> 0, same |-> TRUE]]
    /\ owner = [c \in Citations |-> "live"]
    /\ path = [c \in Citations |-> 1]
    /\ \E b \in FileBytes : inode = [c \in Citations |-> <<b>>]
    \* A legacy video has no fingerprint yet.
    /\ hash \in {h \in [Citations -> FileBytes \cup {NoHash}] :
                   \A c \in Citations : h[c] = inode[c][1]
                                        \/ (h[c] = NoHash /\ KindOf[c] = "video")}
    /\ dirty = {}
    /\ reader = [w \in Readers |-> Resting]
    /\ touched = {c \in Citations : hash[c] = NoHash}
    /\ changes = 0

At(w, place) == reader[w].at = place
Moves(w, record) == reader' = [reader EXCEPT ![w] = record]
Cited(w) == reader[w].cited

----------------------------------------------------------------------------
(* The world around a request.                                             *)

Changing(c) == /\ changes < MaxChanges /\ changes' = changes + 1
               /\ touched' = touched \cup {c}

\* The source is read again: the same text or other text.
Reproject(c) ==
    /\ origin[c].there /\ owner[c] = "live"
    /\ Changing(c)
    /\ \E same \in BOOLEAN :
          origin' = [origin EXCEPT ![c] = [there |-> TRUE, same |-> same,
                                           generation |-> @.generation + 1]]
    /\ UNCHANGED <<owner, hash, path, inode, dirty, reader>>

RemoveSource(c) ==
    /\ origin[c].there
    /\ Changing(c)
    /\ origin' = [origin EXCEPT ![c].there = FALSE]
    /\ UNCHANGED <<owner, hash, path, inode, dirty, reader>>

MoveOwner(c, status) ==
    /\ owner[c] # "gone" /\ owner[c] # status
    /\ status = "gone" => owner[c] = "trash"
    /\ Changing(c)
    /\ owner' = [owner EXCEPT ![c] = status]
    /\ UNCHANGED <<origin, hash, path, inode, dirty, reader>>

RemoveFile(c) ==
    /\ Filed(c) /\ path[c] # 0
    /\ Changing(c)
    /\ path' = [path EXCEPT ![c] = 0]
    /\ UNCHANGED <<origin, owner, hash, inode, dirty, reader>>

\* Another file under the same name.
ReplaceFile(c, bytes) ==
    /\ Filed(c)
    /\ Changing(c)
    /\ inode' = [inode EXCEPT ![c] = Append(@, bytes)]
    /\ path' = [path EXCEPT ![c] = Len(inode'[c])]
    /\ UNCHANGED <<origin, owner, hash, dirty, reader>>

WriteInPlace(c, bytes) ==
    /\ Filed(c) /\ path[c] # 0 /\ inode[c][path[c]] # bytes
    /\ Changing(c)
    /\ inode' = [inode EXCEPT ![c][path[c]] = bytes]
    /\ dirty' = dirty \cup {<<c, path[c]>>}
    /\ UNCHANGED <<origin, owner, hash, path, reader>>

\* backfill_legacy_video_fingerprints, before any citation is served.
BackfillFingerprints ==
    /\ \A w \in Readers : reader[w] = Resting
    /\ \E c \in Citations : hash[c] = NoHash /\ owner[c] = "live" /\ path[c] # 0
    /\ hash' = [c \in Citations |->
                  IF hash[c] = NoHash /\ owner[c] = "live" /\ path[c] # 0
                  THEN inode[c][path[c]] ELSE hash[c]]
    /\ UNCHANGED <<origin, owner, path, inode, dirty, reader, touched, changes>>

----------------------------------------------------------------------------
(* A request for the content of a citation.                                *)

Refuse(w, c) == Moves(w, [at |-> "refused", cited |-> c])

\* Published evidence: no new generation since, and its root is live.
ProjectionHolds(c) ==
    KindOf[c] = "evidence" => /\ origin[c].generation = 0
                              /\ origin[c].there /\ owner[c] = "live"

\* The source is there and its chunk says what was cited; a note's section is
\* taken from the snapshot that was cited instead.
SourceHolds(c) == /\ origin[c].there
                  /\ IF KindOf[c] = "note" THEN owner[c] = "live" ELSE origin[c].same

ReadCitation(w, c) ==
    /\ reader[w] = Resting
    /\ IF ~ProjectionHolds(c) \/ ~SourceHolds(c) THEN Refuse(w, c)
       ELSE Moves(w, [at |-> IF KindOf[c] = "note" THEN "quoted" ELSE "owner", cited |-> c])
    /\ UNCHANGED <<origin, owner, hash, path, inode, dirty, touched, changes>>

\* _resolve_job_file, _resolve_asset_file: the owner and its fingerprint.
ReadOwner(w) ==
    LET c == Cited(w) IN
    /\ At(w, "owner")
    /\ IF owner[c] # "live" \/ hash[c] = NoHash THEN Refuse(w, c)
       ELSE Moves(w, [at |-> "open", cited |-> c, expected |-> hash[c]])
    /\ UNCHANGED <<origin, owner, hash, path, inode, dirty, touched, changes>>

\* _open_regular_file: the handle stays on the inode the path led to.
OpenFile(w) ==
    LET c == Cited(w) IN
    /\ At(w, "open")
    /\ IF path[c] = 0 THEN Refuse(w, c)
       ELSE Moves(w, [at |-> "hash", cited |-> c, expected |-> reader[w].expected,
                      handle |-> path[c]])
    /\ UNCHANGED <<origin, owner, hash, path, inode, dirty, touched, changes>>

PathMatches(w) ==                    \* what the path leads to by now is hashed
    LET c == Cited(w) IN path[c] # 0 /\ inode[c][path[c]] = reader[w].expected
HashMatches(w) == inode[Cited(w)][reader[w].handle] = reader[w].expected

\* _hash_open_file: a change while it reads is refused as well.
HashFile(w) ==
    /\ At(w, "hash")
    /\ IF HashMatches(w) THEN Moves(w, [reader[w] EXCEPT !.at = "stream"])
       ELSE Refuse(w, Cited(w))
    /\ UNCHANGED <<origin, owner, hash, path, inode, dirty, touched, changes>>

\* The response is sent, the client is gone, or the process stops.
EndRequest(w) ==
    /\ reader[w] # Resting
    /\ Moves(w, Resting)
    /\ UNCHANGED <<origin, owner, hash, path, inode, dirty, touched, changes>>

CitationNext ==
    \/ \E c \in Citations :
          \/ Reproject(c) \/ RemoveSource(c) \/ RemoveFile(c)
          \/ \E status \in {"live", "trash", "gone"} : MoveOwner(c, status)
          \/ \E b \in FileBytes : ReplaceFile(c, b) \/ WriteInPlace(c, b)
          \/ \E w \in Readers : ReadCitation(w, c)
    \/ \E w \in Readers : ReadOwner(w) \/ OpenFile(w) \/ HashFile(w) \/ EndRequest(w)
    \/ BackfillFingerprints

----------------------------------------------------------------------------
(* The part of the file a range header asks for.                           *)

NoPart == {}

\* _parse_range: bytes=first-last, first-, -suffix (-1 stands for left out).
\* The part is a set of byte positions, NoPart when it cannot be satisfied.
RangeOf(first, last, size) ==
    IF first >= 0
    THEN IF first >= size \/ (last >= 0 /\ last < first) THEN NoPart
         ELSE first..(IF last < 0 \/ last > size - 1 THEN size - 1 ELSE last)
    ELSE IF last <= 0 \/ size <= 0 THEN NoPart
    ELSE (IF size > last THEN size - last ELSE 0)..(size - 1)

----------------------------------------------------------------------------

\* The bytes that are streamed are those of the upload the citation was made
\* from, whatever happened to the path: unless that very file was written in
\* place after it was hashed.
ServedAsCited ==
    \A w \in Readers : At(w, "stream") =>
       \/ inode[Cited(w)][reader[w].handle] = hash[Cited(w)]
       \/ <<Cited(w), reader[w].handle>> \in dirty

\* A citation is only refused when something happened to its source, its
\* owner or its file, or a legacy video has not been fingerprinted.
RefusedForCause == \A w \in Readers : At(w, "refused") => Cited(w) \in touched

\* A fingerprint never changes, and only a start of the process, with no
\* request under way, gives one to an upload that has none.
FingerprintKept ==
    \A c \in Citations : hash'[c] # hash[c] =>
       hash[c] = NoHash /\ \A w \in Readers : reader[w] = Resting

\* A range that is served holds only positions of the file, is never empty,
\* and is the one asked for as far as the file goes.
RangesHold(MaxSize) ==
    \A size \in 0..MaxSize, first \in -1..MaxSize, last \in -1..MaxSize :
       LET part == RangeOf(first, last, size) IN
       /\ part \subseteq 0..(size - 1)
       /\ first >= 0 /\ part # NoPart =>
             part = {p \in 0..(size - 1) : p >= first /\ (last >= 0 => p <= last)}
       /\ first < 0 /\ part # NoPart =>
             part = {p \in 0..(size - 1) : size - p <= last}
=============================================================================
