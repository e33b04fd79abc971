------------------------ MODULE ArtifactPublication ------------------------
(***************************************************************************)
(* How the human-gold tooling puts an immutable set of artifacts on disk   *)
(* (annotation_artifacts.py, protocol.py, source_slice_builder.py): every  *)
(* artifact is a JSON file and the SHA-256 sidecar beside it, installed by *)
(* linking a finished staging file to the name, which fails when the name  *)
(* is taken, and unlinking the staging name.  Until that unlink the file   *)
(* has two links and every reader refuses it.                              *)
(*                                                                         *)
(* Path 2k-1 is the JSON of the k-th artifact and path 2k its sidecar; the *)
(* last artifact is the root that makes the set an authority.  Three ways  *)
(* of publishing share the mechanism:                                      *)
(*   "stage"    publish_concept_inventory_stage and                        *)
(*              publish_relation_pass_a_stage, which look at every path    *)
(*              first and compare every file last                          *)
(*   "slice"    the catalog, chunks and summary of a source slice          *)
(*   "protocol" freeze_protocol, which repairs what a crash left           *)
(* Several commands may publish at once, and any may be killed.  A file is *)
(* its bytes, and a sidecar, the digest of its JSON, goes by the same name. *)
(***************************************************************************)
EXTENDS Naturals, FiniteSets

CONSTANTS
    Publishers,      \* the commands
    ArtifactSets,    \* the sets of artifacts a command may want to publish
    SetSize,         \* how many artifacts a "stage" or "slice" set has
    WrittenBy,       \* what a candidate writes at a path
    NoBytes,         \* the bytes of a path that does not exist
    Styles,          \* the ways of publishing
    MaxStarts        \* how many commands start in one behaviour

ASSUME PublicationAssumption ==
    /\ SetSize \in Nat \ {0}
    /\ Styles \subseteq {"stage", "slice", "protocol"}
    /\ MaxStarts \in Nat
    /\ \A c \in ArtifactSets, p \in 1 .. 2 * SetSize : WrittenBy[c][p] # NoBytes
    /\ \A c \in ArtifactSets, p \in 1 .. 2 * SetSize :
          p % 2 = 0 => WrittenBy[c][p] = WrittenBy[c][p - 1]
    \* The root holds the digests of the artifacts before it.
    /\ \A c, d \in ArtifactSets :
          WrittenBy[c][2 * SetSize - 1] = WrittenBy[d][2 * SetSize - 1] =>
             \A p \in 1 .. 2 * SetSize - 1 : WrittenBy[c][p] = WrittenBy[d][p]

VARIABLES
    style,    \* the way the set of this behaviour is published
    leaf,     \* path -> [bytes, twice]: the bytes, and whether a staging name is left
    command,  \* publisher -> [at, wants, path]
    starts

publicationVars == <<style, leaf, command, starts>>

LastPath == IF style = "protocol" THEN 2 ELSE 2 * SetSize
LeafPaths == 1 .. LastPath

LeafThere(p) == leaf[p].bytes # NoBytes
\* A mutant: what is there is taken for what is wanted.
UncomparedLeaf(p, c) == LeafThere(p) /\ ~leaf[p].twice
\* read_bounded_regular_bytes: a file with a second link is not read.
LeafReadable(p, c) == ~leaf[p].twice /\ leaf[p].bytes = WrittenBy[c][p]
LeafFits(p, c) == LeafThere(p) => LeafReadable(p, c)

Proceed(w, at, p) == command' = [command EXCEPT ![w].at = at, ![w].path = p]
RefuseCommand(w) == Proceed(w, "refused", command[w].path)
AtPath(w, at) == command[w].at = at

PublicationInit ==
    /\ style \in Styles
    /\ leaf = [p \in 1 .. LastPath |-> [bytes |-> NoBytes, twice |-> FALSE]]
    /\ command = [w \in Publishers |-> [at |-> "idle", wants |-> NoBytes, path |-> 1]]
    /\ starts = 0

----------------------------------------------------------------------------
(* A command begins.  A stage looks at every path of the set before it     *)
(* writes one; a slice writes artifact by artifact; a freeze that finds    *)
(* any of its two files converges with them.                               *)

BeginAt ==
    CASE style = "stage" -> "preflight"
      [] style = "slice" -> "check"
      [] style = "protocol" -> IF LeafThere(1) \/ LeafThere(2) THEN "converge" ELSE "install"

Begin(w, c) ==
    /\ command[w].at \in {"idle", "refused", "published"}
    /\ starts < MaxStarts
    /\ starts' = starts + 1
    /\ command' = [command EXCEPT ![w] = [at |-> BeginAt, wants |-> c, path |-> 1]]
    /\ UNCHANGED <<style, leaf>>

\* A stage refuses a file it waited for in vain: the half second is any delay.
Preflight(w) ==
    LET p == command[w].path IN
    /\ AtPath(w, "preflight")
    /\ IF ~LeafFits(p, command[w].wants) THEN RefuseCommand(w)
       ELSE IF p < LastPath THEN Proceed(w, "preflight", p + 1)
       ELSE Proceed(w, "check", 1)
    /\ UNCHANGED <<style, leaf, starts>>

\* Before an artifact is written both its files are compared with it.
CheckLeaf(w) ==
    LET p == command[w].path IN
    /\ AtPath(w, "check")
    /\ IF LeafFits(p, command[w].wants) /\ LeafFits(p + 1, command[w].wants)
       THEN Proceed(w, "install", p) ELSE RefuseCommand(w)
    /\ UNCHANGED <<style, leaf, starts>>

----------------------------------------------------------------------------
(* One file is installed.                                                  *)

\* Where a command goes once the file at p is there.
AfterFile(w, p) ==
    IF p % 2 = 1 THEN Proceed(w, IF AtPath(w, "converge") THEN "converge" ELSE "install", p + 1)
    ELSE IF style = "stage" THEN Proceed(w, "confirm", p - 1)
    ELSE IF p = LastPath THEN Proceed(w, "load", p)
    ELSE Proceed(w, "check", p + 1)

Link(w) ==
    LET p == command[w].path IN
    /\ command[w].at \in {"install", "converge"}
    /\ ~LeafThere(p)
    /\ leaf' = [leaf EXCEPT ![p] = [bytes |-> WrittenBy[command[w].wants][p], twice |-> TRUE]]
    /\ Proceed(w, IF AtPath(w, "install") THEN "unlink" ELSE "settle", p)
    /\ UNCHANGED <<style, starts>>

\* The name is taken: a stage passes on when it sees the name and compares
\* when the link tells it so, a slice compares, a freeze converges.
NameTaken(w) ==
    LET p == command[w].path IN
    /\ AtPath(w, "install")
    /\ LeafThere(p)
    /\ CASE style = "stage" ->
              AfterFile(w, p) \/ (~LeafReadable(p, command[w].wants) /\ RefuseCommand(w))
         [] style = "slice" ->
              IF LeafReadable(p, command[w].wants) THEN AfterFile(w, p) ELSE RefuseCommand(w)
         [] style = "protocol" -> Proceed(w, "converge", 1)
    /\ UNCHANGED <<style, leaf, starts>>

\* The staging name goes; another freeze may have removed it already.
UnlinkStaging(w) ==
    LET p == command[w].path IN
    /\ command[w].at \in {"unlink", "settle"}
    /\ leaf' = [leaf EXCEPT ![p].twice = FALSE]
    /\ IF AtPath(w, "settle") THEN Proceed(w, "converge", p) ELSE AfterFile(w, p)
    /\ UNCHANGED <<style, starts>>

\* A freeze removes a staging name nobody unlinks, then compares the bytes.
Converge(w) ==
    LET p == command[w].path IN
    /\ AtPath(w, "converge")
    /\ LeafThere(p)
    /\ leaf' = [leaf EXCEPT ![p].twice = FALSE]
    /\ IF leaf[p].bytes = WrittenBy[command[w].wants][p] THEN AfterFile(w, p) ELSE RefuseCommand(w)
    /\ UNCHANGED <<style, starts>>

\* A stage compares both files of the artifact it has just written.
Confirm(w) ==
    LET p == command[w].path IN
    /\ AtPath(w, "confirm")
    /\ IF ~(LeafReadable(p, command[w].wants) /\ LeafReadable(p + 1, command[w].wants))
       THEN RefuseCommand(w)
       ELSE IF p + 1 = LastPath THEN Proceed(w, "load", p + 1)
       ELSE Proceed(w, "check", p + 2)
    /\ UNCHANGED <<style, leaf, starts>>

\* The authority is loaded from the files, each artifact bound to the one
\* before it; a slice issues its receipt without a second look.
Binds(c) == \A p \in LeafPaths : LeafReadable(p, c)
LoadAuthority(w) ==
    /\ AtPath(w, "load")
    /\ IF style # "slice" /\ ~(\E c \in ArtifactSets : Binds(c)) THEN RefuseCommand(w)
       ELSE Proceed(w, "published", LastPath)
    /\ UNCHANGED <<style, leaf, starts>>

\* The process is killed; a staging name it had linked stays.
Killed(w) ==
    /\ command[w].at \notin {"idle", "refused", "published"}
    /\ starts < MaxStarts   \* a kill nobody retries after shows nothing more
    /\ command' = [command EXCEPT ![w] = [at |-> "idle", wants |-> NoBytes, path |-> 1]]
    /\ UNCHANGED <<style, leaf, starts>>

PublicationNext ==
    \E w \in Publishers :
        \/ \E c \in ArtifactSets : Begin(w, c)
        \/ Preflight(w) \/ CheckLeaf(w) \/ Link(w) \/ NameTaken(w) \/ UnlinkStaging(w)
        \/ Converge(w) \/ Confirm(w) \/ LoadAuthority(w) \/ Killed(w)

----------------------------------------------------------------------------

\* The root of a set names its candidate only when every file before it is
\* there with that candidate's bytes, whatever was killed and whoever raced:
\* "A crash can leave recoverable orphans, never an authoritative root".
RootComesLast ==
    \A c \in ArtifactSets :
        leaf[LastPath - 1].bytes = WrittenBy[c][LastPath - 1] =>
            \A p \in 1 .. LastPath - 1 : leaf[p].bytes = WrittenBy[c][p]

\* A command that reports success is the owner of every byte it reported, for
\* as long as the repository stands: no later publisher, nor a recovery,
\* replaced a file of it.
PublishedStands ==
    \A w \in Publishers :
        command[w].at = "published" => \A p \in LeafPaths : LeafReadable(p, command[w].wants)

\* A slice and a freeze compare a JSON they found before they write its
\* sidecar, so two candidates never share one artifact.
SidecarsMatch ==
    style # "stage" =>
        \A p \in LeafPaths : p % 2 = 1 /\ LeafThere(p) /\ LeafThere(p + 1) =>
            leaf[p].bytes = leaf[p + 1].bytes

Conflicts(w) ==
    \E p \in LeafPaths : LeafThere(p) /\ leaf[p].bytes # WrittenBy[command[w].wants][p]
Writing(p) == \E w \in Publishers : command[w].at \in {"unlink", "settle"} /\ command[w].path = p

\* A command is refused only where another candidate holds one of its names,
\* or, unless it freezes a protocol, where a staging name is still linked: a
\* freeze repairs whatever a kill left.
RefusedForConflict ==
    \A w \in Publishers :
        command[w].at # "refused" /\ command'[w].at = "refused" =>
            Conflicts(w) \/ (style # "protocol" /\ \E p \in LeafPaths : leaf[p].twice)

PublicationSound == RootComesLast /\ PublishedStands /\ SidecarsMatch

\* "a crash during the later writes is still recovered by an identical retry"
\* (preflight_canonical_artifact): a retry is refused only for the bytes of
\* another candidate, or for a file another command is installing right now.
RetryRecovers ==
    \A w \in Publishers :
        style = "stage" /\ command[w].at # "refused" /\ command'[w].at = "refused" =>
            Conflicts(w) \/ \E p \in LeafPaths : Writing(p)
=============================================================================
