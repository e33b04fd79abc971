-------------------------- MODULE AnnotationSeal --------------------------
(***************************************************************************)
(* How a human label set becomes a sealed authority                        *)
(* (annotation_command.py and relation_annotation_command.py over          *)
(* annotation_workflow.py, relation_pass_a_workflow.py, reviewer_policy.py *)
(* and annotation_attestation.py).  A maintainer fills a private worksheet *)
(* in; "prepare" freezes its resolved labels and a request to sign beside  *)
(* it; the maintainer signs the request with a registered key; "seal"      *)
(* checks that the worksheet still says what was frozen and signed and     *)
(* publishes the stage, its seal last.  The concepts come first, and the   *)
(* relations are judged over the sealed concepts.                          *)
(*                                                                         *)
(* New work needs the reviewer's key policy in the current repository;     *)
(* an old seal needs only the commit that registered it.  A command may be *)
(* killed between two files, two may run at once, and meanwhile the        *)
(* maintainer may edit the worksheet and revoke the policy.  How one file  *)
(* comes to be is in ArtifactPublication; "body" stands for the published  *)
(* files before the seal, and a text for labels and all derived from them. *)
(***************************************************************************)
EXTENDS Naturals, FiniteSets

CONSTANTS
    Clerks,      \* the commands that may run at once
    LabelTexts,  \* what a worksheet may say
    NoLabels,    \* nothing there, or a worksheet that is not complete
    MaxEdits     \* how often worksheets are edited and the policy changes

ASSUME SealAssumption == NoLabels \notin LabelTexts /\ MaxEdits \in Nat

Stages == {"concepts", "relations"}
StageFiles == {"labels", "request", "body", "seal"}

VARIABLES
    policy,     \* [registered, current]: in the history, in the current tree
    sheet,      \* stage -> "none", or the text of its worksheet
    file,       \* stage -> StageFiles -> text
    signature,  \* stage -> the text whose request the maintainer signed
    clerk,      \* [does, stage, at, text]
    edits

sealVars == <<policy, sheet, file, signature, clerk, edits>>

NoCommand(k) == clerk[k].at = "idle"
Stage(k) == clerk[k].stage
Now(k, at) == clerk' = [clerk EXCEPT ![k].at = at]
Stop(k) == clerk' = [clerk EXCEPT ![k] = [does |-> "none", stage |-> "concepts",
                                          at |-> "idle", text |-> NoLabels]]

\* The commit that registered the key is enough for an old seal; new work
\* needs the policy in the current tree too.
HistoricalPolicy == policy.registered
ActivePolicy == policy.registered /\ policy.current

\* Every published file is there and bound to the next.
SealedConcepts ==
    LET f == file["concepts"] IN
    HistoricalPolicy /\ f["seal"] # NoLabels /\ f["body"] = f["seal"]
SealedRelations ==
    LET f == file["relations"] IN
    SealedConcepts /\ f["seal"] # NoLabels /\ f["body"] = f["seal"] /\ f["labels"] = f["seal"]
Sealed(s) == IF s = "concepts" THEN SealedConcepts ELSE SealedRelations

StageReady(s) == ActivePolicy /\ (s = "relations" => SealedConcepts)
\* A mutant: a name that is taken is written over.
Overwrites(s, x, t) == TRUE
Takes(s, x, t) == file[s][x] \in {NoLabels, t}

SealInit ==
    /\ policy = [registered |-> FALSE, current |-> FALSE]
    /\ sheet = [s \in Stages |-> "none"]
    /\ file = [s \in Stages |-> [x \in StageFiles |-> NoLabels]]
    /\ signature = [s \in Stages |-> NoLabels]
    /\ clerk = [k \in Clerks |-> [does |-> "none", stage |-> "concepts",
                                  at |-> "idle", text |-> NoLabels]]
    /\ edits = 0

----------------------------------------------------------------------------
(* The maintainer.                                                         *)

Edited == edits < MaxEdits /\ edits' = edits + 1

RegisterPolicy ==
    /\ ~policy.registered
    /\ policy' = [registered |-> TRUE, current |-> TRUE]
    /\ UNCHANGED <<sheet, file, signature, clerk, edits>>
ChangePolicy ==
    /\ policy.registered /\ Edited
    /\ policy' = [policy EXCEPT !.current = ~policy.current]
    /\ UNCHANGED <<sheet, file, signature, clerk>>
FillSheet(s, t) ==
    /\ sheet[s] \notin {"none", t} /\ Edited
    /\ sheet' = [sheet EXCEPT ![s] = t]
    /\ UNCHANGED <<policy, file, signature, clerk>>
Sign(s) ==
    /\ file[s]["request"] # NoLabels /\ signature[s] # file[s]["request"]
    /\ signature' = [signature EXCEPT ![s] = file[s]["request"]]
    /\ UNCHANGED <<policy, sheet, file, clerk, edits>>

----------------------------------------------------------------------------
(* The commands.                                                           *)

\* init-concepts, init-relation-pass-a: an existing worksheet is never replaced.
InitSheet(k, s) ==
    /\ NoCommand(k) /\ StageReady(s) /\ sheet[s] = "none"
    /\ sheet' = [sheet EXCEPT ![s] = NoLabels]
    /\ UNCHANGED <<policy, file, signature, clerk, edits>>

\* A complete worksheet resolves to one set of labels.
Resolves(s) == sheet[s] \in LabelTexts

\* prepare and seal load their context first: an active policy and, for the
\* relations, the sealed concepts.
StartCommand(k, d, s) ==
    /\ NoCommand(k) /\ StageReady(s)
    /\ clerk' = [clerk EXCEPT ![k] = [does |-> d, stage |-> s, at |-> "read", text |-> NoLabels]]
    /\ UNCHANGED <<policy, sheet, file, signature, edits>>

\* The worksheet is read once, must be complete, and the policy still active.
ReadSheet(k) ==
    /\ clerk[k].at = "read"
    /\ IF StageReady(Stage(k)) /\ Resolves(Stage(k))
       THEN clerk' = [clerk EXCEPT ![k].text = sheet[Stage(k)],
                          ![k].at = IF clerk[k].does = "prepare" THEN "labels" ELSE "match"]
       ELSE Stop(k)
    /\ UNCHANGED <<policy, sheet, file, signature, edits>>

\* One file of the command's text is written, or found there with that text.
Put(k, x) == file' = [file EXCEPT ![Stage(k)][x] = clerk[k].text]
Step(k, x, next) ==
    /\ clerk[k].at = x
    /\ IF Takes(Stage(k), x, clerk[k].text) THEN Put(k, x) /\ next
       ELSE Stop(k) /\ UNCHANGED file
    /\ UNCHANGED <<policy, sheet, signature, edits>>

\* Only the relations look at both names before the first is written.
FreezeLabels(k) ==
    /\ clerk[k].at = "labels"
    /\ IF Stage(k) = "relations" /\ ~Takes("relations", "request", clerk[k].text)
       THEN Stop(k) /\ UNCHANGED <<policy, sheet, file, signature, edits>>
       ELSE Step(k, "labels", Now(k, "request"))
FreezeRequest(k) == Step(k, "request", Stop(k))

\* _require_private_candidates_match
MatchFrozen(k) ==
    /\ clerk[k].at = "match"
    /\ IF \A x \in {"labels", "request"} : file[Stage(k)][x] = clerk[k].text
       THEN Now(k, "signoff") ELSE Stop(k)
    /\ UNCHANGED <<policy, sheet, file, signature, edits>>

\* verify_and_build_detached_key_attestation
SignedRequest(k) == signature[Stage(k)] = clerk[k].text

SignOff(k) ==
    /\ clerk[k].at = "signoff"
    /\ IF StageReady(Stage(k)) /\ SignedRequest(k)
       THEN Now(k, "preflight") ELSE Stop(k)
    /\ UNCHANGED <<policy, sheet, file, signature, edits>>

\* The private labels of the relations are a file of the stage too.
PublishedFiles(s) == {"body", "seal"} \cup IF s = "relations" THEN {"labels"} ELSE {}
PreflightStage(k) ==
    /\ clerk[k].at = "preflight"
    /\ IF /\ StageReady(Stage(k))
          /\ \A x \in PublishedFiles(Stage(k)) : Takes(Stage(k), x, clerk[k].text)
       THEN Now(k, "body") ELSE Stop(k)
    /\ UNCHANGED <<policy, sheet, file, signature, edits>>
PublishBody(k) == Step(k, "body", Now(k, "seal"))
PublishSeal(k) == Step(k, "seal", Now(k, "load"))

\* The stage is loaded again before success is reported.
ReportSealed(k) ==
    /\ clerk[k].at = "load"
    /\ IF Sealed(Stage(k)) THEN Now(k, "sealed") ELSE Stop(k)
    /\ UNCHANGED <<policy, sheet, file, signature, edits>>

\* verify-concepts, verify-relation-pass-a: the policy need not be current.
Verify(k, s) ==
    /\ NoCommand(k) /\ Sealed(s)
    /\ clerk' = [clerk EXCEPT ![k] = [does |-> "verify", stage |-> s, at |-> "sealed",
                                      text |-> file[s]["seal"]]]
    /\ UNCHANGED <<policy, sheet, file, signature, edits>>

\* The command ends, or is killed wherever it is.
EndCommand(k) ==
    /\ ~NoCommand(k)
    /\ Stop(k)
    /\ UNCHANGED <<policy, sheet, file, signature, edits>>

SealNext ==
    \/ RegisterPolicy \/ ChangePolicy
    \/ \E s \in Stages : Sign(s) \/ \E t \in LabelTexts : FillSheet(s, t)
    \/ \E k \in Clerks :
        \/ \E s \in Stages :
            \/ InitSheet(k, s) \/ Verify(k, s)
            \/ \E d \in {"prepare", "seal"} : StartCommand(k, d, s)
        \/ ReadSheet(k) \/ FreezeLabels(k) \/ FreezeRequest(k) \/ MatchFrozen(k)
        \/ SignOff(k) \/ PreflightStage(k) \/ PublishBody(k) \/ PublishSeal(k)
        \/ ReportSealed(k) \/ EndCommand(k)

----------------------------------------------------------------------------

\* A seal is on disk only over the labels that were frozen, signed by the
\* registered key and published, and only over sealed concepts: an edit of the
\* worksheet after "prepare" never reaches a seal.
SealedWasSigned ==
    \A s \in Stages : file[s]["seal"] # NoLabels =>
        /\ \A x \in StageFiles : file[s][x] = file[s]["seal"]
        /\ signature[s] = file[s]["seal"]
        /\ s = "relations" => SealedConcepts

\* No kill and no pair of commands leaves files of two label sets in one
\* stage, which every later command would refuse for ever.
StageOfOneText ==
    \A s \in Stages, x, y \in StageFiles :
        NoLabels \in {file[s][x], file[s][y]} \/ file[s][x] = file[s][y]

\* What a command reported sealed is what the files say.
ReportTrue ==
    \A k \in Clerks : clerk[k].at = "sealed" =>
        Sealed(Stage(k)) /\ file[Stage(k)]["seal"] = clerk[k].text

SealsSound == SealedWasSigned /\ StageOfOneText /\ ReportTrue

\* "Removing either file from current repository state therefore revokes the
\* policy for new work without making historical signatures unverifiable."
SealsStand ==
    \A s \in Stages : Sealed(s) => Sealed(s)' /\ file'[s]["seal"] = file[s]["seal"]
=============================================================================
