------------------------ MODULE MCReliableTaskStore ------------------------
(***************************************************************************)
(* Instances of ReliableTaskStore for TLC.  Import and Reimport are the    *)
(* source-import tasks of one asset (own idempotency keys, one active      *)
(* key); Generate is a study-document task (active key only).  All are     *)
(* about items of one course, which can go to Trash.                       *)
(***************************************************************************)
EXTENDS ReliableTaskStore, TLC

CONSTANTS t1, t2, import1, import2, asset, document, course, none

MCTasks     == {t1, t2}
MCKeys      == {import1, import2, asset, document}
MCResources == {course}

Import   == [idem |-> import1, active |-> asset, resource |-> course, fingerprint |-> 1]
Reimport == [idem |-> import2, active |-> asset, resource |-> course, fingerprint |-> 1]
Generate == [idem |-> none, active |-> document, resource |-> course, fingerprint |-> 2]

MCRequests == {Import, Reimport, Generate}

\* Rows are interchangeable: no action tells two task identities apart.
TaskSymmetry == Permutations(TaskIds)
=============================================================================
