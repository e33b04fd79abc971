------------------------- MODULE SourceIndexProofs -------------------------
(***************************************************************************)
(* Theorems about SourceIndex: typing, IndexReadyTrue, ReadyIsKept and     *)
(* ProjectionSound, for every set of roots and threads and every bound.    *)
(***************************************************************************)
EXTENDS SourceIndex, TLAPS

USE SourceIndexAssumption DEF Contents, RootStatus, IndexStatus

\* Replacing a projection leaves a row well typed.
LEMMA ReplacedType ==
    ASSUME NEW r \in Roots, proj[r] \in RowType,
           NEW status \in RootStatus, NEW content \in Contents
    PROVE  Replaced(r, status, content) \in RowType
<1>1. IndexAfter(r, status, content)[1] \in IndexStatus
  BY DEF IndexAfter, RowType
<1>2. IndexAfter(r, status, content)[2] \in 0..MaxIndexes
  BY DEF IndexAfter, RowType
<1> QED
  BY <1>1, <1>2 DEF Replaced, RowType

LEMMA ContentType ==
    ASSUME NEW r \in Roots, root[r] \in RootType
    PROVE  ContentOf(r) \in Contents
BY DEF ContentOf, RootType

LEMMA SnapOf ==
    ASSUME NEW S \in SUBSET Roots, NEW f \in [S -> Contents]
    PROVE  f \in Snaps
BY DEF Snaps

LEMMA SnapDomain ==
    ASSUME NEW f \in Snaps
    PROVE  DOMAIN f \in SUBSET Roots /\ f \in [DOMAIN f -> Contents]
BY DEF Snaps

LEMMA IdleType == Idle \in ThreadType
<1>1. [r \in {} |-> 0] \in [{} -> Contents]
  OBVIOUS
<1>2. [r \in {} |-> 0] \in Snaps
  BY <1>1, SnapOf
<1> QED
  BY <1>2 DEF Idle, ThreadType, Steps, Syncing, Importing, Indexing

LEMMA RowConstants == NewRow \in RowType /\ NoRow \in RowType
BY DEF NewRow, NoRow, RowType

\* The initial state is well typed.
LEMMA InitTyped == Init => STypeOK
BY IdleType, RowConstants DEF Init, STypeOK, Staged, RootType

----------------------------------------------------------------------------
(***************************************************************************)
(* The inductive invariant has three parts.  Around types what is neither  *)
(* a projection nor a thread.  Rows says, row by row, that a ready index   *)
(* is complete and belongs to no run.  Threaded says what the place of a   *)
(* thread implies for its locals: the root it works on, and the generation *)
(* and dimension of its index run.  Rows needs the last: a run that ends   *)
(* holds a generation that is not 0, so it cannot hold a ready row.        *)
(***************************************************************************)

Around == /\ root \in [Roots -> RootType]
          /\ lock \in Threads \cup {NoThread}
          /\ mode \in {"up", "jobs", "indexes", "sources"}
          /\ writes \in Contents /\ indexes \in 0..MaxIndexes
          /\ trashes \in Nat /\ crashes \in Nat

RowOK(row, es) ==
    /\ row \in RowType
    /\ es \in SUBSET (Contents \X Dims)
    /\ row.index = "ready" => /\ row.status = "ready" /\ row.content # 0
                              /\ <<row.content, row.dim>> \in es
                              /\ row.token = 0

Rows == /\ proj \in [Roots -> RowType]
        /\ emb \in [Roots -> SUBSET (Contents \X Dims)]
        /\ \A r \in Roots : RowOK(proj[r], emb[r])

Good(m) ==
    /\ m \in ThreadType
    /\ m.pc \in Syncing \cup Importing \cup {"chunks"} => m.r \in Roots
    /\ m.pc \in Syncing \cup {"chunks"}
          => m.back \in Importing \cup {"idle", "restored", "ensure"}
    /\ m.pc \in {"syncChunks", "syncReplace"} => m.status \in RootStatus
    /\ (m.pc \in Indexing \cup {"ensure", "begin"} \/ m.back = "ensure")
          => m.token # 0 /\ m.dim \in Dims

Threaded == /\ thread \in [Threads -> ThreadType]
            /\ \A t \in Threads : Good(thread[t])

Inv == Around /\ Rows /\ Threaded

\* The step of ReadyIsKept.
KeepsReady ==
    \A r \in Roots :
        (/\ proj[r].index = "ready"
         /\ proj'[r].status = proj[r].status /\ proj'[r].content = proj[r].content)
        => proj'[r].index \in {"ready", "indexing"}

LEMMA InvTypes == Inv => STypeOK /\ IndexReadyTrue
BY DEF Inv, Around, Rows, RowOK, Threaded, STypeOK, IndexReadyTrue

LEMMA GoodIdle == Good(Idle)
BY IdleType DEF Good, Idle, Syncing, Importing, Indexing

\* The initial state satisfies the invariant.
LEMMA Base == Init => Inv
<1> SUFFICES ASSUME Init PROVE Inv
  OBVIOUS
<1>1. STypeOK
  BY InitTyped
<1>2. Around
  BY <1>1 DEF STypeOK, Around
<1>3. Rows
  BY <1>1, RowConstants DEF STypeOK, Rows, RowOK, Init, NewRow
<1>4. Threaded
  BY <1>1, GoodIdle DEF STypeOK, Threaded, Init
<1> QED
  BY <1>2, <1>3, <1>4 DEF Inv

\* A step of one thread keeps Threaded.
LEMMA OneThread ==
    ASSUME Threaded, NEW t \in Threads, NEW m, Good(m), thread' = [thread EXCEPT ![t] = m]
    PROVE  Threaded'
<1>1. thread' \in [Threads -> ThreadType]
  BY DEF Good, Threaded
<1>2. ASSUME NEW o \in Threads PROVE Good(thread'[o])
  <2>1. CASE o = t
    BY <2>1 DEF Threaded
  <2>2. CASE o # t
    BY <2>2 DEF Threaded
  <2> QED
    BY <2>1, <2>2
<1>3. thread' \in [Threads -> ThreadType] /\ \A o \in Threads : Good(thread'[o])
  BY <1>1, <1>2
<1> QED
  BY <1>3 DEF Threaded, Good

LEMMA Ending ==
    ASSUME Threaded, NEW t \in Threads, End(t)
    PROVE  Threaded'
BY OneThread, GoodIdle DEF End

\* Where a thread may go next, by what it knows.
LEMMA Moving ==
    ASSUME Threaded, NEW t \in Threads, NEW pc, Goto(t, pc),
           \/ pc \in Importing /\ thread[t].r \in Roots
           \/ /\ pc \in {"sync", "syncRemove"} /\ thread[t].r \in Roots
              /\ thread[t].back \in Importing \cup {"idle", "restored", "ensure"}
           \/ pc \in Indexing /\ thread[t].token # 0 /\ thread[t].dim \in Dims
    PROVE  Threaded'
<1> DEFINE m == [thread[t] EXCEPT !.pc = pc]
<1>1. Good(thread[t]) /\ thread[t] \in ThreadType
  BY DEF Threaded
<1>2. m \in ThreadType
  BY <1>1, SMTT(30) DEF ThreadType, Steps, Syncing, Importing, Indexing
<1>3. m.pc = pc /\ m.r = thread[t].r /\ m.back = thread[t].back
         /\ m.token = thread[t].token /\ m.dim = thread[t].dim
  BY <1>1 DEF ThreadType
<1>4. Good(m)
  BY <1>1, <1>2, <1>3 DEF Good, Syncing, Importing, Indexing
<1>5. thread' = [thread EXCEPT ![t] = m]
  BY DEF Goto, Threaded
<1> QED
  BY <1>4, <1>5, OneThread

LEMMA SyncingNext ==
    ASSUME Threaded, NEW t \in Threads, NEW r \in Roots,
           NEW back \in Importing \cup {"restored"}, SyncThen(t, r, back)
    PROVE  Threaded'
<1> DEFINE m == [thread[t] EXCEPT !.pc = "sync", !.r = r, !.back = back]
<1>1. Good(thread[t]) /\ thread[t] \in ThreadType
  BY DEF Threaded
<1>2. m \in ThreadType
  BY <1>1, ZenonT(60) DEF ThreadType, Steps, Syncing, Importing, Indexing
<1>3. m.pc = "sync" /\ m.r = r /\ m.back = back
  BY <1>1 DEF ThreadType
<1>4. Good(m)
  BY <1>1, <1>2, <1>3 DEF Good, Syncing, Importing, Indexing
<1>5. thread' = [thread EXCEPT ![t] = m]
  BY DEF SyncThen, Threaded
<1> QED
  BY <1>4, <1>5, OneThread

\* A step that touches no projection keeps the rows.
LEMMA QuietRows ==
    ASSUME Rows, UNCHANGED <<proj, emb>>
    PROVE  Rows' /\ KeepsReady
BY DEF Rows, KeepsReady


----------------------------------------------------------------------------
\* Actions that write a projection.

\* Replacing the chunks of r keeps its row, and a ready index with its content.
LEMMA ReplacedRow ==
    ASSUME Rows, NEW r \in Roots, NEW status \in RootStatus, NEW content \in Contents
    PROVE  /\ RowOK(Replaced(r, status, content), Kept(r, content))
           /\ (/\ proj[r].index = "ready"
               /\ Replaced(r, status, content).status = proj[r].status
               /\ Replaced(r, status, content).content = proj[r].content)
              => Replaced(r, status, content).index = "ready"
<1> DEFINE new == Replaced(r, status, content)
<1>1. RowOK(proj[r], emb[r]) /\ proj[r] \in RowType
  BY DEF Rows
<1>2. new \in RowType
  BY <1>1, ReplacedType
<1>3. /\ new.status = status /\ new.content = content /\ new.dim = proj[r].dim
      /\ new.index = IndexAfter(r, status, content)[1]
      /\ new.token = IndexAfter(r, status, content)[2]
  BY <1>1 DEF Replaced, RowType
<1>4. ASSUME new.index = "ready"
      PROVE  /\ status = "ready" /\ content # 0
             /\ proj[r].index = "ready" /\ content = proj[r].content
             /\ new.token = proj[r].token
  BY <1>3, <1>4 DEF IndexAfter
<1>5. ASSUME new.index = "ready"
      PROVE  /\ new.status = "ready" /\ new.content # 0 /\ new.token = 0
             /\ <<new.content, new.dim>> \in Kept(r, content)
  <2>1. <<content, proj[r].dim>> \in emb[r] /\ proj[r].token = 0
    BY <1>1, <1>4, <1>5 DEF RowOK
  <2> QED
    BY <1>3, <1>4, <1>5, <2>1 DEF Kept
<1>6. Kept(r, content) \in SUBSET (Contents \X Dims)
  BY <1>1 DEF Kept, RowOK
<1>7. ASSUME proj[r].index = "ready", new.status = proj[r].status,
             new.content = proj[r].content
      PROVE  new.index = "ready"
  <2>1. status = "ready" /\ content # 0 /\ content = proj[r].content
    BY <1>1, <1>3, <1>7 DEF RowOK
  <2> QED
    BY <1>3, <1>7, <2>1 DEF IndexAfter
<1> QED
  BY <1>2, <1>5, <1>6, <1>7 DEF RowOK

\* Rows that are fine one by one are fine together.
LEMMA RowByRow ==
    ASSUME proj' = [r \in Roots |-> proj'[r]], emb' = [r \in Roots |-> emb'[r]],
           \A r \in Roots : RowOK(proj'[r], emb'[r])
    PROVE  Rows'
<1>1. /\ proj' \in [Roots -> RowType]
      /\ emb' \in [Roots -> SUBSET (Contents \X Dims)]
  BY DEF RowOK
<1> QED
  BY <1>1 DEF Rows, RowOK

LEMMA SyncReplaceStep ==
    ASSUME Inv, NEW t \in Threads, SyncReplace(t)
    PROVE  Around' /\ Rows' /\ Threaded' /\ KeepsReady
<1> DEFINE me == thread[t]
<1>1. /\ Good(me) /\ me \in ThreadType /\ me.pc = "syncReplace"
      /\ me.r \in Roots /\ me.status \in RootStatus /\ me.content \in Contents
  BY DEF Inv, Threaded, Good, SyncReplace, Syncing, ThreadType
<1>2. Around'
  BY DEF Inv, Around, SyncReplace, counters
<1>3. /\ proj \in [Roots -> RowType] /\ emb \in [Roots -> SUBSET (Contents \X Dims)]
      /\ proj' = [proj EXCEPT ![me.r] = Replaced(me.r, me.status, me.content)]
      /\ emb' = [emb EXCEPT ![me.r] = Kept(me.r, me.content)]
  BY DEF Inv, Rows, SyncReplace
<1>4. /\ proj'[me.r] = Replaced(me.r, me.status, me.content)
      /\ emb'[me.r] = Kept(me.r, me.content)
      /\ \A r \in Roots : r # me.r => proj'[r] = proj[r] /\ emb'[r] = emb[r]
      /\ proj' = [r \in Roots |-> proj'[r]] /\ emb' = [r \in Roots |-> emb'[r]]
  BY <1>1, <1>3
<1>5. /\ RowOK(proj'[me.r], emb'[me.r])
      /\ (/\ proj[me.r].index = "ready" /\ proj'[me.r].status = proj[me.r].status
          /\ proj'[me.r].content = proj[me.r].content) => proj'[me.r].index = "ready"
  BY <1>1, <1>4, ReplacedRow DEF Inv
<1>6. Rows'
  <2>1. \A r \in Roots : RowOK(proj'[r], emb'[r])
    BY <1>4, <1>5 DEF Inv, Rows
  <2> QED
    BY <1>4, <2>1, RowByRow
<1>7. KeepsReady
  BY <1>4, <1>5 DEF KeepsReady
<1>8. Threaded'
  <2>1. CASE me.back \in {"idle", "restored"}
    BY <2>1, Ending DEF Inv, SyncReplace, End
  <2>2. CASE me.back \notin {"idle", "restored"}
    <3> DEFINE m == [me EXCEPT !.pc = me.back, !.back = "idle", !.status = "none",
                               !.content = 0]
    <3>1. me.back \in Importing \cup {"ensure"}
      BY <1>1, <2>2 DEF Good, Syncing
    <3>2. m \in ThreadType
      <4>1. /\ me.back \in Steps /\ "idle" \in Steps
            /\ "none" \in RootStatus \cup {"none"} /\ 0 \in Contents
        BY <3>1 DEF Steps, Importing
      <4> QED
        BY <1>1, <4>1 DEF ThreadType
    <3>3. /\ m.pc = me.back /\ m.back = "idle" /\ m.r = me.r
          /\ m.token = me.token /\ m.dim = me.dim
      BY <1>1 DEF ThreadType
    <3>4. me.back = "ensure" => me.token # 0 /\ me.dim \in Dims
      BY <1>1 DEF Good
    <3>5. Good(m)
      BY <1>1, <3>1, <3>2, <3>3, <3>4 DEF Good, Syncing, Importing, Indexing
    <3>6. thread' = [thread EXCEPT ![t] = m]
      BY <2>2 DEF SyncReplace
    <3> QED
      BY <3>5, <3>6, OneThread DEF Inv
  <2> QED
    BY <2>1, <2>2
<1> QED
  BY <1>2, <1>6, <1>7, <1>8

LEMMA SyncRemoveStep ==
    ASSUME Inv, NEW t \in Threads, SyncRemove(t)
    PROVE  Around' /\ Rows' /\ Threaded' /\ KeepsReady
<1> DEFINE s == thread[t].r
<1>1. Around'
  BY DEF Inv, Around, SyncRemove, counters
<1>2. /\ proj' = [proj EXCEPT ![s] = NoRow] /\ emb' = [emb EXCEPT ![s] = {}]
      /\ proj \in [Roots -> RowType] /\ emb \in [Roots -> SUBSET (Contents \X Dims)]
  BY DEF Inv, Rows, SyncRemove
<1>3. /\ proj' = [r \in Roots |-> proj'[r]] /\ emb' = [r \in Roots |-> emb'[r]]
      /\ \A r \in Roots : IF r = s THEN proj'[r] = NoRow /\ emb'[r] = {}
                                   ELSE proj'[r] = proj[r] /\ emb'[r] = emb[r]
  BY <1>2
<1>4. RowOK(NoRow, {}) /\ NoRow.status = "none"
  BY RowConstants DEF RowOK, NoRow, NewRow
<1>5. Rows'
  <2>1. \A r \in Roots : RowOK(proj'[r], emb'[r])
    BY <1>3, <1>4 DEF Inv, Rows
  <2> QED
    BY <1>3, <2>1, RowByRow
<1>6. KeepsReady
  <2> SUFFICES ASSUME NEW r \in Roots, proj[r].index = "ready",
                      proj'[r].status = proj[r].status
               PROVE  proj'[r].index = "ready"
    BY DEF KeepsReady
  <2>1. proj[r].status = "ready"
    BY DEF Inv, Rows, RowOK
  <2> QED
    BY <1>3, <1>4, <2>1
<1>7. Threaded'
  BY Ending DEF Inv, SyncRemove
<1> QED
  BY <1>1, <1>5, <1>6, <1>7

\* What a thread inside an index run knows.
LEMMA InRun ==
    ASSUME Threaded, NEW t \in Threads, thread[t].pc \in Indexing \cup {"begin"}
    PROVE  /\ thread[t] \in ThreadType
           /\ DOMAIN thread[t].snap \in SUBSET Roots
           /\ thread[t].snap \in [DOMAIN thread[t].snap -> Contents]
           /\ thread[t].token \in 0..MaxIndexes /\ thread[t].token # 0
           /\ thread[t].dim \in Dims
<1>1. Good(thread[t]) /\ thread[t] \in ThreadType
  BY DEF Threaded
<1>2. thread[t].snap \in Snaps /\ thread[t].token \in 0..MaxIndexes
  BY <1>1 DEF ThreadType
<1> QED
  BY <1>1, <1>2, SnapDomain DEF Good

\* The row of a source whose run ends.
LEMMA EndedAsFailed ==
    ASSUME NEW row \in RowType
    PROVE  /\ [row EXCEPT !.index = "failed", !.token = 0] \in RowType
           /\ [row EXCEPT !.index = "failed", !.token = 0].index = "failed"
<1>1. 0 \in 0..MaxIndexes /\ "failed" \in IndexStatus
  OBVIOUS
<1> HIDE SourceIndexAssumption DEF Contents, RootStatus, IndexStatus
<1> QED
  BY <1>1 DEF RowType

Committed(row, index, dim) == [row EXCEPT !.index = index, !.token = 0, !.dim = dim]

LEMMA CommittedRow ==
    ASSUME NEW row \in RowType, NEW index \in IndexStatus, NEW dim \in Dims
    PROVE  /\ Committed(row, index, dim) \in RowType
           /\ Committed(row, index, dim).index = index
           /\ Committed(row, index, dim).token = 0
           /\ Committed(row, index, dim).dim = dim
           /\ Committed(row, index, dim).status = row.status
           /\ Committed(row, index, dim).content = row.content
<1>1. 0 \in 0..MaxIndexes
  OBVIOUS
<1> HIDE SourceIndexAssumption DEF Contents, RootStatus, IndexStatus
<1> QED
  BY <1>1 DEF RowType, Committed

LEMMA IndexBeginStep ==
    ASSUME Inv, NEW t \in Threads, IndexBegin(t)
    PROVE  Around' /\ Rows' /\ Threaded' /\ KeepsReady
<1> DEFINE me == thread[t]
           S == DOMAIN me.snap
<1>1. /\ me.pc = "begin" /\ me.token \in 0..MaxIndexes /\ me.token # 0
      /\ me.dim \in Dims /\ emb' = emb
  BY InRun DEF Inv, IndexBegin
<1>2. Around'
  BY DEF Inv, Around, IndexBegin, counters
<1>3. CASE \A r \in S : Projected(r)
  <2>1. /\ Goto(t, "plan")
        /\ proj' = [r \in Roots |->
              IF r \in S THEN [proj[r] EXCEPT !.index = "indexing", !.token = me.token]
                         ELSE proj[r]]
    BY <1>3 DEF IndexBegin
  <2>2. Threaded'
    BY <1>1, <2>1, Moving DEF Inv, Indexing
  <2>3. ASSUME NEW r \in Roots
        PROVE  /\ RowOK(proj'[r], emb'[r])
               /\ proj'[r].index = proj[r].index \/ proj'[r].index = "indexing"
    <3>1. RowOK(proj[r], emb[r]) /\ proj[r] \in RowType
      BY DEF Inv, Rows
    <3>2. CASE r \in S
      <4>1. proj'[r] = [proj[r] EXCEPT !.index = "indexing", !.token = me.token]
        BY <2>1, <3>2
      <4>2. proj'[r] \in RowType /\ proj'[r].index = "indexing"
        BY <1>1, <3>1, <4>1 DEF RowType
      <4> QED
        BY <1>1, <3>1, <4>2 DEF RowOK
    <3>3. CASE r \notin S
      BY <1>1, <2>1, <3>1, <3>3
    <3> QED
      BY <3>2, <3>3
  <2>4. emb' = [r \in Roots |-> emb'[r]] /\ proj' = [r \in Roots |-> proj'[r]]
    BY <1>1, <2>1 DEF Inv, Rows
  <2>5. Rows' /\ KeepsReady
    BY <2>3, <2>4, RowByRow DEF KeepsReady
  <2> QED
    BY <1>2, <2>2, <2>5
<1>4. CASE ~ \A r \in S : Projected(r)
  <2>1. End(t) /\ proj' = proj
    BY <1>4 DEF IndexBegin
  <2> QED
    BY <1>1, <1>2, <2>1, Ending, QuietRows DEF Inv
<1> QED
  BY <1>3, <1>4

LEMMA IndexFailStep ==
    ASSUME Inv, NEW t \in Threads, IndexFail(t)
    PROVE  Around' /\ Rows' /\ Threaded' /\ KeepsReady
<1>1. thread[t].token # 0
  BY InRun DEF Inv, IndexFail, Indexing
<1>2. Around'
  BY DEF Inv, Around, IndexFail, counters
<1>3. Threaded'
  BY Ending DEF Inv, IndexFail
<1>4. proj' = [r \in Roots |-> Failed(t, r)] /\ emb' = emb
  BY DEF IndexFail
<1>5. ASSUME NEW r \in Roots
      PROVE  RowOK(proj'[r], emb'[r]) /\ (proj[r].index = "ready" => proj'[r] = proj[r])
  <2>1. RowOK(proj[r], emb[r]) /\ proj[r] \in RowType
    BY DEF Inv, Rows
  <2>2. proj'[r] = Failed(t, r)
    BY <1>4
  <2>3. CASE Holds(t, r) /\ r \in DOMAIN thread[t].snap
    <3>1. proj[r].token # 0
      BY <1>1, <2>3 DEF Holds
    <3>2. proj'[r] = [proj[r] EXCEPT !.index = "failed", !.token = 0]
      BY <2>2, <2>3 DEF Failed
    <3>3. proj'[r] \in RowType /\ proj'[r].index = "failed"
      BY <2>1, <3>2, EndedAsFailed
    <3> QED
      BY <1>4, <2>1, <3>1, <3>3 DEF RowOK
  <2>4. CASE ~(Holds(t, r) /\ r \in DOMAIN thread[t].snap)
    BY <1>4, <2>1, <2>2, <2>4 DEF Failed
  <2> QED
    BY <2>3, <2>4
<1>6. emb' = [r \in Roots |-> emb'[r]] /\ proj' = [r \in Roots |-> proj'[r]]
  BY <1>4 DEF Inv, Rows
<1>7. Rows' /\ KeepsReady
  BY <1>5, <1>6, RowByRow DEF KeepsReady
<1> QED
  BY <1>2, <1>3, <1>7

\* A run commits nothing to a ready row, and a row it makes ready is complete.
LEMMA IndexCommitStep ==
    ASSUME Inv, NEW t \in Threads, IndexCommit(t)
    PROVE  Around' /\ Rows' /\ Threaded' /\ KeepsReady
<1> DEFINE me == thread[t]
           held == {r \in DOMAIN me.snap : Holds(t, r)}
<1>1. /\ me.pc = "commit" /\ me.token # 0 /\ me.dim \in Dims /\ me \in ThreadType
      /\ DOMAIN me.snap \in SUBSET Roots /\ me.snap \in [DOMAIN me.snap -> Contents]
  BY InRun DEF Inv, IndexCommit, Indexing
<1>2. Around'
  BY DEF Inv, Around, IndexCommit, counters
<1>3. Threaded'
  <2>1. End(t) \/ Goto(t, "fail")
    BY DEF IndexCommit
  <2>2. "fail" \in Indexing
    BY DEF Indexing
  <2> QED
    BY <1>1, <2>1, <2>2, Ending, Moving DEF Inv
<1>4. /\ emb' = [r \in Roots |-> IF r \in held
                                 THEN {e \in Written(t, r) : e[1] = proj[r].content}
                                 ELSE emb[r]]
      /\ proj' = [r \in Roots |-> IF r \in held
                                  THEN [proj[r] EXCEPT !.index = Outcome(t, r), !.token = 0,
                                                       !.dim = me.dim]
                                  ELSE proj[r]]
  BY DEF IndexCommit
<1>5. ASSUME NEW r \in Roots
      PROVE  RowOK(proj'[r], emb'[r]) /\ (proj[r].index = "ready" => proj'[r] = proj[r])
  <2>1. RowOK(proj[r], emb[r]) /\ proj[r] \in RowType
    BY DEF Inv, Rows
  <2>2. CASE r \in held
    <3>1. /\ emb'[r] = {e \in Written(t, r) : e[1] = proj[r].content}
          /\ proj'[r] = [proj[r] EXCEPT !.index = Outcome(t, r), !.token = 0, !.dim = me.dim]
      BY <1>4, <2>2
    <3>2. proj[r].token # 0 /\ r \in DOMAIN me.snap
      BY <1>1, <2>2 DEF Holds
    <3>3. Written(t, r) \in SUBSET (Contents \X Dims)
      <4>1. me.snap[r] \in Contents /\ emb[r] \in SUBSET (Contents \X Dims)
        BY <1>1, <2>1, <3>2 DEF RowOK
      <4>2. <<me.snap[r], me.dim>> \in Contents \X Dims
        BY <1>1, <4>1
      <4> QED
        BY <4>1, <4>2 DEF Written
    <3>4. Outcome(t, r) \in IndexStatus
      BY DEF Outcome
    <3>5. /\ proj'[r] \in RowType /\ proj'[r].index = Outcome(t, r) /\ proj'[r].token = 0
          /\ proj'[r].dim = me.dim /\ proj'[r].status = proj[r].status
          /\ proj'[r].content = proj[r].content
      <4>1. proj'[r] = Committed(proj[r], Outcome(t, r), me.dim)
        BY <3>1 DEF Committed
      <4>2. proj[r] \in RowType /\ me.dim \in Dims
        BY <1>1, <2>1
      <4> HIDE SourceIndexAssumption DEF Contents, RootStatus, IndexStatus
      <4> QED
        BY <3>4, <4>1, <4>2, CommittedRow, SMTT(30)
    <3>6. ASSUME Outcome(t, r) = "ready"
          PROVE  /\ proj[r].status = "ready" /\ proj[r].content # 0
                 /\ <<proj[r].content, me.dim>> \in emb'[r]
      <4>1. Complete(t, r)
        BY <3>6 DEF Outcome
      <4> QED
        BY <3>1, <4>1 DEF Complete
    <3> QED
      BY <2>1, <3>1, <3>2, <3>3, <3>5, <3>6 DEF RowOK
  <2>3. CASE r \notin held
    BY <1>4, <2>1, <2>3
  <2> QED
    BY <2>2, <2>3
<1>6. emb' = [r \in Roots |-> emb'[r]] /\ proj' = [r \in Roots |-> proj'[r]]
  BY <1>4
<1>7. Rows' /\ KeepsReady
  BY <1>5, <1>6, RowByRow DEF KeepsReady
<1> QED
  BY <1>2, <1>3, <1>7

----------------------------------------------------------------------------
\* Startup.

LEMMA RecoverIndexesStep ==
    ASSUME Inv, RecoverIndexes
    PROVE  Around' /\ Rows' /\ Threaded' /\ KeepsReady
<1>1. Around' /\ Threaded'
  BY DEF Inv, Around, Threaded, RecoverIndexes, counters
<1>2. proj' = [r \in Roots |-> Recovered(proj[r])] /\ emb' = emb
  BY DEF RecoverIndexes
<1>3. ASSUME NEW r \in Roots
      PROVE  RowOK(proj'[r], emb'[r]) /\ (proj[r].index = "ready" => proj'[r] = proj[r])
  <2>1. RowOK(proj[r], emb[r]) /\ proj[r] \in RowType
    BY DEF Inv, Rows
  <2>2. proj'[r] = Recovered(proj[r])
    BY <1>2
  <2>3. CASE proj[r].index = "indexing" \/ proj[r].token # 0
    <3>1. proj'[r] = [proj[r] EXCEPT !.index = "failed", !.token = 0]
      BY <2>2, <2>3 DEF Recovered
    <3>2. proj'[r] \in RowType /\ proj'[r].index = "failed"
      BY <2>1, <3>1, EndedAsFailed
    <3> QED
      BY <1>2, <2>1, <2>3, <3>2 DEF RowOK
  <2>4. CASE ~(proj[r].index = "indexing" \/ proj[r].token # 0)
    BY <1>2, <2>1, <2>2, <2>4 DEF Recovered
  <2> QED
    BY <2>3, <2>4
<1>4. emb' = [r \in Roots |-> emb'[r]] /\ proj' = [r \in Roots |-> proj'[r]]
  BY <1>2 DEF Inv, Rows
<1>5. Rows' /\ KeepsReady
  BY <1>3, <1>4, RowByRow DEF KeepsReady
<1> QED
  BY <1>1, <1>5

LEMMA RecoverJobsStep ==
    ASSUME Inv, RecoverJobs
    PROVE  Around' /\ Rows' /\ Threaded' /\ KeepsReady
<1>1. \A r \in Roots : root[r] \in RootType /\ root[r].content \in Contents
  BY DEF Inv, Around, RootType
<1>2. /\ root' = [r \in Roots |-> IF Interrupted(r) THEN [root[r] EXCEPT !.status = "failed"]
                                                    ELSE root[r]]
      /\ proj' = [r \in Roots |-> IF Interrupted(r)
                                  THEN Replaced(r, "failed", root[r].content) ELSE proj[r]]
      /\ emb' = [r \in Roots |-> IF Interrupted(r) THEN Kept(r, root[r].content)
                                                   ELSE emb[r]]
  BY DEF RecoverJobs
<1>3. Around'
  <2>1. root' \in [Roots -> RootType]
    BY <1>1, <1>2 DEF RootType
  <2> QED
    BY <2>1 DEF Inv, Around, RecoverJobs, counters
<1>4. Threaded'
  BY DEF Inv, Threaded, RecoverJobs
<1>5. ASSUME NEW r \in Roots
      PROVE  /\ RowOK(proj'[r], emb'[r])
             /\ (/\ proj[r].index = "ready" /\ proj'[r].status = proj[r].status
                 /\ proj'[r].content = proj[r].content) => proj'[r].index = "ready"
  <2>1. CASE Interrupted(r)
    <3>1. proj'[r] = Replaced(r, "failed", root[r].content) /\ emb'[r] = Kept(r, root[r].content)
      BY <1>2, <2>1
    <3> QED
      BY <1>1, <3>1, ReplacedRow DEF Inv
  <2>2. CASE ~Interrupted(r)
    BY <1>2, <2>2 DEF Inv, Rows
  <2> QED
    BY <2>1, <2>2
<1>6. emb' = [r \in Roots |-> emb'[r]] /\ proj' = [r \in Roots |-> proj'[r]]
  BY <1>2
<1>7. Rows' /\ KeepsReady
  BY <1>5, <1>6, RowByRow DEF KeepsReady
<1> QED
  BY <1>3, <1>4, <1>7

LEMMA ReconcileStep ==
    ASSUME Inv, Reconcile
    PROVE  Around' /\ Rows' /\ Threaded' /\ KeepsReady
<1>1. \A r \in Roots : root[r].status \in RootStatus /\ ContentOf(r) \in Contents
  BY ContentType DEF Inv, Around, RootType
<1>2. Around' /\ Threaded'
  BY DEF Inv, Around, Threaded, Reconcile, counters
<1>3. /\ proj' = [r \in Roots |-> Replaced(r, root[r].status, ContentOf(r))]
      /\ emb' = [r \in Roots |-> Kept(r, ContentOf(r))]
  BY DEF Reconcile
<1>4. ASSUME NEW r \in Roots
      PROVE  /\ RowOK(proj'[r], emb'[r])
             /\ (/\ proj[r].index = "ready" /\ proj'[r].status = proj[r].status
                 /\ proj'[r].content = proj[r].content) => proj'[r].index = "ready"
  <2>1. proj'[r] = Replaced(r, root[r].status, ContentOf(r)) /\ emb'[r] = Kept(r, ContentOf(r))
    BY <1>3
  <2> QED
    BY <1>1, <2>1, ReplacedRow DEF Inv
<1>5. emb' = [r \in Roots |-> emb'[r]] /\ proj' = [r \in Roots |-> proj'[r]]
  BY <1>3
<1>6. Rows' /\ KeepsReady
  BY <1>4, <1>5, RowByRow DEF KeepsReady
<1> QED
  BY <1>2, <1>6

----------------------------------------------------------------------------
\* The other steps write no projection: what is left are roots and threads.

LEMMA RootWrites ==
    ASSUME root \in [Roots -> RootType], NEW r \in Roots
    PROVE  /\ \A status \in RootStatus : [root EXCEPT ![r].status = status] \in [Roots -> RootType]
           /\ \A n \in Contents : [root EXCEPT ![r].content = n] \in [Roots -> RootType]
           /\ \A b \in BOOLEAN : /\ [root EXCEPT ![r].due = b] \in [Roots -> RootType]
                                 /\ [root EXCEPT ![r].deleted = b] \in [Roots -> RootType]
BY DEF RootType

\* A thread that imports, synchronises or chunks knows its root.
LEMMA AtWork ==
    ASSUME Inv, NEW t \in Threads, thread[t].pc \in Syncing \cup Importing \cup {"chunks"}
    PROVE  /\ thread[t] \in ThreadType /\ thread[t].r \in Roots /\ thread[t].content \in Contents
           /\ root[thread[t].r] \in RootType
<1>1. Good(thread[t]) /\ thread[t].r \in Roots
  BY DEF Inv, Threaded, Good
<1> QED
  BY <1>1 DEF Inv, Around, Good, ThreadType

LEMMA SyncReadStep ==
    ASSUME Inv, NEW t \in Threads, SyncRead(t)
    PROVE  Around' /\ Threaded'
<1> DEFINE me == thread[t]
           m == [me EXCEPT !.pc = IF root[me.r].deleted THEN "syncRemove" ELSE "syncChunks",
                           !.status = root[me.r].status]
<1>1. /\ me.pc = "sync" /\ me \in ThreadType /\ Good(me) /\ me.r \in Roots
      /\ root[me.r].status \in RootStatus
  BY AtWork DEF Inv, Threaded, SyncRead, Syncing, RootType
<1>2. Around'
  BY DEF Inv, Around, SyncRead, counters
<1>3. m \in ThreadType
  <2>1. /\ (IF root[me.r].deleted THEN "syncRemove" ELSE "syncChunks") \in Steps
        /\ root[me.r].status \in RootStatus \cup {"none"}
    BY <1>1 DEF Steps, Syncing
  <2> QED
    BY <1>1, <2>1 DEF ThreadType
<1>4. /\ m.pc \in {"syncRemove", "syncChunks"} /\ m.status = root[me.r].status
      /\ m.r = me.r /\ m.back = me.back /\ m.token = me.token /\ m.dim = me.dim
  BY <1>1 DEF ThreadType
<1>5. Good(m)
  BY <1>1, <1>3, <1>4 DEF Good, Syncing, Importing, Indexing
<1>6. thread' = [thread EXCEPT ![t] = m]
  BY DEF SyncRead, Inv, Threaded
<1> QED
  BY <1>2, <1>5, <1>6, OneThread DEF Inv

LEMMA SyncChunksStep ==
    ASSUME Inv, NEW t \in Threads, SyncChunks(t)
    PROVE  Around' /\ Threaded'
<1> DEFINE me == thread[t]
           m == [me EXCEPT !.pc = "syncReplace", !.content = ContentOf(me.r)]
<1>1. /\ me.pc = "syncChunks" /\ me \in ThreadType /\ Good(me) /\ me.r \in Roots
      /\ ContentOf(me.r) \in Contents
  BY AtWork, ContentType DEF Inv, Threaded, SyncChunks, Syncing
<1>2. Around'
  BY DEF Inv, Around, SyncChunks, counters
<1>3. m \in ThreadType
  <2>1. "syncReplace" \in Steps
    BY DEF Steps, Syncing
  <2> QED
    BY <1>1, <2>1 DEF ThreadType
<1>4. /\ m.pc = "syncReplace" /\ m.status = me.status
      /\ m.r = me.r /\ m.back = me.back /\ m.token = me.token /\ m.dim = me.dim
  BY <1>1 DEF ThreadType
<1>5. Good(m)
  BY <1>1, <1>3, <1>4 DEF Good, Syncing, Importing, Indexing
<1>6. thread' = [thread EXCEPT ![t] = m]
  BY DEF SyncChunks, Inv, Threaded
<1> QED
  BY <1>2, <1>5, <1>6, OneThread DEF Inv

\* Imports.
LEMMA ImportStep ==
    ASSUME Inv, NEW t \in Threads, Import(t)
    PROVE  Around' /\ Threaded' /\ UNCHANGED <<proj, emb>>
<1>1. ASSUME NEW r \in Roots, ImportStart(t, r)
      PROVE  Around' /\ Threaded' /\ UNCHANGED <<proj, emb>>
  <2>1. root' \in [Roots -> RootType]
    BY <1>1, RootWrites DEF Inv, Around, ImportStart, SetStatus
  <2> QED
    BY <1>1, <2>1, SyncingNext DEF Inv, Around, ImportStart, Importing, counters
<1>2. CASE Enqueue(t)
  <2>1. thread[t].pc = "enqueue" /\ thread[t].r \in Roots
    BY <1>2, AtWork DEF Enqueue, Importing
  <2>2. root' \in [Roots -> RootType]
    BY <1>2, <2>1, RootWrites, ZenonT(60) DEF Inv, Around, Enqueue
  <2>3. Threaded'
    BY <1>2, <2>1, Ending, Moving DEF Inv, Enqueue, Importing
  <2> QED
    BY <1>2, <2>2, <2>3 DEF Inv, Around, Enqueue, counters
<1>3. CASE ReplaceUnits(t)
  <2>1. thread[t].pc = "parse" /\ thread[t].r \in Roots
    BY <1>3, AtWork DEF ReplaceUnits, Importing
  <2>2. PICK n \in Contents : writes' = n /\ root' = [root EXCEPT ![thread[t].r].content = n]
    BY <1>3 DEF ReplaceUnits, Fresh
  <2>3. root' \in [Roots -> RootType]
    BY <2>1, <2>2, RootWrites DEF Inv, Around
  <2>4. Threaded'
    BY <1>3, <2>1, Moving DEF Inv, ReplaceUnits, Importing
  <2> QED
    BY <1>3, <2>2, <2>3, <2>4 DEF Inv, Around, ReplaceUnits
<1>4. CASE MarkReady(t)
  <2>1. thread[t].r \in Roots
    BY <1>4, AtWork DEF MarkReady, Importing
  <2>2. root' \in [Roots -> RootType]
    BY <1>4, <2>1, RootWrites DEF Inv, Around, MarkReady, SetStatus
  <2> QED
    BY <1>4, <2>1, <2>2, SyncingNext DEF Inv, Around, MarkReady, Importing, counters
<1>5. CASE ImportFail(t)
  <2>1. thread[t].r \in Roots
    BY <1>5, AtWork DEF ImportFail, Importing
  <2>2. PICK status \in RootStatus : root' = [root EXCEPT ![thread[t].r].status = status]
    BY <1>5 DEF ImportFail, SetStatus
  <2>3. root' \in [Roots -> RootType]
    BY <2>1, <2>2, RootWrites DEF Inv, Around
  <2> QED
    BY <1>5, <2>1, <2>3, SyncingNext DEF Inv, Around, ImportFail, Importing, counters
<1>6. CASE Settle(t)
  <2>1. thread[t].r \in Roots
    BY <1>6, AtWork DEF Settle, Importing
  <2>2. root' \in [Roots -> RootType]
    BY <1>6, <2>1, RootWrites DEF Inv, Around, Settle
  <2> QED
    BY <1>6, <2>2, Ending DEF Inv, Around, Settle, counters
<1> QED
  BY <1>1, <1>2, <1>3, <1>4, <1>5, <1>6 DEF Import

\* Chunking, alone or inside an index run.
LEMMA ChunksStartStep ==
    ASSUME Inv, NEW t \in Threads, NEW r \in Roots, NEW back, ChunksStart(t, r, back),
           \/ back = "idle" /\ thread[t].pc = "idle"
           \/ back = "ensure" /\ thread[t].pc = "ensure"
    PROVE  Around' /\ Threaded' /\ UNCHANGED <<proj, emb>>
<1> DEFINE me == thread[t]
           m(n) == [me EXCEPT !.pc = "chunks", !.r = r, !.content = n, !.back = back,
                              !.todo = me.todo \ {r}]
<1>1. Good(me) /\ me \in ThreadType
  BY DEF Inv, Threaded
<1>2. PICK n \in Contents : Fresh(n) /\ thread' = [thread EXCEPT ![t] = m(n)]
  BY DEF ChunksStart, Inv, Threaded
<1>3. m(n) \in ThreadType
  <2>1. "chunks" \in Steps /\ back \in Steps
    BY DEF Steps
  <2>2. me.todo \ {r} \in SUBSET Roots
    BY <1>1 DEF ThreadType
  <2> QED
    BY <1>1, <2>1, <2>2 DEF ThreadType
<1>4. /\ m(n).pc = "chunks" /\ m(n).r = r /\ m(n).back = back
      /\ m(n).token = me.token /\ m(n).dim = me.dim
  BY <1>1 DEF ThreadType
<1>5. Good(m(n))
  BY <1>1, <1>3, <1>4 DEF Good, Syncing, Importing, Indexing
<1>6. Threaded'
  BY <1>2, <1>5, OneThread DEF Inv
<1> QED
  BY <1>2, <1>6 DEF Inv, Around, ChunksStart, Fresh

LEMMA WriteChunksStep ==
    ASSUME Inv, NEW t \in Threads, WriteChunks(t)
    PROVE  Around' /\ Threaded' /\ UNCHANGED <<proj, emb>>
<1>1. /\ thread[t].r \in Roots /\ thread[t].content \in Contents
      /\ thread[t].back \in Importing \cup {"idle", "restored", "ensure"}
  BY AtWork DEF Inv, Threaded, Good, WriteChunks
<1>2. root' \in [Roots -> RootType]
  BY <1>1, RootWrites DEF Inv, Around, WriteChunks
<1>3. Threaded'
  BY <1>1, Moving DEF Inv, WriteChunks
<1> QED
  BY <1>2, <1>3 DEF Inv, Around, WriteChunks, counters

\* The parts of an index run that write no projection.
LEMMA IndexStartStep ==
    ASSUME Inv, NEW t \in Threads, NEW S \in SUBSET Roots, NEW dim \in Dims,
           NEW regenerate \in BOOLEAN, IndexStart(t, S, dim, regenerate)
    PROVE  Around' /\ Threaded' /\ UNCHANGED <<proj, emb>>
<1> DEFINE due == {r \in S \cap Videos : /\ proj[r].status = "ready"
                                         /\ regenerate \/ proj[r].content = 0}
           m == [Idle EXCEPT !.pc = "ensure", !.selected = S, !.dim = dim,
                             !.token = indexes + 1, !.todo = due]
<1>1. indexes' = indexes + 1 /\ indexes + 1 \in 0..MaxIndexes /\ indexes + 1 # 0
  BY DEF Inv, Around, IndexStart
<1>2. m \in ThreadType
  <2>1. "ensure" \in Steps /\ due \in SUBSET Roots
    BY DEF Steps, Roots
  <2> QED
    BY <1>1, <2>1, IdleType DEF ThreadType
<1>3. m.pc = "ensure" /\ m.back = Idle.back /\ m.token = indexes + 1 /\ m.dim = dim
  BY IdleType DEF ThreadType
<1>4. Good(m)
  BY <1>1, <1>2, <1>3 DEF Good, Syncing, Importing, Indexing
<1>5. thread' = [thread EXCEPT ![t] = m]
  BY DEF IndexStart
<1>6. Threaded'
  BY <1>4, <1>5, OneThread DEF Inv
<1> QED
  BY <1>1, <1>6 DEF Inv, Around, IndexStart

LEMMA IndexResolveStep ==
    ASSUME Inv, NEW t \in Threads, IndexResolve(t)
    PROVE  Around' /\ Threaded' /\ UNCHANGED <<proj, emb>>
<1> DEFINE me == thread[t]
           available == {r \in me.selected : proj[r].status = "ready" /\ proj[r].content # 0}
           snap == [r \in available |-> proj[r].content]
           m == [Idle EXCEPT !.pc = "begin", !.token = me.token, !.dim = me.dim, !.snap = snap]
<1>1. me \in ThreadType /\ me.token # 0 /\ me.dim \in Dims
  BY DEF Inv, Threaded, Good, IndexResolve
<1>2. m \in ThreadType
  <2>1. available \in SUBSET Roots
    BY <1>1 DEF ThreadType
  <2>2. snap \in [available -> Contents]
    BY <2>1 DEF Inv, Rows, RowType
  <2>3. snap \in Snaps
    BY <2>1, <2>2, SnapOf
  <2>4. "begin" \in Steps /\ me.token \in 0..MaxIndexes
    BY <1>1 DEF Steps, ThreadType
  <2> HIDE DEF snap
  <2> QED
    BY <1>1, <2>3, <2>4, IdleType DEF ThreadType
<1>3. m.pc = "begin" /\ m.back = Idle.back /\ m.token = me.token /\ m.dim = me.dim
  BY IdleType DEF ThreadType
<1>4. Good(m)
  BY <1>1, <1>2, <1>3 DEF Good, Syncing, Importing, Indexing
<1>5. thread' = [thread EXCEPT ![t] = m] \/ End(t)
  BY DEF IndexResolve
<1>6. Threaded'
  BY <1>4, <1>5, OneThread, Ending DEF Inv
<1> QED
  BY <1>6 DEF Inv, Around, IndexResolve, counters

LEMMA IndexPlanStep ==
    ASSUME Inv, NEW t \in Threads, IndexPlan(t)
    PROVE  Around' /\ Threaded' /\ UNCHANGED <<proj, emb>>
<1> DEFINE me == thread[t]
           missing == {r \in DOMAIN me.snap : <<me.snap[r], me.dim>> \notin emb[r]}
           m == [me EXCEPT !.pc = "embed", !.pending = missing]
<1>1. /\ me.pc = "plan" /\ me \in ThreadType /\ Good(me)
      /\ DOMAIN me.snap \in SUBSET Roots /\ me.token # 0 /\ me.dim \in Dims
  BY InRun DEF Inv, Threaded, IndexPlan, Indexing
<1>2. m \in ThreadType
  <2>1. "embed" \in Steps /\ missing \in SUBSET Roots
    BY <1>1 DEF Steps, Indexing
  <2> QED
    BY <1>1, <2>1 DEF ThreadType
<1>3. /\ m.pc = "embed" /\ m.token = me.token /\ m.dim = me.dim
  BY <1>1 DEF ThreadType
<1>4. Good(m)
  BY <1>1, <1>2, <1>3 DEF Good, Syncing, Importing, Indexing
<1>5. thread' = [thread EXCEPT ![t] = m]
  BY DEF IndexPlan, Inv, Threaded
<1>6. Threaded'
  BY <1>4, <1>5, OneThread DEF Inv
<1> QED
  BY <1>6 DEF Inv, Around, IndexPlan, counters

LEMMA IndexMoves ==
    ASSUME Inv, NEW t \in Threads,
           IndexEnsureFail(t) \/ IndexPublish(t) \/ IndexInterrupt(t)
    PROVE  Around' /\ Threaded' /\ UNCHANGED <<proj, emb>>
<1>1. CASE IndexEnsureFail(t)
  BY <1>1, Ending DEF Inv, Around, IndexEnsureFail, counters
<1>2. CASE IndexPublish(t)
  <2>1. thread[t].token # 0 /\ thread[t].dim \in Dims
    BY <1>2, InRun DEF Inv, IndexPublish, Indexing
  <2>2. PICK pc \in {"commit", "fail"} : Goto(t, pc)
    BY <1>2 DEF IndexPublish
  <2>3. Threaded'
    BY <2>1, <2>2, Moving DEF Inv, Indexing
  <2> QED
    BY <1>2, <2>3 DEF Inv, Around, IndexPublish, counters
<1>3. CASE IndexInterrupt(t)
  <2>1. thread[t].token # 0 /\ thread[t].dim \in Dims
    BY <1>3, InRun DEF Inv, IndexInterrupt, Indexing
  <2>2. Threaded'
    BY <1>3, <2>1, Moving DEF Inv, IndexInterrupt, Indexing
  <2> QED
    BY <1>3, <2>2 DEF Inv, Around, IndexInterrupt, counters
<1> QED
  BY <1>1, <1>2, <1>3

\* Trash, restores and settled tasks.
LEMMA RootStep ==
    ASSUME Inv, NEW r \in Roots,
           Trash(r) \/ SettleCompleted(r) \/ \E t \in Threads : Restore(t, r)
    PROVE  Around' /\ Threaded' /\ UNCHANGED <<proj, emb>>
<1>1. CASE Trash(r)
  <2>1. root' \in [Roots -> RootType]
    BY <1>1, RootWrites DEF Inv, Around, Trash
  <2> QED
    BY <1>1, <2>1 DEF Inv, Around, Threaded, Trash
<1>2. CASE SettleCompleted(r)
  <2>1. root' \in [Roots -> RootType]
    BY <1>2, RootWrites DEF Inv, Around, SettleCompleted
  <2> QED
    BY <1>2, <2>1 DEF Inv, Around, Threaded, SettleCompleted, counters
<1>3. ASSUME NEW t \in Threads, Restore(t, r)
      PROVE  Around' /\ Threaded' /\ UNCHANGED <<proj, emb>>
  <2>1. root' \in [Roots -> RootType]
    BY <1>3, RootWrites DEF Inv, Around, Restore
  <2> QED
    BY <1>3, <2>1, SyncingNext DEF Inv, Around, Restore, counters
<1> QED
  BY <1>1, <1>2, <1>3

LEMMA CrashStep ==
    ASSUME Inv, Crash
    PROVE  Around' /\ Threaded' /\ UNCHANGED <<proj, emb>>
<1>1. Threaded'
  <2>1. thread' \in [Threads -> ThreadType] /\ \A t \in Threads : Good(thread'[t])
    BY GoodIdle, IdleType DEF Crash
  <2> QED
    BY <2>1 DEF Threaded, Good
<1> QED
  BY <1>1 DEF Inv, Around, Crash

----------------------------------------------------------------------------
\* Every step keeps the invariant, and the promise of ReadyIsKept.
LEMMA Inductive ==
    ASSUME Inv, [Next]_vars
    PROVE  Inv' /\ KeepsReady
<1> DEFINE Goal == Around' /\ Rows' /\ Threaded' /\ KeepsReady
           Quiet == Around' /\ Threaded' /\ UNCHANGED <<proj, emb>>
<1> SUFFICES Goal
  BY DEF Inv
<1>1. Quiet => Goal
  BY QuietRows DEF Inv
<1>2. ASSUME NEW t \in Threads, Sync(t) PROVE Goal
  <2>1. CASE SyncRead(t)
    BY <1>1, <2>1, SyncReadStep DEF SyncRead
  <2>2. CASE SyncChunks(t)
    BY <1>1, <2>2, SyncChunksStep DEF SyncChunks
  <2> QED
    BY <1>2, <2>1, <2>2, SyncReplaceStep, SyncRemoveStep DEF Sync
<1>3. ASSUME NEW t \in Threads, Index(t) PROVE Goal
  <2>1. ASSUME NEW S \in SUBSET Roots, NEW dim \in Dims, NEW regenerate \in BOOLEAN,
               IndexStart(t, S, dim, regenerate)
        PROVE  Goal
    BY <1>1, <2>1, IndexStartStep
  <2>2. CASE IndexEnsure(t)
    <3>1. thread[t] \in ThreadType /\ thread[t].pc = "ensure"
      BY <2>2 DEF IndexEnsure, Inv, Threaded
    <3>2. PICK r \in thread[t].todo : ChunksStart(t, r, "ensure")
      BY <2>2 DEF IndexEnsure
    <3>3. r \in Roots
      BY <3>1, <3>2 DEF ThreadType
    <3> QED
      BY <1>1, <3>1, <3>2, <3>3, ChunksStartStep
  <2>3. CASE IndexResolve(t)
    BY <1>1, <2>3, IndexResolveStep
  <2>4. CASE IndexPlan(t)
    BY <1>1, <2>4, IndexPlanStep
  <2>5. CASE IndexEnsureFail(t) \/ IndexPublish(t) \/ IndexInterrupt(t)
    BY <1>1, <2>5, IndexMoves
  <2>6. CASE IndexBegin(t) \/ IndexCommit(t) \/ IndexFail(t)
    BY <2>6, IndexBeginStep, IndexCommitStep, IndexFailStep
  <2> QED
    BY <1>3, <2>1, <2>2, <2>3, <2>4, <2>5, <2>6 DEF Index
<1>4. ASSUME NEW t \in Threads, Step(t) PROVE Goal
  <2>1. CASE Import(t)
    BY <1>1, <2>1, ImportStep
  <2>2. CASE WriteChunks(t)
    BY <1>1, <2>2, WriteChunksStep
  <2>3. ASSUME NEW r \in Videos, GenerateChunks(t, r) PROVE Goal
    <3>1. r \in Roots
      BY DEF Roots
    <3> QED
      BY <1>1, <2>3, <3>1, ChunksStartStep DEF GenerateChunks
  <2>4. ASSUME NEW r \in Roots, Restore(t, r) PROVE Goal
    BY <1>1, <2>4, RootStep
  <2> QED
    BY <1>2, <1>3, <1>4, <2>1, <2>2, <2>3, <2>4 DEF Step
<1>5. CASE \E r \in Roots : Trash(r) \/ SettleCompleted(r)
  BY <1>1, <1>5, RootStep
<1>6. CASE Crash
  BY <1>1, <1>6, CrashStep
<1>7. CASE RecoverJobs \/ RecoverIndexes \/ Reconcile
  BY <1>7, RecoverJobsStep, RecoverIndexesStep, ReconcileStep
<1>8. CASE UNCHANGED vars
  BY <1>1, <1>8 DEF Inv, Around, Threaded, vars, counters
<1> QED
  BY <1>4, <1>5, <1>6, <1>7, <1>8 DEF Next

\* The invariant holds in every reachable state.
THEOREM InvHolds == Spec => []Inv
<1>1. Inv /\ [Next]_vars => Inv'
  BY Inductive
<1> QED
  BY Base, <1>1, PTL DEF Spec

\* No step leaves a row, a thread or a counter outside its type: the rows of
\* sources keep the statuses that CourseSource can read.
THEOREM SourcesTyped == Spec => []STypeOK
BY InvHolds, InvTypes, PTL

\* A source shown as indexed is searchable in the dimension of its index,
\* for any number of roots, concurrent runs, writers and crashes.
THEOREM ReadyIsTrue == Spec => []IndexReadyTrue
BY InvHolds, InvTypes, PTL

\* The two together, which is what the run checks.
THEOREM SourcesStaySound == Spec => []SourcesSound
BY SourcesTyped, ReadyIsTrue, PTL DEF SourcesSound

\* No late commit, late failure or restart takes a finished index down.
THEOREM ReadyStays == Spec => ReadyIsKept
<1>1. Inv /\ [Next]_vars => [KeepsReady]_vars
  BY Inductive
<1> QED
  BY <1>1, InvHolds, PTL DEF Spec, ReadyIsKept, KeepsReady

----------------------------------------------------------------------------
(***************************************************************************)
(* The projection: who indexes a source, and that it follows its root.     *)
(*                                                                         *)
(* Paired ties the status of an index to its generation.  Owned says who   *)
(* holds a generation; it needs Apart, that no two runs have the same one, *)
(* so that a run that ends gives back all it holds.  A synchronisation     *)
(* that has read its root may write it back only because of Locked: while  *)
(* it holds the lock, nobody who owes the same root can finish, so that    *)
(* Readings, which lets a reading be out of date only when somebody else   *)
(* still owes the root, stays true until it writes.  Startup works alone   *)
(* and ends with no generation held.                                       *)
(***************************************************************************)

Pair(row) == /\ row.index = "indexing" <=> row.token # 0
             /\ row.status = "none" => row.token = 0

Owner(m, r) == m.pc \in Indexing /\ m.token = proj[r].token /\ r \in DOMAIN m.snap

Holding == {"syncChunks", "syncReplace", "syncRemove"}

\* What a thread has read of its root, at most, is still so.
Current(m) == /\ m.pc \in {"syncChunks", "syncReplace"}
              /\ root[m.r].status = m.status
              /\ m.pc = "syncReplace" => root[m.r].content = m.content

Paired == \A r \in Roots : Pair(proj[r])
Owned == mode = "up" => \A r \in Roots :
             proj[r].token # 0 => \E t \in Threads : Owner(thread[t], r)
Apart == \A t \in Threads :
             /\ thread[t].token <= indexes
             /\ \A o \in Threads \ {t} : thread[t].token # 0 => thread[o].token # thread[t].token
Locked == \A t \in Threads : thread[t].pc \in Holding => lock = t
Readings == \A t \in Threads : thread[t].pc \in Holding =>
                \/ root[thread[t].r].deleted
                \/ \E o \in Threads \ {t} : Owes(o, thread[t].r)
                \/ Current(thread[t])
Startup == /\ mode # "up" => \A t \in Threads : thread[t].pc = "idle"
           /\ mode = "sources" => \A r \in Roots : proj[r].token = 0

Projection == /\ Paired /\ Owned /\ Apart /\ Locked /\ Readings /\ Startup
              /\ ProjectionFollowsRoot

LEMMA ProjectionIsSound == Projection => ProjectionSound
BY DEF Projection, Paired, Pair, Owned, Owner, ProjectionSound, IndexingOwned

LEMMA ProjectionBase == Init => Projection
<1> SUFFICES ASSUME Init PROVE Projection
  OBVIOUS
<1>1. ASSUME NEW t \in Threads PROVE thread[t].pc = "idle" /\ thread[t].token = 0
  BY DEF Init, Idle
<1>2. ASSUME NEW r \in Roots
      PROVE  /\ proj[r].token = 0 /\ proj[r].index = "not_indexed"
             /\ proj[r].status = root[r].status /\ proj[r].content = root[r].content
  BY DEF Init, NewRow, Staged
<1>3. Paired /\ Owned
  BY <1>2 DEF Paired, Pair, Owned
<1>4. Apart
  BY <1>1 DEF Apart, Init
<1>5. Locked /\ Readings /\ Startup
  BY <1>1, <1>2 DEF Locked, Readings, Startup, Holding
<1>6. ProjectionFollowsRoot
  BY <1>2 DEF ProjectionFollowsRoot
<1> QED
  BY <1>3, <1>4, <1>5, <1>6 DEF Projection

\* What a step of one thread does to the threads, and what it may do to roots.
Alone(t) == \A o \in Threads \ {t} : thread'[o] = thread[o]
WorksOn(m, r) == m.r = r /\ m.pc \in Syncing \cup {"ready"}
SameRoot(r) == /\ root'[r].status = root[r].status /\ root'[r].content = root[r].content
               /\ root'[r].deleted = root[r].deleted
SameCopy(r) == proj'[r].status = proj[r].status /\ proj'[r].content = proj[r].content

LEMMA EndAlone ==
    ASSUME Threaded, NEW t \in Threads, End(t)
    PROVE  Alone(t) /\ thread'[t].pc = "idle" /\ thread'[t].token = 0
<1>1. thread' = [thread EXCEPT ![t] = Idle] /\ thread \in [Threads -> ThreadType]
  BY DEF End, Threaded
<1>2. Idle.pc = "idle" /\ Idle.token = 0
  BY DEF Idle
<1> QED
  BY <1>1, <1>2 DEF Alone

LEMMA GotoAlone ==
    ASSUME Threaded, NEW t \in Threads, NEW pc, Goto(t, pc)
    PROVE  /\ Alone(t) /\ thread'[t].pc = pc /\ thread'[t].token = thread[t].token
           /\ thread'[t].r = thread[t].r /\ thread'[t].snap = thread[t].snap
           /\ thread'[t].status = thread[t].status /\ thread'[t].content = thread[t].content
<1>1. thread' = [thread EXCEPT ![t] = [thread[t] EXCEPT !.pc = pc]]
      /\ thread \in [Threads -> ThreadType] /\ thread[t] \in ThreadType
  BY DEF Goto, Threaded
<1> QED
  BY <1>1 DEF Alone, ThreadType

LEMMA SyncThenAlone ==
    ASSUME Threaded, NEW t \in Threads, NEW r, NEW back, SyncThen(t, r, back)
    PROVE  /\ Alone(t) /\ thread'[t].pc = "sync" /\ thread'[t].r = r
           /\ thread'[t].token = thread[t].token
<1>1. thread' = [thread EXCEPT ![t] = [thread[t] EXCEPT !.pc = "sync", !.r = r, !.back = back]]
      /\ thread \in [Threads -> ThreadType] /\ thread[t] \in ThreadType
  BY DEF SyncThen, Threaded
<1> QED
  BY <1>1 DEF Alone, ThreadType

\* Generations stay apart as long as a thread keeps its own, drops it or takes
\* a new one.
LEMMA ApartStep ==
    ASSUME Inv, Apart, NEW t \in Threads, Alone(t),
           \/ indexes' = indexes /\ thread'[t].token \in {0, thread[t].token}
           \/ indexes' = indexes + 1 /\ thread'[t].token = indexes + 1
    PROVE  Apart'
<1>1. /\ indexes \in Nat
      /\ \A o \in Threads : thread[o].token \in Nat /\ thread[o].token <= indexes
  BY DEF Inv, Around, Threaded, ThreadType, Apart
<1>2. ASSUME NEW o \in Threads PROVE thread'[o].token <= indexes'
  BY <1>1 DEF Alone
<1>3. ASSUME NEW o \in Threads, NEW p \in Threads \ {o}, thread'[o].token # 0
      PROVE  thread'[p].token # thread'[o].token
  <2>1. CASE o # t /\ p # t
    BY <1>3, <2>1 DEF Alone, Apart
  <2>2. CASE o = t
    BY <1>1, <1>3, <2>2 DEF Alone, Apart
  <2>3. CASE p = t
    BY <1>1, <1>3, <2>3 DEF Alone, Apart
  <2> QED
    BY <2>1, <2>2, <2>3
<1> QED
  BY <1>2, <1>3 DEF Apart

\* A run keeps what it holds as long as it goes on.
LEMMA OwnedStep ==
    ASSUME Owned, NEW t \in Threads, Alone(t), mode = "up",
           \A r \in Roots : proj'[r].token \in {0, proj[r].token},
           thread[t].pc \in Indexing => /\ thread'[t].pc \in Indexing
                                        /\ thread'[t].token = thread[t].token
                                        /\ thread'[t].snap = thread[t].snap
    PROVE  Owned'
<1> SUFFICES ASSUME NEW r \in Roots, proj'[r].token # 0
             PROVE  \E o \in Threads : Owner(thread[o], r)'
  BY DEF Owned
<1>1. proj'[r].token = proj[r].token /\ proj[r].token # 0
  OBVIOUS
<1>2. PICK o \in Threads : Owner(thread[o], r)
  BY <1>1 DEF Owned
<1>3. CASE o = t
  BY <1>1, <1>2, <1>3 DEF Owner
<1>4. CASE o # t
  BY <1>1, <1>2, <1>4 DEF Owner, Alone
<1> QED
  BY <1>3, <1>4

\* Roots and projections: whoever changes a root owes it from then on, and
\* nobody forgets what it owes.
LEMMA FollowStep ==
    ASSUME Readings, ProjectionFollowsRoot, NEW t \in Threads, Alone(t), mode = "up",
           \A r \in Roots : SameCopy(r),
           \A r \in Roots : SameRoot(r) \/ WorksOn(thread'[t], r),
           \A r \in Roots : WorksOn(thread[t], r) => WorksOn(thread'[t], r),
           \A o \in Threads : thread[o].pc \in Holding => thread[o].r \in Roots,
           thread'[t].pc \in Holding =>
               /\ thread'[t].r \in Roots
               /\ \/ root'[thread'[t].r].deleted
                  \/ \E o \in Threads \ {t} : WorksOn(thread[o], thread'[t].r)
                  \/ Current(thread[t])'
    PROVE  Readings' /\ ProjectionFollowsRoot'
<1>1. ASSUME NEW o \in Threads, NEW r \in Roots, WorksOn(thread[o], r)
      PROVE  WorksOn(thread'[o], r)
  BY <1>1 DEF Alone
<1>2. ASSUME NEW o \in Threads, thread'[o].pc \in Holding
      PROVE  \/ root'[thread'[o].r].deleted
             \/ \E p \in Threads \ {o} : WorksOn(thread'[p], thread'[o].r)
             \/ Current(thread[o])'
  <2>1. CASE o = t
    BY <1>1, <1>2, <2>1
  <2>2. CASE o # t
    <3> DEFINE r == thread[o].r
    <3>1. thread'[o] = thread[o] /\ r \in Roots /\ thread[o].pc \in Holding
      BY <1>2, <2>2 DEF Alone
    <3>2. CASE WorksOn(thread'[t], r)
      BY <2>2, <3>1, <3>2
    <3>3. CASE SameRoot(r)
      <4>1. CASE \E p \in Threads \ {o} : WorksOn(thread[p], r)
        BY <1>1, <3>1, <4>1
      <4>2. CASE root[r].deleted \/ Current(thread[o])
        BY <3>1, <3>3, <4>2 DEF SameRoot, Current
      <4> QED
        BY <3>1, <4>1, <4>2 DEF Readings, Owes, WorksOn
    <3> QED
      BY <3>1, <3>2, <3>3
  <2> QED
    BY <2>1, <2>2
<1>3. Readings'
  BY <1>2 DEF Readings, Owes, WorksOn
<1>4. ASSUME NEW r \in Roots
      PROVE  \/ root'[r].deleted
             \/ \E o \in Threads : WorksOn(thread'[o], r)
             \/ proj'[r].status = root'[r].status /\ proj'[r].content = root'[r].content
  <2>1. CASE WorksOn(thread'[t], r)
    BY <2>1
  <2>2. CASE SameRoot(r)
    BY <1>1, <2>2 DEF ProjectionFollowsRoot, SameRoot, SameCopy, Owes, WorksOn
  <2> QED
    BY <2>1, <2>2
<1>5. ProjectionFollowsRoot'
  BY <1>4 DEF ProjectionFollowsRoot, Owes, WorksOn
<1> QED
  BY <1>3, <1>5

\* A thread that synchronises has a root.
LEMMA HoldingRoot ==
    ASSUME Inv, NEW o \in Threads, thread[o].pc \in Holding
    PROVE  thread[o].r \in Roots
BY AtWork DEF Holding, Syncing

\* A step of a thread that neither holds the lock nor writes a projection.
LEMMA PlainStep ==
    ASSUME Inv, Projection, NEW t \in Threads, Alone(t), mode = "up", mode' = mode,
           lock' = lock, proj' = proj,
           thread[t].pc \notin Holding, thread'[t].pc \notin Holding,
           \/ indexes' = indexes /\ thread'[t].token \in {0, thread[t].token}
           \/ indexes' = indexes + 1 /\ thread'[t].token = indexes + 1,
           thread[t].pc \in Indexing => /\ thread'[t].pc \in Indexing
                                        /\ thread'[t].token = thread[t].token
                                        /\ thread'[t].snap = thread[t].snap,
           \A r \in Roots : SameRoot(r) \/ WorksOn(thread'[t], r),
           \A r \in Roots : WorksOn(thread[t], r) => WorksOn(thread'[t], r)
    PROVE  Projection'
<1>1. Paired' /\ Startup'
  BY DEF Projection, Paired, Pair, Startup
<1>2. Owned'
  BY OwnedStep DEF Projection
<1>3. Apart'
  BY ApartStep DEF Projection
<1>4. Locked'
  BY DEF Projection, Locked, Alone
<1>5. Readings' /\ ProjectionFollowsRoot'
  BY FollowStep, HoldingRoot DEF Projection, SameCopy
<1> QED
  BY <1>1, <1>2, <1>3, <1>4, <1>5 DEF Projection

\* The imports: each root written is owed by its writer.
LEMMA ImportKeeps ==
    ASSUME Inv, Projection, mode = "up", NEW t \in Threads, Import(t), mode' = mode
    PROVE  Projection'
<1> USE DEF Holding, Syncing, Importing, Indexing
<1>0. /\ Threaded /\ root \in [Roots -> RootType]
      /\ thread[t].pc \in Importing => thread[t].r \in Roots
  BY AtWork DEF Inv, Around
<1>1. ASSUME NEW r \in Roots, ImportStart(t, r) PROVE Projection'
  <2>1. /\ thread[t].pc = "idle" /\ Alone(t) /\ thread'[t].pc = "sync" /\ thread'[t].r = r
        /\ thread'[t].token = thread[t].token
    BY <1>0, <1>1, SyncThenAlone DEF ImportStart
  <2>2. \A q \in Roots : q # r => root'[q] = root[q]
    BY <1>0, <1>1 DEF ImportStart, SetStatus
  <2> QED
    BY <1>1, <2>1, <2>2, PlainStep DEF ImportStart, counters, SameRoot, WorksOn
<1>2. CASE Enqueue(t)
  <2>1. \A q \in Roots : SameRoot(q)
    BY <1>0, <1>2 DEF Enqueue, SameRoot, RootType
  <2>2. /\ Alone(t) /\ thread'[t].pc \in {"idle", "parse"}
        /\ thread'[t].token \in {0, thread[t].token}
    BY <1>0, <1>2, EndAlone, GotoAlone DEF Enqueue
  <2> QED
    BY <1>2, <2>1, <2>2, PlainStep DEF Enqueue, counters, WorksOn
<1>3. CASE ReplaceUnits(t)
  <2>1. /\ thread[t].pc = "parse" /\ Alone(t) /\ thread'[t].pc = "ready"
        /\ thread'[t].r = thread[t].r /\ thread'[t].token = thread[t].token
    BY <1>0, <1>3, GotoAlone DEF ReplaceUnits
  <2>2. \A q \in Roots : q # thread[t].r => root'[q] = root[q]
    BY <1>0, <1>3 DEF ReplaceUnits
  <2> QED
    BY <1>3, <2>1, <2>2, PlainStep DEF ReplaceUnits, SameRoot, WorksOn
<1>4. CASE MarkReady(t) \/ ImportFail(t)
  <2>1. /\ thread[t].pc \in {"parse", "ready"} /\ Alone(t) /\ thread'[t].pc = "sync"
        /\ thread'[t].r = thread[t].r /\ thread'[t].token = thread[t].token
    BY <1>0, <1>4, SyncThenAlone DEF MarkReady, ImportFail
  <2>2. \A q \in Roots : q # thread[t].r => root'[q] = root[q]
    BY <1>0, <1>4 DEF MarkReady, ImportFail, SetStatus
  <2> QED
    BY <1>4, <2>1, <2>2, PlainStep DEF MarkReady, ImportFail, counters, SameRoot, WorksOn
<1>5. CASE Settle(t)
  <2>1. \A q \in Roots : SameRoot(q)
    BY <1>0, <1>5 DEF Settle, SameRoot, RootType
  <2>2. Alone(t) /\ thread'[t].pc = "idle" /\ thread'[t].token = 0
    BY <1>0, <1>5, EndAlone DEF Settle
  <2> QED
    BY <1>5, <2>1, <2>2, PlainStep DEF Settle, counters, WorksOn
<1> QED
  BY <1>1, <1>2, <1>3, <1>4, <1>5 DEF Import

LEMMA ChunksAlone ==
    ASSUME Threaded, NEW t \in Threads, NEW r, NEW back, ChunksStart(t, r, back)
    PROVE  Alone(t) /\ thread'[t].pc = "chunks" /\ thread'[t].token = thread[t].token
<1>1. thread \in [Threads -> ThreadType] /\ thread[t] \in ThreadType
  BY DEF Threaded
<1>2. PICK n \in Contents : thread' = [thread EXCEPT ![t] =
              [@ EXCEPT !.pc = "chunks", !.r = r, !.content = n, !.back = back,
                        !.todo = thread[t].todo \ {r}]]
  BY Zenon DEF ChunksStart
<1>3. thread' = [thread EXCEPT ![t] =
              [thread[t] EXCEPT !.pc = "chunks", !.r = r, !.content = n, !.back = back,
                                !.todo = thread[t].todo \ {r}]]
  BY <1>1, <1>2
<1> QED
  BY <1>1, <1>3 DEF Alone, ThreadType

LEMMA ChunksStartKeeps ==
    ASSUME Inv, Projection, mode = "up", NEW t \in Threads, NEW r \in Roots, NEW back,
           ChunksStart(t, r, back), thread[t].pc = "idle" \/ thread[t].pc = "ensure"
    PROVE  Projection'
<1>1. Alone(t) /\ thread'[t].pc = "chunks" /\ thread'[t].token = thread[t].token
  BY ChunksAlone DEF Inv
<1> QED
  BY <1>1, PlainStep DEF ChunksStart, SameRoot, WorksOn, Holding, Syncing, Indexing

LEMMA WriteChunksKeeps ==
    ASSUME Inv, Projection, mode = "up", NEW t \in Threads, WriteChunks(t)
    PROVE  Projection'
<1> USE DEF Holding, Syncing, Indexing
<1>1. /\ thread[t].pc = "chunks" /\ Alone(t) /\ thread'[t].pc = "sync"
      /\ thread'[t].r = thread[t].r /\ thread'[t].token = thread[t].token
  BY GotoAlone DEF WriteChunks, Inv
<1>2. \A q \in Roots : q # thread[t].r => root'[q] = root[q]
  BY DEF WriteChunks, Inv, Around
<1> QED
  BY <1>1, <1>2, PlainStep DEF WriteChunks, counters, SameRoot, WorksOn

LEMMA RestoreKeeps ==
    ASSUME Inv, Projection, mode = "up", NEW t \in Threads, NEW r \in Roots, Restore(t, r)
    PROVE  Projection'
<1> USE DEF Holding, Syncing, Indexing
<1>1. /\ thread[t].pc = "idle" /\ Alone(t) /\ thread'[t].pc = "sync" /\ thread'[t].r = r
      /\ thread'[t].token = thread[t].token
  BY SyncThenAlone DEF Restore, Inv
<1>2. \A q \in Roots : q # r => root'[q] = root[q]
  BY DEF Restore, Inv, Around
<1>3. \A q \in Roots : SameRoot(q) \/ WorksOn(thread'[t], q)
  BY <1>1, <1>2 DEF SameRoot, WorksOn
<1>4. \A q \in Roots : ~WorksOn(thread[t], q)
  BY <1>1 DEF WorksOn
<1>5. /\ thread[t].pc \notin Holding \cup Indexing /\ thread'[t].pc \notin Holding
      /\ lock' = lock /\ proj' = proj /\ mode' = mode /\ indexes' = indexes
  BY <1>1 DEF Restore, counters
<1> QED
  BY <1>1, <1>3, <1>4, <1>5, PlainStep

LEMMA IndexStartAlone ==
    ASSUME Threaded, NEW t \in Threads, NEW S, NEW dim, NEW regenerate,
           IndexStart(t, S, dim, regenerate)
    PROVE  /\ Alone(t) /\ thread[t].pc = "idle" /\ thread'[t].pc = "ensure"
           /\ thread'[t].token = indexes + 1 /\ indexes' = indexes + 1
           /\ UNCHANGED <<root, proj, emb, lock, mode>>
<1> DEFINE due == {r \in S \cap Videos : /\ proj[r].status = "ready"
                                         /\ regenerate \/ proj[r].content = 0}
           m == [Idle EXCEPT !.pc = "ensure", !.selected = S, !.dim = dim,
                             !.token = indexes + 1, !.todo = due]
<1>1. thread' = [thread EXCEPT ![t] = m]
  BY DEF IndexStart
<1>2. m.pc = "ensure" /\ m.token = indexes + 1
  <2> HIDE DEF due
  <2> QED
    BY DEF Idle
<1> HIDE DEF m
<1>3. thread'[t] = m /\ \A o \in Threads \ {t} : thread'[o] = thread[o]
  BY <1>1 DEF Threaded
<1>4. /\ thread[t].pc = "idle" /\ indexes' = indexes + 1
      /\ UNCHANGED <<root, proj, emb, lock, mode>>
  BY DEF IndexStart
<1> QED
  BY <1>2, <1>3, <1>4 DEF Alone

\* The parts of an index run that write no projection.
LEMMA IndexMovesKeep ==
    ASSUME Inv, Projection, mode = "up", NEW t \in Threads, mode' = mode,
           \/ \E S \in SUBSET Roots, dim \in Dims, regenerate \in BOOLEAN :
                 IndexStart(t, S, dim, regenerate)
           \/ IndexEnsureFail(t) \/ IndexResolve(t) \/ IndexPlan(t)
           \/ IndexPublish(t) \/ IndexInterrupt(t)
    PROVE  Projection'
<1> USE DEF Holding, Syncing, Indexing
<1>0. thread \in [Threads -> ThreadType] /\ Threaded
  BY DEF Inv, Threaded
<1>1. ASSUME NEW S \in SUBSET Roots, NEW dim \in Dims, NEW regenerate \in BOOLEAN,
             IndexStart(t, S, dim, regenerate)
      PROVE  Projection'
  <2>1. /\ Alone(t) /\ thread[t].pc = "idle" /\ thread'[t].pc = "ensure"
        /\ thread'[t].token = indexes + 1 /\ indexes' = indexes + 1
        /\ UNCHANGED <<root, proj, emb, lock, mode>>
    BY <1>0, <1>1, IndexStartAlone
  <2> QED
    BY <2>1, PlainStep DEF SameRoot, WorksOn
<1>2. CASE IndexEnsureFail(t)
  <2>1. /\ Alone(t) /\ thread[t].pc \in {"ensure", "chunks"}
        /\ thread'[t].pc = "idle" /\ thread'[t].token = 0
    BY <1>0, <1>2, EndAlone DEF IndexEnsureFail
  <2> QED
    BY <1>2, <2>1, PlainStep DEF IndexEnsureFail, counters, SameRoot, WorksOn
<1>3. CASE IndexResolve(t)
  <2>1. /\ Alone(t) /\ thread[t].pc = "ensure" /\ thread'[t].pc \in {"idle", "begin"}
        /\ thread'[t].token \in {0, thread[t].token}
    <3> DEFINE available == {r \in thread[t].selected :
                                 proj[r].status = "ready" /\ proj[r].content # 0}
               m == [Idle EXCEPT !.pc = "begin", !.token = thread[t].token,
                                 !.dim = thread[t].dim,
                                 !.snap = [r \in available |-> proj[r].content]]
    <3>1. thread' = [thread EXCEPT ![t] = m] \/ End(t)
      BY <1>3 DEF IndexResolve
    <3>2. m.pc = "begin" /\ m.token = thread[t].token
      BY DEF Idle
    <3> QED
      BY <1>0, <1>3, <3>1, <3>2, EndAlone DEF IndexResolve, Alone
  <2> QED
    BY <1>3, <2>1, PlainStep DEF IndexResolve, counters, SameRoot, WorksOn
<1>4. CASE IndexPlan(t)
  <2>1. /\ Alone(t) /\ thread[t].pc = "plan" /\ thread'[t].pc = "embed"
        /\ thread'[t].token = thread[t].token /\ thread'[t].snap = thread[t].snap
    <3> DEFINE missing == {r \in DOMAIN thread[t].snap :
                               <<thread[t].snap[r], thread[t].dim>> \notin emb[r]}
    <3>1. thread' = [thread EXCEPT ![t] = [thread[t] EXCEPT !.pc = "embed",
                                                            !.pending = missing]]
      BY <1>0, <1>4 DEF IndexPlan
    <3> HIDE DEF missing
    <3> QED
      BY <1>0, <1>4, <3>1 DEF IndexPlan, Alone, ThreadType
  <2> QED
    BY <1>4, <2>1, PlainStep DEF IndexPlan, counters, SameRoot, WorksOn
<1>5. CASE IndexPublish(t) \/ IndexInterrupt(t)
  <2>1. PICK pc \in {"commit", "fail"} : Goto(t, pc)
    BY <1>5 DEF IndexPublish, IndexInterrupt
  <2>2. /\ Alone(t) /\ thread[t].pc \in {"plan", "embed", "commit"}
        /\ thread'[t].pc \in {"commit", "fail"}
        /\ thread'[t].token = thread[t].token /\ thread'[t].snap = thread[t].snap
    BY <1>0, <1>5, <2>1, GotoAlone DEF IndexPublish, IndexInterrupt
  <2> QED
    BY <1>5, <2>2, PlainStep DEF IndexPublish, IndexInterrupt, counters, SameRoot, WorksOn
<1> QED
  BY <1>1, <1>2, <1>3, <1>4, <1>5

\* The synchronisation of one root: the row becomes what was read of it.
LEMMA ReplacedPair ==
    ASSUME NEW r \in Roots, proj[r] \in RowType, Pair(proj[r]),
           NEW status \in RootStatus, NEW content
    PROVE  /\ Pair(Replaced(r, status, content))
           /\ Replaced(r, status, content).token \in {0, proj[r].token}
           /\ Replaced(r, status, content).status = status
           /\ Replaced(r, status, content).content = content
<1> DEFINE new == Replaced(r, status, content)
           after == IndexAfter(r, status, content)
<1>1. /\ new.status = status /\ new.content = content
      /\ new.index = after[1] /\ new.token = after[2]
  BY DEF Replaced, RowType
<1>2. /\ after[1] = "indexing" <=> after[2] # 0
      /\ after[2] \in {0, proj[r].token}
  BY DEF IndexAfter, Pair
<1>3. status # "none"
  OBVIOUS
<1> HIDE DEF new, after
<1> QED
  BY <1>1, <1>2, <1>3 DEF Pair, new

LEMMA SyncReadKeeps ==
    ASSUME Inv, Projection, mode = "up", NEW t \in Threads, SyncRead(t)
    PROVE  Projection'
<1> DEFINE r == thread[t].r
<1>1. /\ thread[t].pc = "sync" /\ lock = NoThread /\ lock' = t
      /\ UNCHANGED <<root, proj, mode, indexes>>
      /\ r \in Roots /\ thread[t] \in ThreadType
  BY AtWork DEF SyncRead, counters, Syncing
<1>2. /\ Alone(t) /\ thread'[t].r = r /\ thread'[t].status = root[r].status
      /\ thread'[t].pc = (IF root[r].deleted THEN "syncRemove" ELSE "syncChunks")
      /\ thread'[t].token = thread[t].token
  <2>1. thread' = [thread EXCEPT ![t] =
            [thread[t] EXCEPT !.pc = IF root[r].deleted THEN "syncRemove" ELSE "syncChunks",
                              !.status = root[r].status]]
        /\ thread \in [Threads -> ThreadType]
    BY DEF SyncRead, Inv, Threaded
  <2> QED
    BY <1>1, <2>1 DEF Alone, ThreadType
<1>3. Locked'
  BY <1>1, <1>2 DEF Projection, Locked, Alone
<1>4. Owned'
  BY <1>1, <1>2, OwnedStep DEF Projection, Indexing
<1>5. Apart'
  BY <1>1, <1>2, ApartStep DEF Projection
<1>6. Readings' /\ ProjectionFollowsRoot'
  <2>1. /\ \A q \in Roots : SameCopy(q) /\ SameRoot(q)
        /\ \A q \in Roots : WorksOn(thread[t], q) => WorksOn(thread'[t], q)
    BY <1>1, <1>2 DEF SameCopy, SameRoot, WorksOn, Syncing
  <2>2. root'[thread'[t].r].deleted \/ Current(thread[t])'
    BY <1>1, <1>2 DEF Current
  <2> QED
    BY <1>1, <1>2, <2>1, <2>2, FollowStep, HoldingRoot DEF Projection
<1>7. Paired' /\ Startup'
  BY <1>1 DEF Projection, Paired, Pair, Startup
<1> QED
  BY <1>3, <1>4, <1>5, <1>6, <1>7 DEF Projection

LEMMA SyncChunksKeeps ==
    ASSUME Inv, Projection, mode = "up", NEW t \in Threads, SyncChunks(t)
    PROVE  Projection'
<1> DEFINE r == thread[t].r
<1>1. /\ thread[t].pc = "syncChunks" /\ UNCHANGED <<root, proj, lock, mode, indexes>>
      /\ r \in Roots /\ thread[t] \in ThreadType
  BY AtWork DEF SyncChunks, counters, Syncing
<1>2. /\ Alone(t) /\ thread'[t].r = r /\ thread'[t].status = thread[t].status
      /\ thread'[t].content = ContentOf(r) /\ thread'[t].pc = "syncReplace"
      /\ thread'[t].token = thread[t].token
  <2>1. thread' = [thread EXCEPT ![t] =
            [thread[t] EXCEPT !.pc = "syncReplace", !.content = ContentOf(r)]]
        /\ thread \in [Threads -> ThreadType]
    BY DEF SyncChunks, Inv, Threaded
  <2> QED
    BY <1>1, <2>1 DEF Alone, ThreadType
<1>3. Locked'
  BY <1>1, <1>2 DEF Projection, Locked, Alone, Holding
<1>4. Owned'
  BY <1>1, <1>2, OwnedStep DEF Projection, Indexing
<1>5. Apart'
  BY <1>1, <1>2, ApartStep DEF Projection
<1>6. Readings' /\ ProjectionFollowsRoot'
  <2>1. /\ \A q \in Roots : SameCopy(q) /\ SameRoot(q)
        /\ \A q \in Roots : WorksOn(thread[t], q) => WorksOn(thread'[t], q)
    BY <1>1, <1>2 DEF SameCopy, SameRoot, WorksOn, Syncing
  <2>2. \/ root[r].deleted
        \/ \E o \in Threads \ {t} : WorksOn(thread[o], r)
        \/ Current(thread[t])
    BY <1>1 DEF Projection, Readings, Holding, Owes, WorksOn
  <2>3. Current(thread[t]) /\ ~root[r].deleted => Current(thread[t])'
    BY <1>1, <1>2 DEF Current, ContentOf
  <2>4. \/ root'[thread'[t].r].deleted
        \/ \E o \in Threads \ {t} : WorksOn(thread[o], thread'[t].r)
        \/ Current(thread[t])'
    BY <1>1, <1>2, <2>2, <2>3
  <2> QED
    BY <1>1, <1>2, <2>1, <2>4, FollowStep, HoldingRoot DEF Projection
<1>7. Paired' /\ Startup'
  BY <1>1 DEF Projection, Paired, Pair, Startup
<1> QED
  BY <1>3, <1>4, <1>5, <1>6, <1>7 DEF Projection

\* A synchronisation that ends.  It held the lock, so nobody else does, and what
\* it leaves of its root is either current or somebody else's to do.
LEMMA SyncEnds ==
    ASSUME Inv, Projection, mode = "up", mode' = mode, NEW t \in Threads, Alone(t),
           thread[t].pc \in {"syncReplace", "syncRemove"},
           UNCHANGED <<root, indexes>>,
           thread'[t].pc \notin Holding, thread'[t].token \in {0, thread[t].token},
           \A q \in Roots : q # thread[t].r => proj'[q] = proj[q],
           Pair(proj'[thread[t].r]),
           proj'[thread[t].r].token \in {0, proj[thread[t].r].token},
           thread[t].pc = "syncReplace" =>
               /\ proj'[thread[t].r].status = thread[t].status
               /\ proj'[thread[t].r].content = thread[t].content
    PROVE  Projection'
<1> DEFINE r == thread[t].r
<1>1. r \in Roots /\ thread[t].pc \in Holding /\ thread[t].pc \notin Indexing
  BY HoldingRoot DEF Holding, Indexing
<1>2. \A o \in Threads : thread'[o].pc \notin Holding
  BY <1>1 DEF Projection, Locked, Alone
<1>3. Locked' /\ Readings'
  BY <1>2 DEF Locked, Readings
<1>4. Paired' /\ Startup'
  BY <1>1 DEF Projection, Paired, Startup
<1>5. Owned'
  <2>1. \A q \in Roots : proj'[q].token \in {0, proj[q].token}
    BY <1>1
  <2> QED
    BY <1>1, <2>1, OwnedStep DEF Projection
<1>6. Apart'
  BY ApartStep DEF Projection
<1>7. ASSUME NEW q \in Roots
      PROVE  \/ root'[q].deleted
             \/ \E o \in Threads : WorksOn(thread'[o], q)
             \/ proj'[q].status = root'[q].status /\ proj'[q].content = root'[q].content
  <2>1. CASE q = r
    <3>1. \/ root[r].deleted
          \/ \E o \in Threads \ {t} : WorksOn(thread[o], r)
          \/ Current(thread[t])
      BY <1>1 DEF Projection, Readings, Owes, WorksOn
    <3>2. CASE \E o \in Threads \ {t} : WorksOn(thread[o], r)
      BY <2>1, <3>2 DEF Alone
    <3>3. CASE root[r].deleted \/ Current(thread[t])
      BY <2>1, <3>3 DEF Current
    <3> QED
      BY <3>1, <3>2, <3>3
  <2>2. CASE q # r
    <3>1. \A o \in Threads : WorksOn(thread[o], q) => o # t
      BY <2>2 DEF WorksOn
    <3> QED
      BY <2>2, <3>1 DEF Projection, ProjectionFollowsRoot, Owes, WorksOn, Alone
  <2> QED
    BY <2>1, <2>2
<1>8. ProjectionFollowsRoot'
  BY <1>7 DEF ProjectionFollowsRoot, Owes, WorksOn
<1> QED
  BY <1>3, <1>4, <1>5, <1>6, <1>8 DEF Projection

LEMMA SyncReplaceKeeps ==
    ASSUME Inv, Projection, mode = "up", NEW t \in Threads, SyncReplace(t)
    PROVE  Projection'
<1> DEFINE me == thread[t]
<1>1. /\ me.pc = "syncReplace" /\ Good(me) /\ me \in ThreadType /\ me.r \in Roots
      /\ me.status \in RootStatus
      /\ UNCHANGED <<root, mode, indexes>>
      /\ proj' = [proj EXCEPT ![me.r] = Replaced(me.r, me.status, me.content)]
  BY DEF SyncReplace, counters, Inv, Threaded, Good, Syncing
<1>2. /\ proj'[me.r] = Replaced(me.r, me.status, me.content)
      /\ \A q \in Roots : q # me.r => proj'[q] = proj[q]
      /\ proj[me.r] \in RowType /\ Pair(proj[me.r])
  BY <1>1 DEF Inv, Rows, Projection, Paired
<1>3. /\ Pair(proj'[me.r]) /\ proj'[me.r].token \in {0, proj[me.r].token}
      /\ proj'[me.r].status = me.status /\ proj'[me.r].content = me.content
  BY <1>1, <1>2, ReplacedPair
<1>4. Alone(t) /\ thread'[t].pc \notin Holding /\ thread'[t].token \in {0, me.token}
  <2>1. CASE me.back \in {"idle", "restored"}
    <3>1. End(t)
      BY <2>1 DEF SyncReplace, End
    <3> QED
      BY <3>1, EndAlone DEF Inv, Holding
  <2>2. CASE me.back \notin {"idle", "restored"}
    <3>1. thread' = [thread EXCEPT ![t] = [me EXCEPT !.pc = me.back, !.back = "idle",
                                                     !.status = "none", !.content = 0]]
          /\ thread \in [Threads -> ThreadType]
      BY <2>2 DEF SyncReplace, Inv, Threaded
    <3>2. me.back \in Importing \cup {"ensure"}
      BY <1>1, <2>2 DEF Good, Syncing
    <3>3. Alone(t) /\ thread'[t].pc = me.back /\ thread'[t].token = me.token
      BY <1>1, <3>1 DEF Alone, ThreadType
    <3> QED
      BY <3>2, <3>3 DEF Importing, Holding
  <2> QED
    BY <2>1, <2>2
<1> QED
  BY <1>1, <1>2, <1>3, <1>4, SyncEnds

LEMMA SyncRemoveKeeps ==
    ASSUME Inv, Projection, mode = "up", NEW t \in Threads, SyncRemove(t)
    PROVE  Projection'
<1> DEFINE r == thread[t].r
<1>1. /\ thread[t].pc = "syncRemove" /\ r \in Roots
      /\ UNCHANGED <<root, mode, indexes>> /\ proj' = [proj EXCEPT ![r] = NoRow]
  BY AtWork DEF SyncRemove, counters, Syncing
<1>2. /\ proj'[r] = NoRow /\ \A q \in Roots : q # r => proj'[q] = proj[q]
  BY <1>1 DEF Inv, Rows
<1>3. Pair(NoRow) /\ NoRow.token = 0
  BY DEF Pair, NoRow, NewRow
<1>4. Alone(t) /\ thread'[t].pc \notin Holding /\ thread'[t].token = 0
  BY EndAlone DEF SyncRemove, Inv, Holding
<1> QED
  BY <1>1, <1>2, <1>3, <1>4, SyncEnds

\* A run takes sources over, or gives them back; their copies stay as they are.
LEMMA IndexWrites ==
    ASSUME Inv, Projection, mode = "up", mode' = mode, NEW t \in Threads, Alone(t),
           UNCHANGED <<root, lock, indexes>>,
           thread[t].pc \in Indexing \cup {"begin"},
           thread'[t].pc \in Indexing \cup {"idle"},
           thread'[t].token \in {0, thread[t].token},
           \A r \in Roots : SameCopy(r) /\ Pair(proj'[r]), Owned'
    PROVE  Projection'
<1>1. /\ thread[t].pc \notin Holding /\ thread'[t].pc \notin Holding
      /\ \A r \in Roots : ~WorksOn(thread[t], r)
  BY DEF Indexing, Holding, WorksOn, Syncing
<1>2. Apart'
  BY ApartStep DEF Projection
<1>3. Locked'
  BY <1>1 DEF Projection, Locked, Alone
<1>4. Readings' /\ ProjectionFollowsRoot'
  BY <1>1, FollowStep, HoldingRoot DEF Projection, SameRoot
<1>5. Paired' /\ Startup'
  BY DEF Paired, Startup
<1> QED
  BY <1>2, <1>3, <1>4, <1>5 DEF Projection

\* A run that ends, or gives up, holds nothing afterwards.
LEMMA GivesBack ==
    ASSUME Inv, Projection, mode = "up", NEW t \in Threads, Alone(t),
           \A r \in Roots : IF r \in DOMAIN thread[t].snap /\ Holds(t, r)
                            THEN proj'[r].token = 0 ELSE proj'[r].token = proj[r].token
    PROVE  Owned'
<1> SUFFICES ASSUME NEW r \in Roots, proj'[r].token # 0
             PROVE  \E o \in Threads : Owner(thread[o], r)'
  BY DEF Owned
<1>1. /\ proj'[r].token = proj[r].token /\ proj[r].token # 0
      /\ ~(r \in DOMAIN thread[t].snap /\ Holds(t, r))
  OBVIOUS
<1>2. PICK o \in Threads : Owner(thread[o], r)
  BY <1>1 DEF Projection, Owned
<1>3. Projected(r)
  BY <1>1 DEF Projection, Paired, Pair, Projected
<1>4. o # t
  BY <1>1, <1>2, <1>3 DEF Owner, Holds
<1> QED
  BY <1>1, <1>2, <1>4 DEF Owner, Alone

LEMMA IndexBeginKeeps ==
    ASSUME Inv, Projection, mode = "up", NEW t \in Threads, IndexBegin(t)
    PROVE  Projection'
<1> DEFINE me == thread[t]
           S == DOMAIN me.snap
<1>1. /\ me.pc = "begin" /\ me.token # 0 /\ me.token \in Nat /\ me \in ThreadType
      /\ S \in SUBSET Roots /\ UNCHANGED <<root, lock, mode, indexes>>
      /\ Threaded /\ \A r \in Roots : proj[r] \in RowType /\ Pair(proj[r])
  <2>1. Threaded /\ me.pc = "begin" /\ UNCHANGED <<root, lock, mode, indexes>>
    BY DEF Inv, IndexBegin, counters
  <2>2. \A r \in Roots : proj[r] \in RowType /\ Pair(proj[r])
    BY DEF Inv, Rows, Projection, Paired
  <2> QED
    BY <2>1, <2>2, InRun
<1>2. CASE \A r \in S : Projected(r)
  <2> DEFINE new(r) == [proj[r] EXCEPT !.index = "indexing", !.token = me.token]
  <2>1. /\ Goto(t, "plan")
        /\ proj' = [r \in Roots |-> IF r \in S THEN new(r) ELSE proj[r]]
    BY <1>2 DEF IndexBegin
  <2>2. /\ Alone(t) /\ thread'[t].pc = "plan" /\ thread'[t].token = me.token
        /\ thread'[t].snap = me.snap
    BY <1>1, <2>1, GotoAlone
  <2>3. ASSUME NEW r \in Roots
        PROVE  /\ new(r).token = me.token /\ new(r).index = "indexing"
               /\ new(r).status = proj[r].status /\ new(r).content = proj[r].content
    <3>1. proj[r] \in RowType
      BY <1>1
    <3> QED
      BY <3>1 DEF RowType
  <2> HIDE DEF new
  <2>4. ASSUME NEW r \in Roots
        PROVE  /\ SameCopy(r) /\ Pair(proj'[r])
               /\ proj'[r].token = (IF r \in S THEN me.token ELSE proj[r].token)
    BY <1>1, <1>2, <2>1, <2>3 DEF SameCopy, Pair, Projected
  <2>5. Owned'
    <3> SUFFICES ASSUME NEW r \in Roots, proj'[r].token # 0
                 PROVE  \E o \in Threads : Owner(thread[o], r)'
      BY DEF Owned
    <3>1. CASE r \in S
      <4>1. Owner(thread[t], r)'
        BY <2>2, <2>4, <3>1 DEF Owner, Indexing
      <4> QED
        BY <4>1
    <3>2. CASE r \notin S
      <4>1. proj'[r].token = proj[r].token
        BY <2>4, <3>2
      <4>2. PICK o \in Threads : Owner(thread[o], r)
        BY <4>1 DEF Projection, Owned
      <4>3. o # t
        BY <1>1, <4>2 DEF Owner, Indexing
      <4> QED
        BY <2>2, <4>1, <4>2, <4>3 DEF Owner, Alone
    <3> QED
      BY <3>1, <3>2
  <2> QED
    BY <1>1, <2>2, <2>4, <2>5, IndexWrites DEF Indexing
<1>3. CASE ~ \A r \in S : Projected(r)
  <2>1. End(t) /\ proj' = proj
    BY <1>3 DEF IndexBegin
  <2>2. Alone(t) /\ thread'[t].pc = "idle" /\ thread'[t].token = 0
    BY <1>1, <2>1, EndAlone
  <2>3. Owned'
    BY <1>1, <2>1, <2>2, OwnedStep DEF Projection, Indexing
  <2> QED
    BY <1>1, <2>1, <2>2, <2>3, IndexWrites DEF SameCopy
<1> QED
  BY <1>2, <1>3

LEMMA IndexFailKeeps ==
    ASSUME Inv, Projection, mode = "up", NEW t \in Threads, IndexFail(t)
    PROVE  Projection'
<1>1. /\ thread[t].pc = "fail" /\ UNCHANGED <<root, lock, mode, indexes>> /\ Threaded
      /\ \A r \in Roots : proj'[r] = Failed(t, r)
      /\ \A r \in Roots : proj[r] \in RowType /\ Pair(proj[r])
  BY DEF Inv, IndexFail, counters, Rows, Projection, Paired
<1>2. Alone(t) /\ thread'[t].pc = "idle" /\ thread'[t].token = 0
  BY <1>1, EndAlone DEF IndexFail
<1>3. ASSUME NEW r \in Roots
      PROVE  /\ SameCopy(r) /\ Pair(proj'[r])
             /\ IF r \in DOMAIN thread[t].snap /\ Holds(t, r)
                THEN proj'[r].token = 0 ELSE proj'[r].token = proj[r].token
  <2>1. CASE r \in DOMAIN thread[t].snap /\ Holds(t, r)
    <3>1. proj'[r] = [proj[r] EXCEPT !.index = "failed", !.token = 0] /\ proj[r] \in RowType
      BY <1>1, <2>1 DEF Failed
    <3>2. /\ proj'[r].index = "failed" /\ proj'[r].token = 0
          /\ proj'[r].status = proj[r].status /\ proj'[r].content = proj[r].content
      BY <3>1 DEF RowType
    <3> QED
      BY <2>1, <3>2 DEF SameCopy, Pair
  <2>2. CASE ~(r \in DOMAIN thread[t].snap /\ Holds(t, r))
    BY <1>1, <2>2 DEF Failed, SameCopy
  <2> QED
    BY <2>1, <2>2
<1>4. Owned'
  BY <1>2, <1>3, GivesBack
<1> QED
  BY <1>1, <1>2, <1>3, <1>4, IndexWrites DEF Indexing

LEMMA IndexCommitKeeps ==
    ASSUME Inv, Projection, mode = "up", NEW t \in Threads, IndexCommit(t)
    PROVE  Projection'
<1> DEFINE me == thread[t]
           held == {r \in DOMAIN me.snap : Holds(t, r)}
<1>1. /\ me.pc = "commit" /\ me.dim \in Dims /\ Threaded
      /\ UNCHANGED <<root, lock, mode, indexes>>
      /\ \A r \in Roots : proj[r] \in RowType /\ Pair(proj[r])
  <2>1. Threaded /\ me.pc = "commit" /\ UNCHANGED <<root, lock, mode, indexes>>
    BY DEF Inv, IndexCommit, counters
  <2>2. \A r \in Roots : proj[r] \in RowType /\ Pair(proj[r])
    BY DEF Inv, Rows, Projection, Paired
  <2> QED
    BY <2>1, <2>2, InRun DEF Indexing
<1>2. proj' = [r \in Roots |-> IF r \in held
                               THEN Committed(proj[r], Outcome(t, r), me.dim) ELSE proj[r]]
  BY DEF IndexCommit, Committed
<1>3. /\ Alone(t) /\ thread'[t].pc \in {"idle", "fail"} /\ thread'[t].token \in {0, me.token}
  <2>1. End(t) \/ Goto(t, "fail")
    BY DEF IndexCommit
  <2> QED
    BY <1>1, <2>1, EndAlone, GotoAlone
<1>4. ASSUME NEW r \in Roots
      PROVE  /\ SameCopy(r) /\ Pair(proj'[r])
             /\ IF r \in DOMAIN me.snap /\ Holds(t, r)
                THEN proj'[r].token = 0 ELSE proj'[r].token = proj[r].token
  <2>1. CASE r \in held
    <3>1. proj'[r] = Committed(proj[r], Outcome(t, r), me.dim)
      BY <1>2, <2>1
    <3>2. Outcome(t, r) \in IndexStatus /\ Outcome(t, r) # "indexing"
      BY DEF Outcome
    <3>3. proj[r] \in RowType /\ me.dim \in Dims
      BY <1>1
    <3>4. /\ proj'[r].index = Outcome(t, r) /\ proj'[r].token = 0
          /\ proj'[r].status = proj[r].status /\ proj'[r].content = proj[r].content
      <4> HIDE SourceIndexAssumption DEF Contents, RootStatus, IndexStatus
      <4> QED
        BY <3>1, <3>2, <3>3, CommittedRow, SMTT(30)
    <3> QED
      BY <2>1, <3>2, <3>4 DEF SameCopy, Pair
  <2>2. CASE r \notin held
    <3>1. proj'[r] = proj[r] /\ Pair(proj[r])
      BY <1>1, <1>2, <2>2
    <3> QED
      BY <2>2, <3>1 DEF SameCopy
  <2> QED
    BY <2>1, <2>2
<1>5. Owned'
  BY <1>3, <1>4, GivesBack
<1> QED
  BY <1>1, <1>3, <1>4, <1>5, IndexWrites DEF Indexing

\* Crash and startup: no thread works, so only rows and generations matter.
LEMMA StartupKeeps ==
    ASSUME Inv, Projection,
           Crash \/ RecoverJobs \/ RecoverIndexes \/ Reconcile
    PROVE  Projection'
<1>1. /\ \A r \in Roots : root[r] \in RootType /\ proj[r] \in RowType /\ Pair(proj[r])
      /\ indexes' = indexes /\ indexes \in Nat
  BY DEF Inv, Around, Rows, Projection, Paired, Crash, RecoverJobs, RecoverIndexes, Reconcile,
         counters
<1>2. \A t \in Threads : thread'[t].pc = "idle" /\ (thread'[t].token = 0 \/ thread' = thread)
  BY DEF Crash, RecoverJobs, RecoverIndexes, Reconcile, Projection, Startup, Idle
<1>3. Apart' /\ Locked' /\ Readings'
  <2>1. Locked' /\ Readings'
    BY <1>2 DEF Locked, Readings, Holding
  <2>2. CASE thread' = thread
    BY <1>1, <2>1, <2>2 DEF Projection, Apart
  <2>3. CASE thread' # thread
    BY <1>1, <1>2, <2>1, <2>3 DEF Apart
  <2> QED
    BY <2>2, <2>3
<1>4. CASE Crash
  <2>1. proj' = proj /\ mode' = "jobs"
    BY <1>4 DEF Crash
  <2> QED
    BY <1>2, <1>3, <2>1 DEF Projection, Paired, Owned, Startup, ProjectionFollowsRoot
<1>5. CASE RecoverJobs
  <2>1. mode' = "indexes"
    BY <1>5 DEF RecoverJobs
  <2>2. ASSUME NEW r \in Roots PROVE Pair(proj'[r])
    <3>1. proj'[r] = (IF Interrupted(r) THEN Replaced(r, "failed", root[r].content)
                                        ELSE proj[r])
      BY <1>5 DEF RecoverJobs
    <3> QED
      BY <1>1, <3>1, ReplacedPair
  <2> QED
    BY <1>2, <1>3, <2>1, <2>2 DEF Projection, Paired, Owned, Startup, ProjectionFollowsRoot
<1>6. CASE RecoverIndexes
  <2>1. mode' = "sources"
    BY <1>6 DEF RecoverIndexes
  <2>2. ASSUME NEW r \in Roots PROVE Pair(proj'[r]) /\ proj'[r].token = 0
    <3>1. proj'[r] = Recovered(proj[r]) /\ proj[r] \in RowType
      BY <1>1, <1>6 DEF RecoverIndexes
    <3>2. CASE proj[r].index = "indexing" \/ proj[r].token # 0
      <4>1. proj'[r] = [proj[r] EXCEPT !.index = "failed", !.token = 0]
        BY <3>1, <3>2 DEF Recovered
      <4> QED
        BY <3>1, <4>1 DEF RowType, Pair
    <3>3. CASE ~(proj[r].index = "indexing" \/ proj[r].token # 0)
      BY <1>1, <3>1, <3>3 DEF Recovered
    <3> QED
      BY <3>2, <3>3
  <2> QED
    BY <1>2, <1>3, <2>1, <2>2 DEF Projection, Paired, Owned, Startup, ProjectionFollowsRoot
<1>7. CASE Reconcile
  <2>1. mode = "sources" /\ mode' = "up" /\ root' = root
    BY <1>7 DEF Reconcile
  <2>2. ASSUME NEW r \in Roots
        PROVE  /\ Pair(proj'[r]) /\ proj'[r].token = 0
               /\ proj'[r].status = root[r].status /\ proj'[r].content = ContentOf(r)
    <3>1. proj'[r] = Replaced(r, root[r].status, ContentOf(r)) /\ root[r].status \in RootStatus
      BY <1>1, <1>7 DEF Reconcile, RootType
    <3>2. proj[r].token = 0
      BY <2>1 DEF Projection, Startup
    <3> QED
      BY <1>1, <3>1, <3>2, ReplacedPair
  <2>3. ProjectionFollowsRoot'
    BY <2>1, <2>2 DEF ProjectionFollowsRoot, ContentOf
  <2> QED
    BY <1>3, <2>1, <2>2, <2>3 DEF Projection, Paired, Owned, Startup
<1> QED
  BY <1>4, <1>5, <1>6, <1>7

\* Trash, and the task of a completed video.
LEMMA RootKeeps ==
    ASSUME Inv, Projection, NEW r \in Roots, Trash(r) \/ SettleCompleted(r)
    PROVE  Projection'
<1>1. UNCHANGED <<proj, thread, lock, mode, indexes>>
  BY DEF Trash, SettleCompleted, counters
<1>2. \A q \in Roots : SameRoot(q) \/ root'[q].deleted
  <2>1. \A q \in Roots : root[q] \in RootType /\ root \in [Roots -> RootType]
    BY DEF Inv, Around
  <2> QED
    BY <2>1 DEF Trash, SettleCompleted, SameRoot, RootType
<1>3. Paired' /\ Owned' /\ Apart' /\ Locked' /\ Startup'
  BY <1>1 DEF Projection, Paired, Owned, Owner, Apart, Locked, Startup
<1>4. Readings'
  <2>1. ASSUME NEW t \in Threads, thread'[t].pc \in Holding
        PROVE  \/ root'[thread'[t].r].deleted
               \/ \E o \in Threads \ {t} : WorksOn(thread'[o], thread'[t].r)
               \/ Current(thread[t])'
    <3>1. thread[t].r \in Roots /\ thread[t].pc \in Holding
      BY <1>1, <2>1, HoldingRoot
    <3>2. \/ root[thread[t].r].deleted
          \/ \E o \in Threads \ {t} : WorksOn(thread[o], thread[t].r)
          \/ Current(thread[t])
      BY <3>1 DEF Projection, Readings, Owes, WorksOn
    <3> QED
      BY <1>1, <1>2, <3>1, <3>2 DEF Current, SameRoot
  <2> QED
    BY <2>1 DEF Readings, Owes, WorksOn
<1>5. ProjectionFollowsRoot'
  BY <1>1, <1>2 DEF Projection, ProjectionFollowsRoot, SameRoot, Owes
<1> QED
  BY <1>3, <1>4, <1>5 DEF Projection

\* Every step keeps the projection sound.
LEMMA ProjectionInductive ==
    ASSUME Inv, Projection, [Next]_vars
    PROVE  Projection'
<1>1. ASSUME NEW t \in Threads, Step(t) PROVE Projection'
  <2>0. mode = "up"
    BY <1>1 DEF Step
  <2>1. CASE Sync(t)
    BY <2>0, <2>1, SyncReadKeeps, SyncChunksKeeps, SyncReplaceKeeps, SyncRemoveKeeps DEF Sync
  <2>2. CASE Import(t)
    <3>1. mode' = mode
      BY <2>2 DEF Import, ImportStart, Enqueue, ReplaceUnits, MarkReady, ImportFail, Settle
    <3> QED
      BY <2>0, <2>2, <3>1, ImportKeeps
  <2>3. CASE WriteChunks(t)
    BY <2>0, <2>3, WriteChunksKeeps
  <2>4. ASSUME NEW r \in Videos, GenerateChunks(t, r) PROVE Projection'
    BY <2>0, <2>4, ChunksStartKeeps DEF GenerateChunks, Roots
  <2>5. ASSUME NEW r \in Roots, Restore(t, r) PROVE Projection'
    BY <2>0, <2>5, RestoreKeeps
  <2>6. CASE IndexEnsure(t)
    <3>1. PICK r \in thread[t].todo : ChunksStart(t, r, "ensure")
      BY <2>6 DEF IndexEnsure
    <3>2. r \in Roots /\ thread[t].pc = "ensure"
      BY <2>6, <3>1 DEF IndexEnsure, Inv, Threaded, ThreadType
    <3> QED
      BY <2>0, <3>1, <3>2, ChunksStartKeeps
  <2>7. CASE \/ \E S \in SUBSET Roots, dim \in Dims, regenerate \in BOOLEAN :
                   IndexStart(t, S, dim, regenerate)
             \/ IndexEnsureFail(t) \/ IndexResolve(t) \/ IndexPlan(t)
             \/ IndexPublish(t) \/ IndexInterrupt(t)
    <3>1. mode' = mode
      BY <2>7 DEF IndexStart, IndexEnsureFail, IndexResolve, IndexPlan, IndexPublish,
                  IndexInterrupt
    <3> QED
      BY <2>0, <2>7, <3>1, IndexMovesKeep
  <2>8. CASE IndexBegin(t) \/ IndexCommit(t) \/ IndexFail(t)
    BY <2>0, <2>8, IndexBeginKeeps, IndexCommitKeeps, IndexFailKeeps
  <2> QED
    BY <1>1, <2>1, <2>2, <2>3, <2>4, <2>5, <2>6, <2>7, <2>8 DEF Step, Index
<1>2. CASE \E r \in Roots : Trash(r) \/ SettleCompleted(r)
  BY <1>2, RootKeeps
<1>3. CASE Crash \/ RecoverJobs \/ RecoverIndexes \/ Reconcile
  BY <1>3, StartupKeeps
<1>4. CASE UNCHANGED vars
  BY <1>4 DEF vars, counters, Projection, Paired, Owned, Owner, Apart, Locked, Readings, Current,
              Startup, ProjectionFollowsRoot, Owes
<1> QED
  BY <1>1, <1>2, <1>3, <1>4 DEF Next

\* What is shown as indexing is being indexed, and the projection is its root
\* unless somebody is about to make it so, for any number of roots, of writers
\* without a common lock, of index runs that overtake one another, and crashes.
THEOREM ProjectionStaysSound == Spec => []ProjectionSound
<1>1. Init => Inv /\ Projection
  BY Base, ProjectionBase
<1>2. Inv /\ Projection /\ [Next]_vars => Inv' /\ Projection'
  BY Inductive, ProjectionInductive
<1> QED
  BY <1>1, <1>2, ProjectionIsSound, PTL DEF Spec
=============================================================================
