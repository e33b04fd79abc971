--------------------------- MODULE MCSourceIndex ---------------------------
(***************************************************************************)
(* Instances of SourceIndex for TLC.                                       *)
(***************************************************************************)
EXTENDS SourceIndex, TLC

CONSTANTS video, asset, a, b, none

OneVideo  == {video}
OneAsset  == {asset}
NoRoots   == {}
OneThread == {a}
MCThreads == {a, b}
MCDims    == {1, 2}
OneDim    == {1}

\* Bound: where a root went to Trash and the process crashed as well, the model
\* has one dimension.
Small ==
    \/ trashes + crashes < 2
    \/ /\ \A r \in Roots : proj[r].dim \in {0, 1} /\ \A e \in emb[r] : e[2] = 1
       /\ \A t \in Threads : thread[t].dim \in {0, 1}

AnyThread == Permutations(Threads)
=============================================================================
