--------------------------- MODULE PublicationLog ---------------------------
(***************************************************************************)
(* What publication promises, without saying how it is stored: a course    *)
(* has a history of graphs that only grows, and each graph in it is one    *)
(* that a publisher looked at, on top of the history it looked at.         *)
(***************************************************************************)
EXTENDS Naturals, Sequences

CONSTANT Publishers

VARIABLES history,  \* published graphs, oldest first
          seen      \* publisher who looked and has not published -> [base, graph]

Init == history = <<>> /\ DOMAIN seen = {}

Only(p) == \A q \in DOMAIN seen \ {p} : seen'[q] = seen[q]

Look(p) ==
    /\ DOMAIN seen' = DOMAIN seen \cup {p} /\ seen'[p].base = Len(history)
    /\ Only(p) /\ UNCHANGED history

Publish(p) ==
    /\ p \in DOMAIN seen /\ seen[p].base = Len(history)
    /\ history' = Append(history, seen[p].graph)
    /\ DOMAIN seen' = DOMAIN seen \ {p} /\ Only(p)

Next == \E p \in Publishers : Look(p) \/ Publish(p)

Spec == Init /\ [][Next]_<<history, seen>>
=============================================================================
