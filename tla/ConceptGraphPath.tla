---------------------------- MODULE ConceptGraphPath ----------------------------
(***************************************************************************)
(* Queries of one published Concept graph: the neighbourhood of a Concept, *)
(* a shortest trace between two, and the prerequisites of one in an order  *)
(* to learn them (backend/app/concept_graph_path.py).                      *)
(*                                                                         *)
(* A Concept is a number, in the order of the ids; a relation is its type  *)
(* and its ends.  One step finds one Concept, takes one from the queue or  *)
(* the heap, or one layer.  Hashes and the evidence are left out.          *)
(***************************************************************************)
EXTENDS Integers, Sequences, FiniteSets, SequencesExt

CONSTANTS ConceptCount,
          TypePriority,   \* RELATION_TYPE_PRIORITY
          Symmetric,      \* SYMMETRIC_RELATION_TYPES
          MaxRelations,   \* bound: relations of a graph
          HopLimits, NodeLimits  \* the limits a query may ask for

ASSUME PathAssumption == /\ ConceptCount \in Nat
                         /\ Symmetric \subseteq ToSet(TypePriority)
                         /\ HopLimits \subseteq Nat /\ NodeLimits \subseteq Nat \ {0}

VARIABLES graph, query,
          distance,  \* of the Concepts found so far, -1 of the others
          parent,    \* the transition each of them was found by
          queue,     \* what is still to be expanded
          cut,       \* the limits that were met: "nodes", "hops"
          degree,    \* remaining indegree of the prerequisites
          layers, order,
          phase

pathVars == <<graph, query, distance, parent, queue, cut, degree, layers, order, phase>>

Concepts == 1..ConceptCount
Priority(type) == CHOOSE i \in DOMAIN TypePriority : TypePriority[i] = type
Prerequisite == TypePriority[1]

\* What a draft may publish: ends differ, symmetric relations are canonical,
\* prerequisites have no cycle.
AllRelations ==
    {r \in [type : ToSet(TypePriority), from : Concepts, to : Concepts] :
        r.from # r.to /\ (r.type \in Symmetric => r.from < r.to)}

\* The Concepts at most n steps away from the roots, for every n.
Spread(edges, roots) ==
    LET grown[n \in Nat] ==
          IF n = 0 THEN roots
          ELSE LET prev == grown[n - 1] IN
               prev \cup {e[2] : e \in {d \in edges : d[1] \in prev}}
    IN grown
Behind(edges, roots) == Spread({<<e[2], e[1]>> : e \in edges}, roots)[ConceptCount]
PrerequisitesOf(g) == {<<r.from, r.to>> : r \in {s \in g : s.type = Prerequisite}}
Acyclic(g) == \A e \in PrerequisitesOf(g) : e[2] \notin Behind(PrerequisitesOf(g), {e[1]})

Queries ==
    [kind : {"local", "trace"}, from : Concepts, to : Concepts,
     mode : {"outgoing", "incoming", "both"}, types : {ToSet(TypePriority)} \cup {{t} : t \in Symmetric},
     hops : HopLimits, nodes : NodeLimits]
    \cup [kind : {"path"}, from : Concepts, to : {1}, mode : {"outgoing"},
          types : {{Prerequisite}}, hops : {0}, nodes : NodeLimits]

PathInit ==
    /\ graph \in {g \in UNION {kSubset(k, AllRelations) : k \in 0..MaxRelations} : Acyclic(g)}
    /\ query \in {q \in Queries : q.kind = "local" => q.to = 1}
    /\ distance = [c \in Concepts |-> IF c = query.from THEN 0 ELSE -1]
    /\ parent = [c \in Concepts |-> <<>>]
    /\ queue = <<query.from>>
    /\ cut = {}
    /\ degree = [c \in Concepts |-> 0]
    /\ layers = <<>> /\ order = <<>>
    /\ phase = "search"

Found(dist) == {c \in Concepts : dist[c] # -1}

----------------------------------------------------------------------------
(* _build_index and _transitions: the ways out of a Concept.               *)

Directed(r, mode) ==
    (IF mode # "incoming" THEN {[at |-> r.from, next |-> r.to, by |-> r, against |-> FALSE]} ELSE {})
    \cup
    (IF mode # "outgoing" THEN {[at |-> r.to, next |-> r.from, by |-> r, against |-> TRUE]} ELSE {})

Undirected(r) == {[at |-> r.from, next |-> r.to, by |-> r, against |-> FALSE],
                  [at |-> r.to, next |-> r.from, by |-> r, against |-> FALSE]}

WaysMutant(r, mode) == Directed(r, mode)     \* a symmetric relation has a direction
Ways(r, mode) == IF r.type \in Symmetric THEN Undirected(r) ELSE Directed(r, mode)

\* _transition_sort_key.
Precedes(s, t) ==
    \/ Priority(s.by.type) < Priority(t.by.type)
    \/ Priority(s.by.type) = Priority(t.by.type) /\ s.next < t.next
    \/ s.by.type = t.by.type /\ s.next = t.next /\ s.by.from < t.by.from

Transitions(c) == {t \in UNION {Ways(r, query.mode) :
                                   r \in {s \in graph : s.type \in query.types}} : t.at = c}

----------------------------------------------------------------------------

\* local_graph and relationship_trace: the transitions of the head of the queue
\* that lead to a Concept not found yet, the first of them next.
New(c) == {t \in Transitions(c) : distance[t.next] = -1}
First(t, ts) == \A u \in ts \ {t} : Precedes(t, u)

Arrived == query.kind = "trace" /\ distance[query.to] # -1
Searching == phase = "search" /\ query.kind # "path" /\ queue # <<>> /\ ~Arrived

TooFar(c) == distance[c] >= query.hops
Full == Cardinality(Found(distance)) >= query.nodes

Discover ==
    LET c == Head(queue) IN
    /\ Searching /\ ~TooFar(c) /\ ~Full
    /\ \E t \in New(c) :
          /\ First(t, New(c))
          /\ distance' = [distance EXCEPT ![t.next] = distance[c] + 1]
          /\ parent' = [parent EXCEPT ![t.next] = <<t>>]
          /\ queue' = Append(queue, t.next)
    /\ UNCHANGED <<graph, query, cut, degree, layers, order, phase>>

\* What is left out is recorded: beyond the hops by a trace only.
CutAt(c) ==
    IF New(c) = {} THEN {}
    ELSE IF ~TooFar(c) THEN {"nodes"}
    ELSE IF query.kind = "trace" THEN {"hops"} ELSE {}

TakeNext ==
    LET c == Head(queue) IN
    /\ Searching
    /\ TooFar(c) \/ Full \/ New(c) = {}
    /\ queue' = Tail(queue)
    /\ cut' = cut \cup CutAt(c)
    /\ UNCHANGED <<graph, query, distance, parent, degree, layers, order, phase>>

Answer ==
    /\ phase = "search" /\ query.kind # "path"
    /\ queue = <<>> \/ Arrived
    /\ phase' = "done"
    /\ UNCHANGED <<graph, query, distance, parent, queue, cut, degree, layers, order>>

\* learning_path: everything behind the target, one prerequisite of the head of
\* the queue after the other; more than the limit is an error.
LeftOut(c) == {e[1] : e \in {d \in PrerequisitesOf(graph) : d[2] = c}} \ Found(distance)
Least(cs) == CHOOSE c \in cs : \A d \in cs : c <= d

Close ==
    LET c == Head(queue)
        x == Least(LeftOut(c))
    IN
    /\ phase = "search" /\ query.kind = "path" /\ queue # <<>>
    /\ \/ /\ LeftOut(c) = {}
          /\ queue' = Tail(queue)
          /\ UNCHANGED <<distance, cut, phase>>
       \/ /\ LeftOut(c) # {} /\ Full
          /\ cut' = {"nodes"} /\ phase' = "done"
          /\ UNCHANGED <<distance, queue>>
       \/ /\ LeftOut(c) # {} /\ ~Full
          /\ distance' = [distance EXCEPT ![x] = distance[c] + 1]
          /\ queue' = Append(queue, x)
          /\ UNCHANGED <<cut, phase>>
    /\ UNCHANGED <<graph, query, parent, degree, layers, order>>

Closure == Found(distance)
Inside == {e \in PrerequisitesOf(graph) : e[1] \in Closure /\ e[2] \in Closure}
Indegree == [c \in Concepts |-> Cardinality({e \in Inside : e[2] = c})]
Ready(deg, done) == {c \in Closure \ done : deg[c] = 0}
Lower(deg, cs) == [c \in Concepts |-> deg[c] - Cardinality({e \in Inside : e[2] = c /\ e[1] \in cs})]
Layered == UNION ToSet(layers)

BeginLayers ==
    /\ phase = "search" /\ query.kind = "path" /\ queue = <<>>
    /\ degree' = Indegree
    /\ phase' = "layers"
    /\ UNCHANGED <<graph, query, distance, parent, queue, cut, layers, order>>

AddLayer ==
    /\ phase = "layers"
    /\ IF Ready(degree, Layered) # {}
       THEN /\ layers' = Append(layers, Ready(degree, Layered))
            /\ degree' = Lower(degree, Ready(degree, Layered))
            /\ UNCHANGED phase
       ELSE /\ phase' = "order"
            /\ degree' = Indegree
            /\ UNCHANGED layers
    /\ UNCHANGED <<graph, query, distance, parent, queue, cut, order>>

AddNext ==
    /\ phase = "order"
    /\ IF Ready(degree, ToSet(order)) # {}
       THEN LET c == Least(Ready(degree, ToSet(order))) IN
            /\ order' = Append(order, c)
            /\ degree' = Lower(degree, {c})
            /\ UNCHANGED phase
       ELSE phase' = "done" /\ UNCHANGED <<order, degree>>
    /\ UNCHANGED <<graph, query, distance, parent, queue, cut, layers>>

PathNext == Discover \/ TakeNext \/ Answer \/ Close \/ BeginLayers \/ AddLayer \/ AddNext

----------------------------------------------------------------------------
(* What the answers promise, against the graph itself.                     *)

Edges == {<<t.at, t.next>> : t \in UNION {Ways(r, query.mode) :
                                r \in {s \in graph : s.type \in query.types}}}
Within == Spread(Edges, {query.from})
Near == Within[query.hops]
Reach == Within[ConceptCount]

\* A trace that is found is a shortest one, within both limits, and goes
\* against a relation only where the query lets it; "unreachable" is never
\* said of a Concept that a larger limit would have reached.
TraceIsShortest ==
    phase = "done" /\ query.kind = "trace" =>
       /\ distance[query.to] # -1 =>
             /\ query.to \in Within[distance[query.to]]
             /\ distance[query.to] > 0 => query.to \notin Within[distance[query.to] - 1]
             /\ distance[query.to] <= query.hops
       /\ distance[query.to] = -1 /\ cut = {} => query.to \notin Reach
       /\ cut # {} => distance[query.to] # -1 \/ Reach # {query.from}
       /\ query.to \in Near /\ "nodes" \notin cut => distance[query.to] # -1
       /\ \A c \in Found(distance) \ {query.from} :
             LET t == parent[c][1] IN
             /\ t.next = c /\ distance[c] = distance[t.at] + 1
             /\ t.against => query.mode # "outgoing" /\ t.by.type \notin Symmetric
             /\ query.mode = "incoming" => t.against \/ t.by.type \in Symmetric
             /\ t.by.type \in Symmetric =>
                   {t.at, t.next} = {t.by.from, t.by.to}

\* A neighbourhood holds every Concept within the hops, nearest first, and says
\* so when the node limit left one out.
NeighbourhoodIsWhole ==
    phase = "done" /\ query.kind = "local" =>
       /\ Found(distance) \subseteq Near
       /\ cut = {} => Found(distance) = Near
       /\ cut # {} => Cardinality(Found(distance)) = query.nodes /\ Found(distance) # Near
       /\ \A c \in Found(distance) : c \in Within[distance[c]]
       /\ \A c \in Found(distance), d \in Near \ Found(distance) :
             distance[c] > 0 => d \notin Within[distance[c] - 1]

\* A learning path holds the whole of what is behind its target, each Concept
\* after its prerequisites, in the order and in the layers alike.
LearningOrderHolds ==
    phase = "done" /\ query.kind = "path" =>
       LET behind == Behind(PrerequisitesOf(graph), {query.from}) IN
       IF cut # {} THEN Cardinality(behind) > query.nodes
       ELSE /\ ToSet(order) = behind /\ Len(order) = Cardinality(behind)
            /\ Layered = behind
            /\ \A e \in Inside :
                  /\ \E i, j \in DOMAIN order : i < j /\ order[i] = e[1] /\ order[j] = e[2]
                  /\ \E i, j \in DOMAIN layers :
                        i < j /\ e[1] \in layers[i] /\ e[2] \in layers[j]

AnswersHold == TraceIsShortest /\ NeighbourhoodIsWhole /\ LearningOrderHolds
=============================================================================
