-------------------------------- MODULE Dag --------------------------------
(***************************************************************************)
(* The graph of a pipeline (juturna/components/_dag.py): built from the    *)
(* nodes and links of a configuration, then walked by BFS() for the layers *)
(* that start() and stop() go through, or by has_cycle() for the           *)
(* validation. Degrees count links; the walks follow sets of neighbours,   *)
(* in whatever order these are iterated. Module Configuration builds it.   *)
(***************************************************************************)
EXTENDS Integers, Sequences, FiniteSets, SequencesExt

CONSTANT Names   \* node names

ASSUME DagAssumption == IsFiniteSet(Names)

VARIABLES
  adj,      \* _adj: the neighbours of each node added
  edges,    \* edges: the links, in the order added
  walk,     \* "none", or the walk under way or over: "bfs", "cycle"
  inDeg,    \* in_deg
  queue,    \* queue
  layers,   \* layers
  level,    \* current_level
  size,     \* nodes of the level yet to come out of the queue
  visited   \* visited

dagVars == <<adj, edges, walk, inDeg, queue, layers, level, size, visited>>

Added == DOMAIN adj
Links == Range(edges)
InDegree(n) == Cardinality({i \in DOMAIN edges : edges[i][2] = n})

DagInit ==
  /\ adj = <<>>
  /\ edges = <<>>
  /\ walk = "none"
  /\ inDeg = <<>> /\ queue = <<>>
  /\ layers = <<>> /\ level = <<>> /\ size = 0
  /\ visited = 0

-----------------------------------------------------------------------------
\* add_edge() raises for a link to or from a node that is not there.
Dangling(names, links) ==
  \E i \in DOMAIN links : ~({links[i][1], links[i][2]} \subseteq names)

\* A new graph, with add_node() and add_edge() for each of these.
Build(names, links) ==
  /\ adj' = [n \in names |-> {l[2] : l \in {k \in Range(links) : k[1] = n}}]
  /\ edges' = links
  /\ walk' = "none"
  /\ inDeg' = <<>> /\ queue' = <<>>
  /\ layers' = <<>> /\ level' = <<>> /\ size' = 0
  /\ visited' = 0

\* Both walks begin with the nodes no link leads to, in the order of _adj:
\* place has where each node is in that.
Begin(w, place) ==
  /\ walk = "none"
  /\ walk' = w
  /\ inDeg' = [n \in Added |-> InDegree(n)]
  /\ \E heads \in SetToSeqs({n \in Added : InDegree(n) = 0}) :
       /\ \A i, j \in DOMAIN heads : i < j => place[heads[i]] < place[heads[j]]
       /\ queue' = heads
  /\ size' = Len(queue')
  /\ UNCHANGED <<adj, edges, layers, level, visited>>

\* Mutants: every neighbour is queued, at whatever degree it is left; the
\* degree is tested before it is decreased.
FreedEarly(node) == adj[node]
FreedLate(node) == {n \in adj[node] : inDeg[n] = 0}

\* The neighbours for which node was the last to come.
Freed(node) == {n \in adj[node] : inDeg[n] = 1}

Decreased(node) == [n \in Added |-> IF n \in adj[node] THEN inDeg[n] - 1
                                                       ELSE inDeg[n]]

\* One turn of the inner loop of BFS(); the last of a level adds the layer.
Visit ==
  /\ walk = "bfs"
  /\ queue # <<>>
  /\ LET node == Head(queue) IN
     /\ inDeg' = Decreased(node)
     /\ \E freed \in SetToSeqs(Freed(node)) :
          /\ queue' = Tail(queue) \o freed
          /\ IF size = 1
             THEN /\ layers' = Append(layers, Append(level, node))
                  /\ level' = <<>>
                  /\ size' = Len(queue')
             ELSE /\ level' = Append(level, node)
                  /\ size' = size - 1
                  /\ UNCHANGED layers
  /\ UNCHANGED <<adj, edges, walk, visited>>

\* One turn of the loop of has_cycle(), which takes from the end.
VisitLast ==
  /\ walk = "cycle"
  /\ queue # <<>>
  /\ LET node == Last(queue) IN
     /\ inDeg' = Decreased(node)
     /\ \E freed \in SetToSeqs(Freed(node)) : queue' = Front(queue) \o freed
  /\ visited' = visited + 1
  /\ UNCHANGED <<adj, edges, walk, layers, level, size>>

\* What has_cycle() returns once the walk is over.
HasCycle == visited # Cardinality(Added)
-----------------------------------------------------------------------------
DagTypeOK ==
  /\ Added \subseteq Names
  /\ \A n \in Added : adj[n] \subseteq Added
  /\ edges \in Seq(Added \X Added)
  /\ walk \in {"none", "bfs", "cycle"}
  /\ walk # "none" => inDeg \in [Added -> 0..Len(edges)]
  /\ queue \in Seq(Added) /\ level \in Seq(Added)
  /\ layers \in Seq(Seq(Added))
  /\ size \in 0..Cardinality(Added)
  /\ visited \in 0..Cardinality(Added)

\* A cycle is a set of nodes each of which has a link from another of the set,
\* or from itself.
Cyclic == \E S \in SUBSET Added :
            S # {} /\ \A n \in S : \E m \in S : <<m, n>> \in Links
Distinct == IsInjective(edges)
WalkOver(w) == walk = w /\ queue = <<>>

InLayer(n, i) == n \in Range(layers[i])
AllPlaced ==
  /\ \A n \in Added : \E i \in DOMAIN layers : InLayer(n, i)
  /\ \A i, j \in DOMAIN layers : \A p \in DOMAIN layers[i], q \in DOMAIN layers[j] :
       layers[i][p] = layers[j][q] => i = j /\ p = q

\* Each layer only has links to later ones: start() starts a node after all it
\* transmits to, and stop() joins it before any of these gets its STOP. And the
\* layers hold every node of an acyclic graph without repeated links, each
\* once: start() and stop() leave out none and repeat none.
LayersRight ==
  /\ \A i, j \in DOMAIN layers, m, n \in Added :
       <<m, n>> \in Links /\ InLayer(m, i) /\ InLayer(n, j) => i < j
  /\ WalkOver("bfs") /\ Distinct /\ ~Cyclic => AllPlaced

\* has_cycle() finds the cycles of a graph without repeated links, and no
\* others.
HasCycleRight == WalkOver("cycle") /\ Distinct => (HasCycle <=> Cyclic)
=============================================================================
