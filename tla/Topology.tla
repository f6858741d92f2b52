------------------------------ MODULE Topology ------------------------------
(***************************************************************************)
(* The questions asked of a stored model graph: operations/model_graph.py  *)
(* over the records of domain/topology.py, and the merge of an incremental *)
(* refresh (ModelGraphStore.record_incremental).  A snapshot has assets,   *)
(* numbered in the order of their identities, and relationships, numbered  *)
(* likewise, which may be parallel.                                        *)
(*                                                                         *)
(* Abstractions.  An asset is in service or out of it, or is a switch that *)
(* is open; areas, zones, attributes and kinds are left out.               *)
(***************************************************************************)
EXTENDS Naturals, FiniteSets

CONSTANTS Snapshots,  \* the graphs that are asked about
          Refreshes   \* pairs of a graph and an incremental refresh of it

VARIABLE asked  \* the graph of this behaviour, or the pair

TopologyInit == asked \in [snapshot : Snapshots] \cup [pair : Refreshes]

Nodes(g) == DOMAIN g.assets
Edges(g) == DOMAIN g.edges
Ends(edge) == {edge.source, edge.target}

\* GraphSnapshot accepts it.
Acceptable(g) == \A e \in Edges(g) : Ends(g.edges[e]) \subseteq Nodes(g)

\* A graph with finitely many assets and relationships, each with its number.
IsSnapshot(g) == /\ IsFiniteSet(Nodes(g)) /\ IsFiniteSet(Edges(g))
                 /\ Nodes(g) \subseteq Nat /\ Edges(g) \subseteq Nat
                 /\ Acceptable(g)

\* What is asked about was stored, and therefore accepted.
ASSUME SnapshotsAssumption == \A g \in Snapshots : IsSnapshot(g)

\* projection(): the nodes reached over the edges E in at most h hops.
Reach(g, E, a) ==
  LET ball[h \in 0..Cardinality(Nodes(g))] ==
        IF h = 0 THEN {a}
        ELSE ball[h - 1] \cup UNION {Ends(g.edges[e]) : e \in {x \in E :
                                       Ends(g.edges[x]) \cap ball[h - 1] # {}}}
  IN ball

\* The ball of h hops; more hops than assets reach nothing else.
Ball(g, E, a, h) == Reach(g, E, a)[IF h < Cardinality(Nodes(g)) THEN h ELSE Cardinality(Nodes(g))]

\* _relationships_for_nodes().
Among(g, S) == {e \in Edges(g) : Ends(g.edges[e]) \subseteq S}

FirstOf(S, limit) == {x \in S : Cardinality({y \in S : y < x}) < limit}

\* Fault: only the assets are counted.
AssetsExceed(S, R, limit) == Cardinality(S) > limit

Exceeds(S, R, limit) == Cardinality(S) > limit \/ Cardinality(R) > limit

\* _result(): what is shown of S and R; assets that g has not are left out.
Answer(g, S, R, limit) == [assets |-> FirstOf(S, limit) \cap Nodes(g),
                           edges |-> FirstOf(R, limit),
                           total |-> Cardinality(S),
                           truncated |-> Exceeds(S, R, limit)]

-----------------------------------------------------------------------------
Near(g, a, h) == Ball(g, Edges(g), a, h)
Neighborhood(g, a, h, limit) == Answer(g, Near(g, a, h), Among(g, Near(g, a, h)), limit)

\* impact(): the asset is taken out of the answer, not out of the way.
Affected(g, a, h) == Near(g, a, h) \ {a}
Impact(g, a, h, limit) == Answer(g, Affected(g, a, h), Among(g, Affected(g, a, h)), limit)

\* connected_components(): one of the components it counts.
InService(g) == {e \in Edges(g) : g.edges[e].inService}
Component(g, a) == Ball(g, InService(g), a, Cardinality(Nodes(g)))

\* _energized_asset().
Energized(g, a) == g.assets[a] = "in"

\* electrical_path(): the assets of one of the shortest paths, if there is one.
Conducting(g) == {e \in InService(g) : \A a \in Ends(g.edges[e]) : Energized(g, a)}
Distance(g, a, b) ==
  CHOOSE h \in 0..Cardinality(Nodes(g)) :
    b \in Ball(g, Conducting(g), a, h) /\ \A k \in 0..(h - 1) : b \notin Ball(g, Conducting(g), a, k)
Paths(g, a, b) ==
  IF Energized(g, a) /\ Energized(g, b)
     /\ b \in Ball(g, Conducting(g), a, Cardinality(Nodes(g)))
  THEN {p \in [0..Distance(g, a, b) -> Nodes(g)] :
          /\ p[0] = a
          /\ p[Distance(g, a, b)] = b
          /\ \A n \in 1..Distance(g, a, b) :
               \E e \in Conducting(g) : Ends(g.edges[e]) = {p[n - 1], p[n]}}
  ELSE {}

-----------------------------------------------------------------------------
\* record_incremental(): the assets that changed replace those of the same
\* identity; relationships are removed, and then those that changed are put in.
\* Fault: what is removed is removed last.
RemovedLast(g, r) == [e \in (Edges(g) \cup DOMAIN r.edges) \ r.removed |->
                        IF e \in DOMAIN r.edges THEN r.edges[e] ELSE g.edges[e]]

MergedEdges(g, r) == [e \in (Edges(g) \ r.removed) \cup DOMAIN r.edges |->
                        IF e \in DOMAIN r.edges THEN r.edges[e] ELSE g.edges[e]]

Merged(g, r) == [assets |-> [a \in Nodes(g) \cup DOMAIN r.assets |->
                               IF a \in DOMAIN r.assets THEN r.assets[a] ELSE g.assets[a]],
                 edges |-> MergedEdges(g, r)]

\* topology_diff(): between the revision before and the one after.
DiffEdges(before, after) ==
  ((Edges(before) \ Edges(after)) \cup (Edges(after) \ Edges(before)))
  \cup {e \in Edges(before) \cap Edges(after) : before.edges[e] # after.edges[e]}
DiffAssets(before, after) ==
  ((Nodes(before) \ Nodes(after)) \cup (Nodes(after) \ Nodes(before)))
  \cup UNION {Ends(IF e \in Edges(after) THEN after.edges[e] ELSE before.edges[e]) :
                e \in DiffEdges(before, after)}

-----------------------------------------------------------------------------
Shows(answer, S, R) == answer.assets = S /\ answer.edges = R

\* The queries agree with each other and with the graph, at every limit: an
\* answer that is not marked truncated shows all there is; the impact of an
\* asset is its neighborhood without the asset and what is attached to it; and
\* the ends of an electrical path are in one connected component, no asset on it
\* is out of service or an open switch, and no shorter neighborhood has both
\* (neighborhood, impact, connected_components, electrical_path, _result).
QueriesAgree ==
  "snapshot" \in DOMAIN asked =>
    LET g == asked.snapshot IN
    \A a \in Nodes(g) :
      /\ \A h \in 1..2, limit \in 1..3 :
           LET near == Neighborhood(g, a, h, limit)
               impact == Impact(g, a, h, limit)
               attached == {e \in Edges(g) : a \in Ends(g.edges[e])} IN
           /\ ~near.truncated => Shows(near, Near(g, a, h), Among(g, Near(g, a, h)))
           /\ ~near.truncated => Shows(impact, near.assets \ {a}, near.edges \ attached)
           /\ near.total = impact.total + 1
      /\ \A b \in Nodes(g) \ {a} : \A p \in Paths(g, a, b) :
           /\ Component(g, a) = Component(g, b)
           /\ \A n \in DOMAIN p : g.assets[p[n]] = "in"
           /\ \A h \in 1..2 : b \in Near(g, a, h) \/ h \in DOMAIN p

\* The difference between a revision and its incremental refresh is the refresh:
\* the relationships it removed, added or changed, with the assets at their ends,
\* and the assets it added; what it removed and put in again is not lost
\* (record_incremental, topology_diff).
DiffTellsTheRefresh ==
  "pair" \in DOMAIN asked =>
    LET g == asked.pair.snapshot
        r == asked.pair.refresh
        m == Merged(g, r)
        put == {e \in DOMAIN r.edges : e \in Edges(g) => g.edges[e] # r.edges[e]}
        gone == (r.removed \cap Edges(g)) \ DOMAIN r.edges IN
    Acceptable(m) =>
      /\ DiffEdges(g, m) = put \cup gone
      /\ DiffAssets(g, m) = (UNION {Ends(r.edges[e]) : e \in put})
                            \cup (UNION {Ends(g.edges[e]) : e \in gone})
                            \cup (DOMAIN r.assets \ Nodes(g))
      /\ DiffEdges(m, g) = DiffEdges(g, m)
=============================================================================
