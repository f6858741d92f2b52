------------------------------ MODULE MCStores ------------------------------
(* An instance for TLC of the modules that share no state with each other:     *)
(* each behaviour is one of the part it starts in.                             *)
EXTENDS ModelGraph, ReconciliationStore, Topology, Comparison, HeadlineHarness, TLC

CONSTANTS n1, e1, cx, cy

VARIABLE part

MCTerminal == [e \in Equipment |-> n1]

\* Four assets and three relationships, each absent, out of service or in it.
Relation == {[source |-> s, target |-> t, inService |-> x] :
               s \in {1, 2}, t \in {3, 4}, x \in BOOLEAN}
EdgeMaps(E) == UNION {[F -> Relation] : F \in SUBSET E}
MCSnapshots == [assets : [1..4 -> {"in", "open", "out"}], edges : EdgeMaps({1, 2})]
               \cup [assets : {[a \in 1..4 |-> "in"]}, edges : EdgeMaps({1, 2, 3})]

\* A refresh of a graph of three assets may add the fourth.
Fewer == {f \in EdgeMaps({1, 2}) : \A e \in DOMAIN f : f[e].target = 3}
MCRefreshes == [snapshot : [assets : {[a \in 1..3 |-> "in"]}, edges : Fewer],
                refresh : [assets : UNION {[A -> {"in", "out"}] : A \in SUBSET {3, 4}},
                           edges : EdgeMaps({1, 2}), removed : SUBSET {1, 2}]]

\* One metric, with every limit and status; each is compared by itself.
Metric(x, d) == [status |-> x[1], value |-> x[2], lower |-> d.lower, upper |-> d.upper,
                 margin |-> 1, tolerance |-> d.tolerance, threshold |-> 1]
Measured == {<<"missing", 0>>} \cup ({"available"} \X (0..4))
Definitions == {[lower |-> l, upper |-> u, tolerance |-> t] :
                  l \in {NoLimit, 1, 2}, u \in {NoLimit, 2, 3}, t \in 0..2}
\* The tolerance of the baseline's definition is not looked at.
MCComparisons ==
  {[baseline |-> "loading" :> Metric(x, b), candidate |-> "loading" :> Metric(y, c)] :
     x \in Measured, y \in Measured,
     b \in {d \in Definitions : d.tolerance = 0}, c \in Definitions}

NothingAsked == asked = [snapshot |-> [assets |-> <<>>, edges |-> <<>>]]
NothingCompared == compared = [baseline |-> <<>>, candidate |-> <<>>]
\* Which configuration is active first makes no difference.
FirstGraph == GraphInit /\ configuration = cx
NothingExtracted == FirstGraph /\ present = {}
\* Which value and binding the attribute has first makes no difference, nor which of
\* the two states, in which intents are committed, the workflow is in.
FirstEvidence == /\ EvidenceInit
                 /\ attribute = [value |-> 1, binding |-> 1]
                 /\ workflow.state # "rolling_back"
NoEvidence == FirstEvidence /\ workflow.state = "executing"

Init == /\ IdentityInit
        /\ HarnessInit
        /\ \/ /\ part \in {"identities", "harness"}
              /\ NothingExtracted /\ NoEvidence /\ NothingAsked /\ NothingCompared
           \/ /\ part = "graph"
              /\ FirstGraph /\ NoEvidence /\ NothingAsked /\ NothingCompared
           \/ /\ part = "evidence"
              /\ NothingExtracted /\ FirstEvidence /\ NothingAsked /\ NothingCompared
           \/ /\ part = "topology"
              /\ NothingExtracted /\ NoEvidence /\ TopologyInit /\ NothingCompared
           \/ /\ part = "comparison"
              /\ NothingExtracted /\ NoEvidence /\ NothingAsked /\ ComparisonInit

Next == /\ UNCHANGED <<part, asked, compared>>
        /\ \/ /\ part = "identities"
              /\ IdentityNext
              /\ UNCHANGED <<graphVars, evidenceVars, harnessVars>>
           \/ part = "graph" /\ GraphNext /\ UNCHANGED <<evidenceVars, harnessVars>>
           \/ /\ part = "evidence"
              /\ EvidenceNext
              /\ UNCHANGED <<identityVars, graphVars, harnessVars>>
           \/ /\ part = "harness"
              /\ HarnessNext
              /\ UNCHANGED <<identityVars, graphVars, evidenceVars>>

Spec == Init /\ [][Next]_<<part, identityVars, graphVars, evidenceVars, harnessVars,
                           asked, compared>>

Symmetry == Permutations(Extractors) \cup Permutations(Curators)
            \cup Permutations(Targets)
=============================================================================
