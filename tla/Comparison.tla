----------------------------- MODULE Comparison -----------------------------
(***************************************************************************)
(* Evaluation and comparison of result snapshots: evaluate_metric and      *)
(* compare_result_snapshots of operations/calculations.py, and the overlay *)
(* references derived from a snapshot (domain/calculation_projection.py).  *)
(*                                                                         *)
(* A snapshot maps metric definitions to measurements.  Both snapshots are *)
(* of one configuration and policy and have the same definition ids, or    *)
(* the comparison is refused; the limits under one id may differ.          *)
(*                                                                         *)
(* Abstractions.  Decimals are small naturals of one unit; the statuses    *)
(* without a value are one; each definition is of an asset of its own.     *)
(***************************************************************************)
EXTENDS Integers, FiniteSets

CONSTANTS Comparisons,  \* the pairs of snapshots that are compared
          NoLimit

\* Snapshots of other definition ids are not compared.
ASSUME ComparisonsAssumption == \A pair \in Comparisons : DOMAIN pair.baseline = DOMAIN pair.candidate

VARIABLE compared  \* the pair of this behaviour: baseline and candidate

ComparisonInit == compared \in Comparisons

\* _violation_evaluation(): the side, and how bad it is.
Violation(m, side, excess) ==
  [status |-> "violation", side |-> side,
   severity |-> IF excess > m.margin THEN "critical" ELSE "warning"]

NotEvaluated(why) == [status |-> why, side |-> "none", severity |-> "none"]

EvaluateMetric(m) ==
  CASE m.status # "available" -> NotEvaluated("no data")
    [] m.status = "available" /\ m.lower = NoLimit /\ m.upper = NoLimit -> NotEvaluated("no limit")
    [] OTHER ->
         IF m.lower # NoLimit /\ m.value < m.lower THEN Violation(m, "lower", m.lower - m.value)
         ELSE IF m.upper # NoLimit /\ m.value > m.upper
         THEN Violation(m, "upper", m.value - m.upper)
         ELSE [status |-> "safe", side |-> "none", severity |-> "none"]

Violates(m) == EvaluateMetric(m).status = "violation"
Evaluated(m) == EvaluateMetric(m).status \in {"safe", "violation"}

\* build_calculation_overlays(): a result reference for each metric, and one for
\* each violation, under its stable key.
Overlays(snapshot) ==
  {<<"result", d>> : d \in DOMAIN snapshot}
  \cup {<<"violation", d, EvaluateMetric(snapshot[d]).side>> :
          d \in {x \in DOMAIN snapshot : Violates(snapshot[x])}}

-----------------------------------------------------------------------------
Comparable(b, c) == b.status = "available" /\ c.status = "available"

Delta(b, c) == IF c.value >= b.value THEN c.value - b.value ELSE b.value - c.value

\* By the tolerance and threshold of the candidate's definition.
Equivalent(b, c) == Comparable(b, c) /\ Delta(b, c) <= c.tolerance
Material(b, c) == Comparable(b, c) /\ Delta(b, c) > c.threshold

\* MetricComparison refuses a metric that is both: the comparison then fails.
Constructible(b, c) == ~(Equivalent(b, c) /\ Material(b, c))
Compares(baseline, candidate) ==
  \A d \in DOMAIN baseline : Constructible(baseline[d], candidate[d])

\* Fault: a metric that is not evaluated any more is resolved.
TrendOfViolations(b, c) ==
  IF Violates(c) /\ ~Violates(b) THEN "new"
  ELSE IF Violates(b) /\ ~Violates(c) THEN "resolved" ELSE "unchanged"

\* _compare_finding().
Trend(b, c) == IF ~Evaluated(b) \/ ~Evaluated(c) THEN "not evaluated"
               ELSE IF Violates(c) /\ ~Violates(b) THEN "new"
               ELSE IF Violates(b) /\ ~Violates(c) THEN "resolved" ELSE "unchanged"

\* The key of the candidate's violation, or else of the baseline's.
FindingKey(d, b, c) ==
  IF Violates(c) THEN <<"violation", d, EvaluateMetric(c).side>>
  ELSE IF Violates(b) THEN <<"violation", d, EvaluateMetric(b).side>> ELSE <<"evaluated", d>>

-----------------------------------------------------------------------------
Baseline == compared.baseline
Candidate == compared.candidate
Metrics == DOMAIN Baseline
Keys(snapshot, d) == {o \in Overlays(snapshot) : o[1] = "violation" /\ o[2] = d}

\* The trends of a comparison are what the stored overlays of the two snapshots
\* show: a violation that only one of them has is new or resolved, its key names
\* the overlay of the snapshot that has it, and what is not evaluated in one of
\* them is not compared.  Where the value swung from one limit over the other,
\* the code says "unchanged" of two different keys, which is left out here.
TrendsFollowOverlays ==
  Compares(Baseline, Candidate) => \A d \in Metrics :
    LET b == Keys(Baseline, d)
        c == Keys(Candidate, d)
        trend == Trend(Baseline[d], Candidate[d])
        swung == b # {} /\ c # {} /\ b # c
        bothEvaluated == Evaluated(Baseline[d]) /\ Evaluated(Candidate[d]) IN
    /\ bothEvaluated <=> trend # "not evaluated"
    /\ bothEvaluated => (trend = "new" <=> c # {} /\ b = {})
    /\ bothEvaluated => (trend = "resolved" <=> b # {} /\ c = {})
    /\ trend = "unchanged" /\ ~swung => b = c
    /\ b \cup c # {} /\ ~swung => {FindingKey(d, Baseline[d], Candidate[d])} = b \cup c
=============================================================================
