------------------------ MODULE ReconciliationStore ------------------------
(***************************************************************************)
(* The evidence kept about one attribute write whose outcome is not known: *)
(* persistence/reconciliation_store.py with the records of                 *)
(* domain/reconciliation.py.  An intent is committed before the write;     *)
(* observations are appended to it, and classifications that cite some of  *)
(* them, by whoever recovers, over restarts.                               *)
(*                                                                         *)
(* External: the recovery that calls the store is not in the repository.   *)
(* It is assumed that an observation that claims a live read tells the     *)
(* value and the bindings the engine had at the time; what the owner       *)
(* returned may be anything.                                               *)
(*                                                                         *)
(* Abstractions.  A binding stands for configuration key, fingerprint and  *)
(* workspace revision together; the outcomes without a value are one, and  *)
(* so are the sources of a live read, in recovery or before.               *)
(***************************************************************************)
EXTENDS Naturals, Sequences, FiniteSets

CONSTANTS Values,           \* values of the attribute
          Bindings,         \* what a read is bound to
          IntentIds, WriteOperations,
          MaxObservations,  \* bound: observations
          MaxRecords,       \* bound: classifications
          MaxEffects        \* bound: changes in the engine, moves of the workflow

VARIABLES attribute,     \* the live value, and what it is bound to
          workflow,      \* the row of the workflow: version, state, operation
          intents,       \* reconciliation_intents
          observations,  \* reconciliation_observations
          records,       \* reconciliation_records
          effects,       \* counter
          held           \* history: what the attribute was since each intent

evidenceVars == <<attribute, workflow, intents, observations, records, effects, held>>

WorkflowStates == {"executing", "rolling_back", "other"}
Classes == {"BEFORE", "AFTER_OBSERVED", "DIVERGED", "UNAVAILABLE"}
Sources == {"owner_return", "live"}
Attributes == [value : Values, binding : Bindings]

EvidenceInit == /\ attribute \in Attributes
                /\ workflow \in [version : {1}, state : WorkflowStates,
                                 operation : WriteOperations]
                /\ intents = <<>>
                /\ observations = <<>>
                /\ records = {}
                /\ effects = 0
                /\ held = <<>>

-----------------------------------------------------------------------------
\* commit_intent(): for the version and operation the workflow is executing.
\* A known id changes nothing: it is a replay or refused.
CommitIntent(i, before, after, binding) ==
  /\ i \notin DOMAIN intents
  /\ workflow.state \in {"executing", "rolling_back"}
  /\ intents' = [j \in DOMAIN intents \cup {i} |->
       IF j = i THEN [version |-> workflow.version, operation |-> workflow.operation,
                      before |-> before, after |-> after, binding |-> binding]
       ELSE intents[j]]
  /\ held' = [j \in DOMAIN held \cup {i} |-> IF j = i THEN {attribute} ELSE held[j]]
  /\ UNCHANGED <<attribute, workflow, observations, records, effects>>

\* append_observation(): to an intent there is, of its operation.
AppendObservation(o) == /\ Len(observations) < MaxObservations
              /\ observations' = Append(observations, o)
              /\ UNCHANGED <<attribute, workflow, intents, records, effects, held>>

ObserveValue(i, source) ==
  /\ i \in DOMAIN intents
  /\ \E read \in IF source = "owner_return" THEN Attributes ELSE {attribute} :
       AppendObservation([intent |-> i, source |-> source, outcome |-> "value", read |-> read])

\* An outcome without a value has no bindings either.
ObserveNothing(i) == /\ i \in DOMAIN intents
                     /\ AppendObservation([intent |-> i, outcome |-> "none"])

\* Fault: what the owner returned counts as a read.
AnyValue(cites) == {n \in cites : observations[n].outcome = "value"}

\* The cited observations that are fresh reads of a value.
Fresh(cites) == {n \in cites : /\ observations[n].outcome = "value"
                               /\ observations[n].source = "live"}

Matches(i, n) == observations[n].read.binding = intents[i].binding
Reads(i, n, value) == Matches(i, n) /\ observations[n].read.value = value

\* Fault: one matching read is enough.
SomeRead(i, cites, value) == \E n \in Fresh(cites) : Reads(i, n, value)

\* There are fresh reads, and all are of that value.
OnlyReads(i, cites, value) ==
  /\ Fresh(cites) # {}
  /\ \A n \in Fresh(cites) : Reads(i, n, value)

\* _validate_classification().
Establishes(i, cites, class) ==
  CASE class = "BEFORE" -> OnlyReads(i, cites, intents[i].before)
    [] class = "AFTER_OBSERVED" -> OnlyReads(i, cites, intents[i].after)
    [] class = "DIVERGED" ->
         \E n \in Fresh(cites) : ~Reads(i, n, intents[i].before) /\ ~Reads(i, n, intents[i].after)
    [] class = "UNAVAILABLE" -> \E n \in cites : observations[n].outcome # "value"

\* record_classification(): by observations of the intent that the caller chose.  The
\* record names a version of the workflow not before the intent's, which nobody reads.
Classify(i, cites, class) ==
  /\ Cardinality(records) < MaxRecords
  /\ i \in DOMAIN intents
  /\ cites # {}
  /\ \A n \in cites : observations[n].intent = i
  /\ Establishes(i, cites, class)
  /\ records' = records \cup {[intent |-> i, class |-> class, cites |-> cites]}
  /\ UNCHANGED <<attribute, workflow, intents, observations, effects, held>>

-----------------------------------------------------------------------------
\* The engine changes: the write of an intent lands, or anything else does.
Changes(a) == /\ effects < MaxEffects
              /\ effects' = effects + 1
              /\ attribute' = a
              /\ held' = [i \in DOMAIN held |-> held[i] \cup {a}]
              /\ UNCHANGED <<workflow, intents, observations, records>>

\* The workflow goes on.
Moves(w) == /\ effects < MaxEffects
            /\ effects' = effects + 1
            /\ w.version = workflow.version + 1
            /\ workflow' = w
            /\ UNCHANGED <<attribute, intents, observations, records, held>>

EvidenceNext ==
  \/ \E i \in IntentIds, before, after \in Values, b \in Bindings : CommitIntent(i, before, after, b)
  \/ \E i \in IntentIds, s \in Sources : ObserveValue(i, s)
  \/ \E i \in IntentIds : ObserveNothing(i)
  \/ \E i \in IntentIds, cites \in SUBSET DOMAIN observations, class \in Classes :
       Classify(i, cites, class)
  \/ \E a \in Attributes : Changes(a)
  \/ \E w \in [version : {workflow.version + 1}, state : WorkflowStates,
               operation : WriteOperations] : Moves(w)

EvidenceSpec == EvidenceInit /\ [][EvidenceNext]_evidenceVars

-----------------------------------------------------------------------------
\* What is appended belongs to an intent, and what is cited was observed.
EvidenceTypeOK ==
  /\ attribute \in Attributes
  /\ \A n \in DOMAIN observations : observations[n].intent \in DOMAIN intents
  /\ \A r \in records : r.intent \in DOMAIN intents /\ r.class \in Classes
                        /\ r.cites \subseteq DOMAIN observations
  /\ DOMAIN held = DOMAIN intents

\* An attribute that is classified had, at some time after its intent was
\* committed, the value the classification states under the bindings of the
\* intent, or for DIVERGED neither; what the owner claimed establishes nothing
\* (_validate_classification, commit_intent before the write).
ClassifiedByLiveEvidence ==
  \A r \in records :
    LET i == intents[r.intent]
        was(v) == [value |-> v, binding |-> i.binding] IN
    /\ r.class = "BEFORE" => was(i.before) \in held[r.intent]
    /\ r.class = "AFTER_OBSERVED" => was(i.after) \in held[r.intent]
    /\ r.class = "DIVERGED" => held[r.intent] \ {was(i.before), was(i.after)} # {}

\* A contradiction that was cited is not argued away: no classification that
\* cites at least what a DIVERGED one of the intent cites is BEFORE or
\* AFTER_OBSERVED, and none of either kind that cites what the other did, unless
\* the intent proposed no change (record_classification: uncertain evidence
\* cannot be upgraded).
ContradictionStays ==
  \A r, s \in records :
    /\ r.intent = s.intent
    /\ r.cites \subseteq s.cites
    => /\ r.class = "DIVERGED" => s.class \in {"DIVERGED", "UNAVAILABLE"}
       /\ {r.class, s.class} = {"BEFORE", "AFTER_OBSERVED"} =>
            intents[r.intent].before = intents[r.intent].after
=============================================================================
