--------------------------- MODULE EvidenceProofs ---------------------------
(***************************************************************************)
(* Theorems about ReconciliationStore, for any values, bindings, intents   *)
(* and bounds: types, ClassifiedByLiveEvidence and ContradictionStays.     *)
(*                                                                         *)
(* The inductive invariant says that a classification is still established *)
(* by what it cites, and that each live read was true when it was made.    *)
(***************************************************************************)
EXTENDS ReconciliationStore, TLAPS

Observation == [intent : IntentIds, source : Sources, outcome : {"value"}, read : Attributes]
               \cup [intent : IntentIds, outcome : {"none"}]

Typed == /\ attribute \in Attributes
         /\ observations \in Seq(Observation)
         /\ DOMAIN held = DOMAIN intents

\* Observations belong to intents there are.
Attributed == \A n \in DOMAIN observations : observations[n].intent \in DOMAIN intents

IsLive(o) == o.outcome = "value" /\ o.source = "live"

\* A live read tells what the attribute was after the intent was committed.
ReadsWereTrue == \A n \in DOMAIN observations :
  IsLive(observations[n]) =>
    /\ observations[n].read \in Attributes
    /\ observations[n].read \in held[observations[n].intent]

NowIsHeld == \A i \in DOMAIN intents : attribute \in held[i]

\* A classification is by observations of its intent, which establish it.
Stands(r) == /\ r.intent \in DOMAIN intents
             /\ r.class \in Classes
             /\ r.cites \subseteq DOMAIN observations
             /\ \A n \in r.cites : observations[n].intent = r.intent
             /\ Establishes(r.intent, r.cites, r.class)

RecordsStand == \A r \in records : Stands(r)

EInv == Typed /\ Attributed /\ ReadsWereTrue /\ NowIsHeld /\ RecordsStand

-----------------------------------------------------------------------------
\* The rules, one classification at a time.
LEMMA Rules ==
  ASSUME NEW i, NEW cites
  PROVE  /\ Establishes(i, cites, "BEFORE") <=> OnlyReads(i, cites, intents[i].before)
         /\ Establishes(i, cites, "AFTER_OBSERVED") <=> OnlyReads(i, cites, intents[i].after)
         /\ Establishes(i, cites, "DIVERGED") <=>
              \E n \in Fresh(cites) : ~Reads(i, n, intents[i].before) /\ ~Reads(i, n, intents[i].after)
         /\ Establishes(i, cites, "UNAVAILABLE") <=> \E n \in cites : observations[n].outcome # "value"
  BY DEF Establishes

\* What is appended later, and to other intents, unsettles no classification.
LEMMA EstablishedForGood ==
  ASSUME NEW i, NEW cites \in SUBSET DOMAIN observations, NEW class \in Classes,
         Establishes(i, cites, class),
         intents'[i] = intents[i],
         \A n \in DOMAIN observations : observations'[n] = observations[n]
  PROVE  Establishes(i, cites, class)'
<1>1. Fresh(cites)' = Fresh(cites)
  BY DEF Fresh
<1>2. \A n \in Fresh(cites) : \A v : Reads(i, n, v)' <=> Reads(i, n, v)
  BY DEF Fresh, Reads, Matches
<1>3. OnlyReads(i, cites, intents[i].before)' <=> OnlyReads(i, cites, intents[i].before)
  BY <1>1, <1>2 DEF OnlyReads
<1>4. OnlyReads(i, cites, intents[i].after)' <=> OnlyReads(i, cites, intents[i].after)
  BY <1>1, <1>2 DEF OnlyReads
<1>5. (\E n \in Fresh(cites) : ~Reads(i, n, intents[i].before) /\ ~Reads(i, n, intents[i].after))'
      <=> \E n \in Fresh(cites) : ~Reads(i, n, intents[i].before) /\ ~Reads(i, n, intents[i].after)
  BY <1>1, <1>2
<1>6. (\E n \in cites : observations[n].outcome # "value")'
      <=> \E n \in cites : observations[n].outcome # "value"
  OBVIOUS
<1> QED BY <1>3, <1>4, <1>5, <1>6 DEF Establishes, Classes

-----------------------------------------------------------------------------
\* A new intent has held what the attribute is now.
LEMMA CommitKeeps ==
  ASSUME EInv, NEW i \in IntentIds, NEW before, NEW after, NEW b,
         CommitIntent(i, before, after, b)
  PROVE  EInv'
<1>1. /\ i \notin DOMAIN intents
      /\ DOMAIN intents' = DOMAIN intents \cup {i}
      /\ \A j \in DOMAIN intents : intents'[j] = intents[j] /\ held'[j] = held[j]
      /\ held'[i] = {attribute}
      /\ DOMAIN held' = DOMAIN held \cup {i}
      /\ UNCHANGED <<attribute, observations, records>>
  BY DEF CommitIntent, EInv, Typed
<1>2. Typed'
  BY <1>1 DEF EInv, Typed
<1>3. Attributed' /\ NowIsHeld'
  BY <1>1 DEF EInv, Attributed, NowIsHeld
<1>4. ReadsWereTrue'
  BY <1>1 DEF EInv, ReadsWereTrue, Attributed
<1>5. RecordsStand'
  <2> SUFFICES ASSUME NEW r \in records PROVE Stands(r)'
    BY <1>1 DEF RecordsStand
  <2>1. Stands(r)
    BY DEF EInv, RecordsStand
  <2>2. Establishes(r.intent, r.cites, r.class)'
    BY <1>1, <2>1, EstablishedForGood DEF Stands
  <2> QED BY <1>1, <2>1, <2>2 DEF Stands
<1> QED BY <1>2, <1>3, <1>4, <1>5 DEF EInv

\* An observation unsettles none before it, and a live read is true now.
LEMMA AppendKeeps ==
  ASSUME EInv, NEW o \in Observation, AppendObservation(o),
         o.intent \in DOMAIN intents, IsLive(o) => o.read = attribute
  PROVE  EInv'
<1> DEFINE m == Len(observations) + 1
<1>1. /\ UNCHANGED <<attribute, workflow, intents, records, effects, held>>
      /\ observations' = Append(observations, o)
  BY DEF AppendObservation
<1>2. /\ observations' \in Seq(Observation)
      /\ (DOMAIN observations)' = DOMAIN observations \cup {m}
      /\ \A n \in DOMAIN observations : observations'[n] = observations[n]
      /\ observations'[m] = o
  BY <1>1 DEF EInv, Typed
<1> HIDE DEF m
<1>3. Typed' /\ NowIsHeld'
  BY <1>1, <1>2 DEF EInv, Typed, NowIsHeld
<1>4. Attributed'
  BY <1>1, <1>2 DEF EInv, Attributed
<1>5. ReadsWereTrue'
  <2> SUFFICES ASSUME NEW n \in (DOMAIN observations)', IsLive(observations'[n])
               PROVE  /\ observations'[n].read \in Attributes
                      /\ observations'[n].read \in held[observations'[n].intent]
    BY <1>1 DEF ReadsWereTrue, IsLive
  <2>1. CASE n = m
    BY <1>2, <2>1 DEF EInv, Typed, NowIsHeld
  <2>2. CASE n \in DOMAIN observations
    BY <1>2, <2>2 DEF EInv, ReadsWereTrue
  <2> QED BY <1>2, <2>1, <2>2
<1>6. RecordsStand'
  <2> SUFFICES ASSUME NEW r \in records PROVE Stands(r)'
    BY <1>1 DEF RecordsStand
  <2>1. Stands(r)
    BY DEF EInv, RecordsStand
  <2>2. Establishes(r.intent, r.cites, r.class)'
    BY <1>1, <1>2, <2>1, EstablishedForGood DEF Stands
  <2> QED BY <1>1, <1>2, <2>1, <2>2 DEF Stands
<1> QED BY <1>3, <1>4, <1>5, <1>6 DEF EInv

\* A classification adds only itself.
LEMMA ClassifyKeeps ==
  ASSUME EInv, NEW i \in IntentIds, NEW cites \in SUBSET DOMAIN observations,
         NEW class \in Classes, Classify(i, cites, class)
  PROVE  EInv'
<1> DEFINE r == [intent |-> i, class |-> class, cites |-> cites]
<1>1. /\ UNCHANGED <<attribute, intents, observations, held>>
      /\ records' = records \cup {r}
  BY DEF Classify
<1>2. Typed' /\ Attributed' /\ ReadsWereTrue' /\ NowIsHeld'
  BY <1>1 DEF EInv, Typed, Attributed, ReadsWereTrue, NowIsHeld
<1>3. Stands(r)
  BY DEF Classify, Stands
<1>4. \A s : Stands(s) => Stands(s)'
  BY <1>1, EstablishedForGood DEF Stands
<1>5. RecordsStand'
  BY <1>1, <1>3, <1>4 DEF EInv, RecordsStand
<1> QED BY <1>2, <1>5 DEF EInv

\* What the attribute becomes is held from now on, by every intent.
LEMMA ChangesKeep ==
  ASSUME EInv, NEW a \in Attributes, Changes(a)
  PROVE  EInv'
<1>1. /\ UNCHANGED <<intents, observations, records>>
      /\ attribute' = a
      /\ DOMAIN held' = DOMAIN held
      /\ \A i \in DOMAIN held : held'[i] = held[i] \cup {a}
  BY DEF Changes
<1>2. Typed' /\ Attributed' /\ NowIsHeld'
  BY <1>1 DEF EInv, Typed, Attributed, NowIsHeld
<1>3. ReadsWereTrue'
  BY <1>1 DEF EInv, Typed, Attributed, ReadsWereTrue
<1>4. \A s : Stands(s) => Stands(s)'
  BY <1>1, EstablishedForGood DEF Stands
<1>5. RecordsStand'
  BY <1>1, <1>4 DEF EInv, RecordsStand
<1> QED BY <1>2, <1>3, <1>5 DEF EInv

\* The workflow may go on.
LEMMA OthersKeep ==
  ASSUME EInv, UNCHANGED <<attribute, intents, observations, records, held>>
  PROVE  EInv'
<1>1. \A s : Stands(s) => Stands(s)'
  BY EstablishedForGood DEF Stands
<1> QED BY <1>1 DEF EInv, Typed, Attributed, ReadsWereTrue, NowIsHeld, RecordsStand

\* There is no evidence at first.
LEMMA InitHolds == EvidenceInit => EInv
  BY DEF EvidenceInit, EInv, Typed, Attributed, ReadsWereTrue, NowIsHeld, RecordsStand

\* One step for each operation of the store, and for what goes on beside it.
LEMMA NextKeeps == EInv /\ [EvidenceNext]_evidenceVars => EInv'
<1> SUFFICES ASSUME EInv, [EvidenceNext]_evidenceVars PROVE EInv'
  OBVIOUS
<1>1. CASE UNCHANGED evidenceVars
  BY <1>1, OthersKeep DEF evidenceVars
<1>2. ASSUME NEW i \in IntentIds, NEW before \in Values, NEW after \in Values, NEW b \in Bindings,
             CommitIntent(i, before, after, b)
      PROVE  EInv'
  BY <1>2, CommitKeeps
<1>3. ASSUME NEW i \in IntentIds, NEW s \in Sources, ObserveValue(i, s) PROVE EInv'
  <2>1. PICK read \in IF s = "owner_return" THEN Attributes ELSE {attribute} :
          AppendObservation([intent |-> i, source |-> s, outcome |-> "value", read |-> read])
    BY <1>3 DEF ObserveValue
  <2> DEFINE o == [intent |-> i, source |-> s, outcome |-> "value", read |-> read]
  <2>2. read \in Attributes
    BY <2>1 DEF EInv, Typed
  <2>3. o \in Observation /\ o.intent = i /\ o.outcome = "value" /\ o.source = s /\ o.read = read
    BY <2>2 DEF Observation
  <2>4. IsLive(o) => o.read = attribute
    BY <2>1, <2>3 DEF IsLive
  <2>5. o.intent \in DOMAIN intents
    BY <1>3, <2>3 DEF ObserveValue
  <2>6. AppendObservation(o)
    BY <2>1
  <2> HIDE DEF o
  <2> QED BY <2>3, <2>4, <2>5, <2>6, AppendKeeps
<1>4. ASSUME NEW i \in IntentIds, ObserveNothing(i) PROVE EInv'
  <2> DEFINE o == [intent |-> i, outcome |-> "none"]
  <2>1. o \in Observation /\ o.intent \in DOMAIN intents /\ ~IsLive(o)
    BY <1>4 DEF Observation, ObserveNothing, IsLive
  <2>2. AppendObservation(o)
    BY <1>4 DEF ObserveNothing
  <2> HIDE DEF o
  <2> QED BY <2>1, <2>2, AppendKeeps
<1>5. ASSUME NEW i \in IntentIds, NEW cites \in SUBSET DOMAIN observations, NEW class \in Classes,
             Classify(i, cites, class)
      PROVE  EInv'
  BY <1>5, ClassifyKeeps
<1>6. ASSUME NEW a \in Attributes, Changes(a) PROVE EInv'
  BY <1>6, ChangesKeep
<1>7. ASSUME NEW w, Moves(w) PROVE EInv'
  BY <1>7, OthersKeep DEF Moves
<1> QED BY <1>1, <1>2, <1>3, <1>4, <1>5, <1>6, <1>7 DEF EvidenceNext

\* The invariant holds in every reachable state.
LEMMA EvidenceInvariant == EvidenceSpec => []EInv
<1>1. EvidenceInit => EInv
  BY InitHolds
<1>2. EInv /\ [EvidenceNext]_evidenceVars => EInv'
  BY NextKeeps
<1> QED BY <1>1, <1>2, PTL DEF EvidenceSpec

-----------------------------------------------------------------------------
\* Every reachable state is well typed.
THEOREM EvidenceTypeCorrect == EvidenceSpec => []EvidenceTypeOK
<1>1. EInv => EvidenceTypeOK
  BY DEF EInv, Typed, Attributed, RecordsStand, Stands, EvidenceTypeOK
<1> QED BY <1>1, EvidenceInvariant, PTL

\* A fresh read that a standing classification cites was what the attribute was.
LEMMA FreshWasHeld ==
  ASSUME EInv, NEW r \in records, NEW n \in Fresh(r.cites)
  PROVE  /\ observations[n].read \in Attributes
         /\ observations[n].read \in held[r.intent]
  BY DEF EInv, RecordsStand, Stands, ReadsWereTrue, Fresh, IsLive

\* What a read of a value under the bindings of the intent is.
LEMMA ReadIs ==
  ASSUME NEW i, NEW n, NEW v, observations[n].read \in Attributes
  PROVE  Reads(i, n, v) <=> observations[n].read = [value |-> v, binding |-> intents[i].binding]
  BY DEF Reads, Matches, Attributes

\* No classification states of the attribute what it never was (record_classification).
THEOREM AlwaysClassifiedByLiveEvidence == EvidenceSpec => []ClassifiedByLiveEvidence
<1>1. EInv => ClassifiedByLiveEvidence
  <2> SUFFICES ASSUME EInv, NEW r \in records
               PROVE  LET i == intents[r.intent]
                          was(v) == [value |-> v, binding |-> i.binding] IN
                      /\ r.class = "BEFORE" => was(i.before) \in held[r.intent]
                      /\ r.class = "AFTER_OBSERVED" => was(i.after) \in held[r.intent]
                      /\ r.class = "DIVERGED" => held[r.intent] \ {was(i.before), was(i.after)} # {}
    BY DEF ClassifiedByLiveEvidence
  <2> DEFINE i == intents[r.intent]
             was(v) == [value |-> v, binding |-> i.binding]
  <2>1. Establishes(r.intent, r.cites, r.class)
    BY DEF EInv, RecordsStand, Stands
  <2>2. \A v : OnlyReads(r.intent, r.cites, v) => was(v) \in held[r.intent]
    <3> SUFFICES ASSUME NEW v, OnlyReads(r.intent, r.cites, v) PROVE was(v) \in held[r.intent]
      OBVIOUS
    <3>1. PICK n \in Fresh(r.cites) : Reads(r.intent, n, v)
      BY DEF OnlyReads
    <3> QED BY <3>1, FreshWasHeld, ReadIs
  <2>3. r.class = "BEFORE" => was(i.before) \in held[r.intent]
    BY <2>1, <2>2, Rules
  <2>4. r.class = "AFTER_OBSERVED" => was(i.after) \in held[r.intent]
    BY <2>1, <2>2, Rules
  <2>5. ASSUME r.class = "DIVERGED" PROVE held[r.intent] \ {was(i.before), was(i.after)} # {}
    <3>1. PICK n \in Fresh(r.cites) :
            ~Reads(r.intent, n, i.before) /\ ~Reads(r.intent, n, i.after)
      BY <2>1, <2>5, Rules
    <3>2. observations[n].read \in held[r.intent]
      BY <3>1, FreshWasHeld
    <3>3. observations[n].read # was(i.before) /\ observations[n].read # was(i.after)
      BY <3>1, FreshWasHeld, ReadIs
    <3> QED BY <3>2, <3>3
  <2> QED BY <2>3, <2>4, <2>5
<1> QED BY <1>1, EvidenceInvariant, PTL

\* Citing more of the evidence never turns a divergence into a success, nor one
\* success into the other (_validate_classification).
THEOREM ContradictionAlwaysStays == EvidenceSpec => []ContradictionStays
<1>1. EInv => ContradictionStays
  <2> SUFFICES ASSUME EInv, NEW r \in records, NEW s \in records,
                      r.intent = s.intent, r.cites \subseteq s.cites
               PROVE  /\ r.class = "DIVERGED" => s.class \in {"DIVERGED", "UNAVAILABLE"}
                      /\ {r.class, s.class} = {"BEFORE", "AFTER_OBSERVED"} =>
                           intents[r.intent].before = intents[r.intent].after
    BY DEF ContradictionStays
  <2> DEFINE i == r.intent
  <2>1. /\ Establishes(i, r.cites, r.class) /\ Establishes(i, s.cites, s.class)
        /\ r.class \in Classes /\ s.class \in Classes
    BY DEF EInv, RecordsStand, Stands
  <2>2. Fresh(r.cites) \subseteq Fresh(s.cites)
    BY DEF Fresh
  <2>3. ASSUME r.class = "DIVERGED" PROVE s.class \in {"DIVERGED", "UNAVAILABLE"}
    <3>1. PICK n \in Fresh(r.cites) :
            ~Reads(i, n, intents[i].before) /\ ~Reads(i, n, intents[i].after)
      BY <2>1, <2>3, Rules
    <3>2. ~OnlyReads(i, s.cites, intents[i].before) /\ ~OnlyReads(i, s.cites, intents[i].after)
      BY <2>2, <3>1 DEF OnlyReads
    <3>3. s.class # "BEFORE" /\ s.class # "AFTER_OBSERVED"
      BY <2>1, <3>2, Rules
    <3> QED BY <2>1, <3>3 DEF Classes
  <2>4. ASSUME NEW v, NEW u, OnlyReads(i, r.cites, v), OnlyReads(i, s.cites, u) PROVE v = u
    <3>1. PICK n \in Fresh(r.cites) : Reads(i, n, v)
      BY <2>4 DEF OnlyReads
    <3>2. Reads(i, n, u)
      BY <2>2, <2>4, <3>1 DEF OnlyReads
    <3> QED BY <3>1, <3>2 DEF Reads
  <2>5. ASSUME {r.class, s.class} = {"BEFORE", "AFTER_OBSERVED"}
        PROVE  intents[i].before = intents[i].after
    <3>1. CASE r.class = "BEFORE" /\ s.class = "AFTER_OBSERVED"
      BY <2>1, <2>4, <3>1, Rules
    <3>2. CASE r.class = "AFTER_OBSERVED" /\ s.class = "BEFORE"
      BY <2>1, <2>4, <3>2, Rules
    <3> QED BY <2>5, <3>1, <3>2
  <2> QED BY <2>3, <2>5
<1> QED BY <1>1, EvidenceInvariant, PTL
=============================================================================
