----------------------------- MODULE ModelGraph -----------------------------
(***************************************************************************)
(* The extraction of a model graph: _SupportedClassSnapshotExtractor of    *)
(* mcp/runtime.py reads the objects of the active grids page by page,      *)
(* binds each to its product identity and stores a numbered revision       *)
(* (persistence/model_graph_store.py).  Tool calls run side by side, and   *)
(* the model may be edited in PowerFactory meanwhile.                      *)
(*                                                                         *)
(* Abstractions.  Objects of two classes, equipment and the terminals it   *)
(* is connected to, each read as one page; attributes, fingerprints and    *)
(* freshness evidence are left out; a context id is a number.  The clock   *)
(* that extractions are dated with may stand still, but does not go back.  *)
(***************************************************************************)
EXTENDS IdentityStore

CONSTANTS Equipment,       \* the places that hold equipment; the others hold terminals
          Terminal,        \* the terminal of each piece of equipment
          Configurations,  \* the contexts that sessions activate
          Extractors,      \* threads of tool calls
          Second,          \* ticks of the clock in a second
          MaxExtractions,  \* bound: extractions begun
          MaxAdvance,      \* bound: ticks from one extraction to the next
          MaxEdits         \* bound: edits in the engine, sessions opened, identities changed

ASSUME ClockAssumption == Second \in Nat \ {0} /\ MaxAdvance \in Nat

VARIABLES present,        \* the places where the engine has an object
          configuration,  \* the active configuration key
          extraction,     \* where each thread is, with its locals
          snapshots,      \* graph_extraction_runs and graph_assets, as inserted
          extractions, edits, clock  \* counters

graphVars == <<present, configuration, extraction, snapshots, extractions, edits, clock>>

NotExtracting == [pc |-> "idle", records |-> {}, bound |-> <<>>, place |-> 0,
                  context |-> 0, counter |-> 0, at |-> 0]

Terminals == Places \ Equipment

GraphInit == /\ present \in {{}, Places}
             /\ configuration \in Configurations
             /\ extraction = [x \in Extractors |-> NotExtracting]
             /\ snapshots = <<>>
             /\ extractions = 0
             /\ edits = 0
             /\ clock = 0

Idle == \A x \in Extractors : extraction[x].pc = "idle"
Goes(x, next) == extraction' = [extraction EXCEPT ![x] = next]
Fails(x) == Goes(x, NotExtracting)

\* The order of the texts of times.  isoformat() leaves a fraction of zero out, and "Z"
\* sorts after ".": a time on the second comes after all others of its second.
IsWhole(at) == at % Second = 0
TextRank(at) == IF IsWhole(at) THEN 2 * (at + Second) - 1 ELSE 2 * at

\* Fault: runs of the same time are not told apart.
SortsByText(m, n) == TextRank(snapshots[m].at) < TextRank(snapshots[n].at)

\* ORDER BY recorded_at, extraction_counter.
SortsBefore(m, n) ==
  LET a == TextRank(snapshots[m].at)
      b == TextRank(snapshots[n].at) IN
  a < b \/ (a = b /\ snapshots[m].counter < snapshots[n].counter)

\* ModelGraphStore.latest() of a context, or of all.
LatestOf(runs) == CHOOSE n \in runs : \A m \in runs : ~SortsBefore(n, m)
Newest == LatestOf(DOMAIN snapshots)

\* The contexts that revisions and threads have, and no context.
Contexts == {0} \cup {snapshots[n].context : n \in DOMAIN snapshots}
            \cup {extraction[x].context : x \in Extractors}

\* Contexts are told apart by uuid: a new one, that no thread has drawn.
FreshContext == CHOOSE c \in 1..Cardinality(Contexts) : c \notin Contexts

-----------------------------------------------------------------------------
\* refresh_model_graph, or the first _ensure_snapshot: the query of terminals.
BeginExtraction(x) ==
  /\ extraction[x].pc = "idle"
  /\ extractions < MaxExtractions
  /\ extractions' = extractions + 1
  /\ Goes(x, [NotExtracting EXCEPT !.pc = "equipment", !.records = present \cap Terminals])
  /\ UNCHANGED <<present, configuration, snapshots, edits, clock, identityVars>>

QueryEquipment(x) ==
  LET e == extraction[x] IN
  /\ e.pc = "equipment"
  /\ Goes(x, [e EXCEPT !.pc = "revision", !.records = @ \cup (present \cap Equipment)])
  /\ UNCHANGED <<present, configuration, snapshots, extractions, edits, clock, identityVars>>

\* The stored graph is of the active configuration (GraphContextMismatchError).
Continues(s) == s.configuration = configuration

NextRevision(x) ==
  LET e == extraction[x] IN
  /\ e.pc = "revision"
  /\ IF snapshots = <<>>
     THEN Goes(x, [e EXCEPT !.pc = "bind", !.context = FreshContext, !.counter = 1])
     ELSE LET s == snapshots[Newest] IN
          IF Continues(s)
          THEN Goes(x, [e EXCEPT !.pc = "bind", !.context = s.context, !.counter = s.counter + 1])
          ELSE Fails(x)
  /\ UNCHANGED <<present, configuration, snapshots, extractions, edits, clock, identityVars>>

\* The next record is resolved; one that is not found is to be created.
ResolveRecord(x, p) ==
  LET e == extraction[x] IN
  /\ e.pc = "bind"
  /\ p \in e.records \ DOMAIN e.bound
  /\ Goes(x, CASE Resolves(p) = {} -> [e EXCEPT !.pc = "create", !.place = p]
               [] Cardinality(Resolves(p)) = 1 ->
                    [e EXCEPT !.bound = [q \in DOMAIN e.bound \cup {p} |->
                       IF q = p THEN CHOOSE i \in Resolves(p) : TRUE ELSE e.bound[q]]]
               [] OTHER -> NotExtracting)
  /\ UNCHANGED <<present, configuration, snapshots, extractions, edits, clock, identityVars>>

CreateIdentity(x) ==
  LET e == extraction[x] IN
  /\ e.pc = "create"
  /\ IF Conflicts(e.place) # {} THEN Fails(x) /\ UNCHANGED identityVars
     ELSE /\ Create(e.place)
          /\ Goes(x, [e EXCEPT !.pc = "bind", !.place = 0,
                        !.bound = [q \in DOMAIN e.bound \cup {e.place} |->
                          IF q = e.place THEN Len(products) + 1 ELSE e.bound[q]]])
  /\ UNCHANGED <<present, configuration, snapshots, extractions, edits, clock>>

\* The relationships are read of the engine as it is now, each to a terminal that
\* was read before; GraphSnapshot requires distinct identities.
Assembles(e) ==
  /\ e.records \cap Equipment \subseteq present
  /\ \A q \in e.records \cap Equipment : Terminal[q] \in e.records
  /\ \A p, q \in DOMAIN e.bound : e.bound[p] = e.bound[q] => p = q

AssembleSnapshot(x) ==
  LET e == extraction[x] IN
  /\ e.pc = "bind"
  /\ DOMAIN e.bound = e.records
  /\ IF Assembles(e)
     THEN \E now \in clock..(clock + MaxAdvance) :
            Goes(x, [e EXCEPT !.pc = "record", !.at = now]) /\ clock' = now
     ELSE Fails(x) /\ UNCHANGED clock
  /\ UNCHANGED <<present, configuration, snapshots, extractions, edits, identityVars>>

\* UNIQUE(model_context_id, extraction_counter).
NumberIsFree(e) == \A n \in DOMAIN snapshots :
  ~(snapshots[n].context = e.context /\ snapshots[n].counter = e.counter)

\* record_full(): one transaction.
RecordSnapshot(x) ==
  LET e == extraction[x] IN
  /\ e.pc = "record"
  /\ snapshots' = IF NumberIsFree(e)
                  THEN Append(snapshots, [context |-> e.context, counter |-> e.counter,
                                          at |-> e.at, configuration |-> configuration,
                                          assets |-> e.bound])
                  ELSE snapshots
  /\ Fails(x)
  /\ UNCHANGED <<present, configuration, extractions, edits, clock, identityVars>>

-----------------------------------------------------------------------------
\* An object is created or deleted in the engine.
Edit(p) == /\ edits < MaxEdits
           /\ edits' = edits + 1
           /\ present' = IF p \in present THEN present \ {p} ELSE present \cup {p}
           /\ UNCHANGED <<configuration, extraction, snapshots, extractions, clock, identityVars>>

\* Another session, with another context.
OpenSession(c) == /\ edits < MaxEdits
                  /\ edits' = edits + 1
                  /\ Idle
                  /\ c # configuration
                  /\ configuration' = c
                  /\ UNCHANGED <<present, extraction, snapshots, extractions, clock, identityVars>>

ExtractorStep(x) == \/ BeginExtraction(x) \/ QueryEquipment(x) \/ NextRevision(x)
                    \/ \E p \in Places : ResolveRecord(x, p)
                    \/ CreateIdentity(x) \/ AssembleSnapshot(x) \/ RecordSnapshot(x)

\* A curator changes an identity meanwhile.
Curate(c) == /\ CuratorStep(c)
             /\ edits' = IF decided[c] = Undecided THEN edits + 1 ELSE edits
             /\ edits' <= MaxEdits
             /\ UNCHANGED <<present, configuration, extraction, snapshots, extractions, clock>>

GraphNext == \/ \E x \in Extractors : ExtractorStep(x)
             \/ \E c \in Curators : Curate(c)
             \/ \E p \in Places : Edit(p)
             \/ \E c \in Configurations : OpenSession(c)

GraphSpec == IdentityInit /\ GraphInit /\ [][GraphNext]_<<graphVars, identityVars>>

-----------------------------------------------------------------------------
\* An object that is found at the same place in two revisions has the same
\* identity in both, whichever threads extracted them side by side, unless an
\* identity was tombstoned or another one was rebound to that place meanwhile
\* (resolve_exact and create are two transactions).
IdentityIsStable ==
  \A m, n \in DOMAIN snapshots :
    \A p \in DOMAIN snapshots[m].assets \cap DOMAIN snapshots[n].assets :
      LET i == snapshots[m].assets[p]
          j == snapshots[n].assets[p] IN
      \/ i = j
      \/ {i, j} \cap tombstones # {}
      \/ \E v \in DOMAIN locators : locators[v].place = p /\ locators[v].prior # 0

\* The revisions of a context continue one another: they are of the same
\* configuration, and numbered from 1 without a gap or a repetition in the order
\* in which they were taken.  Where two threads or the order of texts make them
\* collide, a revision is lost and no number is.  latest() returns the one of the
\* highest number, unless it returns one that was taken on the full second:  then
\* all that have a higher number were taken in that very second (extract_snapshot,
\* latest, UNIQUE(model_context_id, extraction_counter)).
RevisionsFollow ==
  \A c \in {snapshots[n].context : n \in DOMAIN snapshots} :
    LET of == {n \in DOMAIN snapshots : snapshots[n].context = c}
        last == snapshots[LatestOf(of)] IN
    /\ {snapshots[n].counter : n \in of} = 1..Cardinality(of)
    /\ \A m, n \in of : /\ snapshots[m].configuration = snapshots[n].configuration
                        /\ snapshots[m].counter < snapshots[n].counter =>
                             snapshots[m].at <= snapshots[n].at
    /\ \A n \in of : snapshots[n].counter > last.counter =>
         IsWhole(last.at) /\ snapshots[n].at < last.at + Second
=============================================================================
