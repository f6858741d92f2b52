# powerfactory-agent in TLA+

powerfactory-agent is an MCP service in front of one DIgSILENT PowerFactory engine. The
engine is a native library that serves one call at a time, cannot be cancelled, and may
hang or crash. Most of the program's own logic is there to keep durable, truthful records
of what was asked of it: operations, workflows, leases, approvals, intents. This directory
models that logic, checks it with TLC and proves part of it with TLAPS. Paths below are
relative to the repository's `src/powerfactory_agent/`.

## The system

| Part | State | Operations | What is hard | What makes it correct |
|---|---|---|---|---|
| Operation store (`persistence/operation_store.py`) | one row per idempotency key: state, deadlines, outcome | `admit`, compare-and-swap transitions, recoveries | crash between any two transactions, late results | a final row never changes and says truly whether the handler ran |
| Serialized worker (`gateway/worker.py`) | bounded queue, flags, active operation, owner and watchdog thread | `submit`, the wait for a client, the owner loop, the watchdog loop, `close` | threads between every two store calls, deadlines, quarantine, restart | no operation runs twice; FIFO; hung calls are noticed; clean close leaves nothing |
| Serialized owner (`gateway/owner.py`) | a worker | named `submit_*` calls | - | typed results |
| Runtime (`mcp/runtime.py`) | owner, started, context, graph snapshot | `_start`, `activate_context`, reads, load flow, `close` | failure of the start, activations answered late, replacement owner | one native call at a time; the engine has the admitted context |
| Workflow store (`persistence/workflow_store.py`) | state and version per workflow, commands, audit | `record`, `transition` | concurrent callers, replays | no lost update |
| Leases (`persistence/lease_store.py`) | one current lease per scope, fencing counter | acquire, start/finish a call, release, expire, sweep | stale holders, expiry during a call | tokens grow; a running call keeps its scope |
| Approval authority (`persistence/approval_store.py`) | requests, decisions, authorizations, admissions | create, approve, reject, cancel, expire, invalidate, admit, consume | races of authority and coordinator | one decision; consumed once |
| Execution admission (`persistence/execution_admission.py`) | envelopes | `admit_and_begin_write` | joins four stores; caller prepares its intent beforehand | an envelope is backed by every fact it joins |
| Reconciliation (`persistence/reconciliation_store.py`) | intents, observations, classifications | commit, append, classify | crash between intent and observation | a classification follows from its evidence |
| Identity store (`persistence/identity_store.py`) | product identities, locator versions, lifecycle events, tombstones | create, rebind, tombstone, mark unresolved | read in one transaction, write in another | recreation needs a proven deletion; one line of succession |
| Model graph (`persistence/model_graph_store.py`, `operations/model_graph.py`) | extraction runs, latest snapshot | full and incremental refresh, queries of paths, components and impact, diff | two refreshes side by side; which snapshot is the latest | revisions continue each other; queries agree with each other and with the graph |
| Snapshot extractor (`mcp/runtime.py`, `_SupportedClassSnapshotExtractor`) | identities found and made | pages of objects, exact resolution | another extraction, or an edit, between two pages | an object keeps its identity |
| Calculations (`operations/calculations.py`, `persistence/calculation_store.py`) | runs, result snapshots, overlays | validated load flow, evaluation, comparison | retries answered with rows of a former attempt; limits that differ between snapshots | a converged run is complete; trends follow what the overlays show |
| Session controller (`mcp/server.py`) | active context, lock, shutdown flag | open context, contextual tools, shutdown | tools beside shutdown and beside each other | no call is stuck; tools meet the admitted context |
| Native gateway (`gateway/powerfactory2026.py`, `gateway/native_powerfactory2026.py`) | attached session, cached context, executions, cursors; what to restore | start, activate, execute, results, logs, close | an activation that fails half way | what the session found is restored |
| Headline harness (`gateway/fake.py`) | live values, applied changes, authorizations | preview, apply, roll back | a change interrupted after some of its writes | a rollback undoes what was written |
| Installer (`scripts/install-windows.ps1`) | files of an installation | install, roll back | failure half way | the former installation survives |

Interactions. Clients call the owner's `submit_*`; the worker writes the operation store and
hands a key to its owner thread through a queue; the watchdog, `close` and a later worker act
on the same rows. The write path is a protocol over one SQLite database: a workflow reaches
`awaiting_authorization`, an approval request binds its version, an approval issues an
authorization, and the coordinator consumes it, moves the workflow, leases the context with a
call in flight and writes the intent, in one transaction. Every store is also used on its own
by callers that do not know of each other. A tool call goes from the session controller,
which looks at the active context under its lock, to the runtime, which submits operations to
the owner under keys and waits for each with a deadline; the owner's thread performs them one
by one in the gateway, over the native adapter. A wait that is given up leaves its operation in
the queue. The runtime's model graph resolves what the engine shows to identities and stores
revisions. All stores share `SQLiteDatabase.transaction` (`BEGIN IMMEDIATE ... COMMIT`,
rollback on any exception), so one transaction is one step.

## Modules

| Module | Models | Notes |
|---|---|---|
| `OperationStore` | `operation_store.py` | one operator per transaction; time is the set of deadlines that have passed |
| `SerializedWorker` | `worker.py` | one action per step between two store transactions or critical sections, for owner, watchdog, closer and clients; construction, reopening, crash |
| `ReplacementOwner` | `PowerFactoryEngineeringRuntime._start` | adds the owner built after a failed `close()` |
| `OperationLedger` | abstract | what a caller may rely on: an operation is begun at most once, performed at most once, and ends for good |
| `WorkflowStore` | `workflow_store.py` | state, version, commands, and the clock the callers read |
| `LeaseStore` | `lease_store.py` | extends `WorkflowStore`; history `granted` of the leases issued |
| `ApprovalStore` | `approval_store.py` | extends `WorkflowStore` |
| `ExecutionAdmission` | `execution_admission.py` | composes the four stores; the specification and the properties of the write path |
| `GatewayOwner` | `gateway/owner.py` as the runtime uses it | the ledger of operations with requests and results, one queue, one thread; abstracts what `SerializedWorker` details |
| `NativeVendor` | `gateway/native_powerfactory2026.py` | the engine (external) and what the adapter keeps of it |
| `Gateway` | `gateway/powerfactory2026.py` | the handlers, over `GatewayOwner` and `NativeVendor` |
| `LoadFlow` | `LoadFlowService` of `operations/calculations.py` | a caller's thread from the command to the stored run |
| `EngineeringSession` | `mcp/server.py` over `mcp/runtime.py` | composes the four above with contexts, the lock, shutdown, faults and restarts |
| `IdentityStore` | `identity_store.py` | a decision and its later write are two steps of a thread |
| `ModelGraph` | extractor of `mcp/runtime.py`, `model_graph_store.py` | extends `IdentityStore`; threads extract page by page while the engine is edited |
| `ReconciliationStore` | `reconciliation_store.py`, `domain/reconciliation.py` | the recovery that calls it is external |
| `Topology` | `operations/model_graph.py`, `domain/topology.py` | pure: neighborhoods, outage impact, components, electrical paths, merge and diff of revisions |
| `Comparison` | `operations/calculations.py`, `domain/calculation_projection.py` | pure: violations, overlays, comparison of snapshots |
| `HeadlineHarness` | `DeterministicHeadlineHarness` of `gateway/fake.py` | previews, authorizations, changes, interruptions, rollbacks |
| `MCSerializedWorker`, `MCExecutionAdmission`, `MCEngineeringSession` | - | instances, symmetry and the view for TLC |
| `MCStores` | - | the instances of six parts that share no state; a behaviour stays in the part it starts in |
| `AdmissionProofs` | - | theorems about `ExecutionAdmission` |
| `WorkerProofs` | - | theorems about `ReplacementOwner`, and with it `SerializedWorker`: types, rows, the ledger |
| `QueueProofs` | - | extends `WorkerProofs`: admission, the queue, restarts and close |
| `SessionProofs` | - | theorems about `EngineeringSession`: executions, contexts, close |
| `CalculationProofs` | - | extends `SessionProofs`: load flows and their pages; `Comparison` |
| `IdentityProofs` | - | theorems about `IdentityStore`, `ModelGraph` and `Topology` |
| `EvidenceProofs`, `HarnessProofs` | - | theorems about `ReconciliationStore` and `HeadlineHarness` |

How state corresponds to code.

* `rec`, `order`, `due` are `operation_records` (by idempotency key), its `sequence` column,
  and the deadlines of a row that lie in the past. Wall-clock time is only compared with those
  deadlines, so that one passing is one step; no order between the deadlines is assumed, since
  they are three independent settings.
* `worker[w]` holds the fields of the w-th worker object: queue, `_stopping`, `_quarantined`,
  `_active_operation_id`, who holds `_admission_lock`, and how far `close()` has come. `owner`,
  `watchdog` and `client` are program counters with the local variables that live across
  steps. Critical sections of `_state_lock` contain no store call and are one step each.
* `workflow`, `commands`, `lease`, `counter`, `request`, `decision`, `authorization`,
  `admission`, `intents`, `envelope` are the tables of the same names. `sweep` is an
  `expire_due()` between its query and its calls of `expire()`.
* `operation` and `queue` of `GatewayOwner` are the rows and the queue of the session's owner.
  Keys that the code draws with `uuid4` are a kind and a number; the keys of a load flow are
  derived from its caller's key, as in the code, so that a retry meets the former rows.
  `engine` is what is active in PowerFactory and which execution its results are of, `vendor`
  and `adapter` the fields of the two gateway classes, `active`, `holder`, `closing` those of
  `SessionController`, `started`, `context` those of the runtime, `call[t]` the stack of a
  tool call's thread: a step of it ends where it waits for the owner.
* `products`, `locators`, `events`, `tombstones` are the tables of migration 9, `decided[c]`
  what a thread has read and is about to write, `extraction[x]` the locals of an extraction,
  `snapshots` the extraction runs in the order of their insertion. Identities and versions are
  numbered as they are made.
* `intents`, `observations`, `records` are the reconciliation tables; `attribute` and
  `workflow` are what moves on meanwhile.
* `asked` and `compared` are the inputs of the two pure modules, one per behaviour.
* `live`, `applied`, `authorizations`, `counters`, `workspace` are the fields of the harness;
  `draft` is the document a caller is drawing up.
* `calls`, `faults`, `granted`, `refused`, and in the newer modules `visit`, `executed`, `held`,
  `raced`, `writings` are history variables: they record what happened for the properties, and
  only bounds (`calls < MaxCalls`, `faults < MaxFaults`), the position of the next lease and
  the number of the next execution read them.

Times in the lease and approval modules are passed by the caller, who read the clock some
time before its transaction: any moment `0..clock`. The clock counts half seconds, because one
comparison (`expire_due`) is of texts, and the text of a full second has another shape.
`ModelGraph` has such a comparison too, the order in which `latest()` looks for a run: its clock
counts ticks, `Second` of them in a second, and `TextRank` is the place of a time among the
texts. That clock may stand still between two extractions, or advance by up to `MaxAdvance`
ticks; it does not go back, since extractions are dated by `datetime.now`, in one process.

Definitions that begin with the comment `Fault:` are plausible mistakes in the code beside
the definition they would replace. They are used by no specification; substituting one for
its neighbour makes the property named for it in `PROJECT.json` fail.

## What the runs check

Every run is small because the interesting cases are: two of whatever competes.

| Run | Instance | Shows |
|---|---|---|
| `worker` | 2 keys, 2 requests, 2 clients, 1 worker, queue of 2, `close()` allowed | `RowsTellWhatRan`, `NoOvertaking`, `QueuedRowsAreHeld`, `AnsweredForOwnRequest`, `CleanCloseSettlesAll`, `TerminalIsFinal`, `AdmissionIsFenced`, types |
| `worker_restart` | 1 key, 2 clients, 2 workers (crash, clean reopening, replacement), 1 store error | `OnlyAbandonedOwnersOverlap`, `CallsAreInFlight`, refinement of `OperationLedger` |
| `worker_live` | 2 keys, 1 client, 2 workers (one crash), queue of 1, fair | `QueuedIsDecided`, `HungCallIsQuarantined`, `WaiterIsAnswered`, `EveryOperationSettles`, `QueueWithinBound` |
| `admission` | 1 workflow to version 3, 2 requests, 1 scope, 2 owners, 2 leases, 2 operations, clock to 1 | `CommandsAreSerial`, `EnvelopeIsGrounded`, `OneExecutionPerVersion`, `ConsumedIffAdmitted`, `CallsStartFenced`, `TokensIncrease`, `CallKeepsItsScope`, types |
| `session` | 2 callers and the closer, 2 contexts (one fails half way), 2 load-flow keys, 2 objects in pages of 1, 4 tool calls, 1 fault | `EngineServesTheSession`, `ExecutedOncePerKey`, `RetriesAgree`, `ConvergedIsComplete`, `CloseRestores`, `NoCallIsStuck` |
| `stores` | see below | `RecreationNeedsProof`, `HistoryIsLinear`, `IdentityIsStable`, `RevisionsFollow`, `ClassifiedByLiveEvidence`, `ContradictionStays`, `QueriesAgree`, `DiffTellsTheRefresh`, `TrendsFollowOverlays`, `LedgerUndoes` |

The parts of `stores`: 2 curators over 2 places, up to 4 locator versions and 4 events;
2 extractors over the same places and 2 configurations, 3 extractions and 2 edits, with a clock of
half seconds that stands still or advances by one; one intent
with 3 values and 2 bindings, 2 observations, 2 classifications and 2 changes in the engine;
every snapshot of 4 assets (in service, out of it, or an open switch) with up to 3
relationships, and every incremental refresh of a snapshot of 3; every pair of measurements of
one metric over 3 x 3 limits and 3 tolerances; the harness with 2 targets, 1 workflow, 3
authorizations and one interference. With one workflow its version and the workspace revision
move together.

Why the bounds suffice. Two keys let one operation hang while another waits behind it, be
overtaken, or be cancelled under it; two clients race on one key or on the admission lock;
a queue of 1 or 2 is full and is emptied; two workers make one restart, and a second restart
finds nothing a first does not, since recovery reads rows alone. Two requests compete for one
workflow version, two leases make a stale holder, version 3 lets a command come between the
acquisition of a lease and its use. `MaxGrants`, `MaxVersion` and `MaxTime` bound the counters;
what the admission run checks is proved without these sizes. Two callers open contexts, run
load flows of one key or of two beside each other and beside shutdown; four calls let a load
flow be given up and tried again after an admission, and a page size of 1 with 2 objects makes
a retry meet pages the former attempt asked for. Two decisions on one identity, two extractions
of one configuration and two classifications of one intent are what races in the stores.

Deadlock. The worker specification never deadlocks and is checked for it (a watchdog round is
always possible, or another worker, or a client that enters). `ExecutionAdmission` stops when
its counters reach their bounds, and so do `session` (a session that is shut down answers
nobody) and `stores`; they do not look for deadlock. What deadlock would mean for a session,
`NoCallIsStuck` states: every thread that was called can go on by itself.

### Disagreements

Six runs are expected to find a violation. Each is the code's own behaviour against a
sentence of the repository; `PROJECT.json` quotes them.

* `worker_replaced` - `_start` ignores that `shutdown_serialization` failed, and a second owner
  may be inside the engine beside the first.
* `worker_quarantined` - what was queued before the quarantine is still started after it.
* `worker_faulty` - one unhandled error of SQLite ends the watchdog or the owner thread; a
  call that hangs afterwards is never noticed. Without such an error `worker_live` shows that
  it always is.
* `approval_refused` - the decision EXPIRED or INVALIDATED is rolled back by the exception
  that reports it.
* `lease_sweep` - `expire_due` compares texts and misses a lease that is due.
* `session_restores` - an activation that fails at the study case leaves its project active, and
  a close that succeeds does not restore what the session found. `CloseRestores` holds with the
  premise that no activation failed.

### What the models tell of the code

Facts a reader of the code may not expect; each is in a model, as the code has it, and the
properties are stated so that they are true of it.

* A value that swings from below its lower to above its upper limit is reported UNCHANGED under
  the candidate's key, although two violations of different keys resolved and appeared
  (`_compare_finding`; `specs/architecture/load-flow-and-violation-policy.md:58` says
  otherwise). `TrendsFollowOverlays` leaves this case out.
* `compare_result_snapshots` raises when the tolerance exceeds the severity threshold and the
  difference lies between them.
* `topology_diff` does not look at service state or switch state, nor at the former end of a
  relationship that was re-ended; removed assets count in the total and are not shown.
* `electrical_path` with an end that is de-energised raises `nx.NodeNotFound`, not
  `GraphQueryError`.
* A database that holds one configuration's snapshots refuses to extract another's
  (`GraphContextMismatchError`).
* Two refreshes side by side may store the older reads under the newer number.
* `latest()` orders runs by the text of their time, and a time on the full second, whose text has
  no fraction, sorts after the other times of its second. If a revision was taken on the full
  second and the next one in that very second, `latest()` goes on returning the former, and
  every later refresh collides with the number of the latter, in a unique column, and is
  refused. `RevisionsFollow` says that this is the only way in which `latest()` misses the highest
  number. A clock that is set back would be another; the model assumes that it is not.
* `record_incremental` reads the run it continues outside of the transaction that inserts the next
  one. Nothing but tests calls it; `Topology` has its merge, and not this read.
* `mark_unresolved` may overwrite a tombstone that was written after it read the identity, and two
  rebinds of one locator may both succeed. `HistoryIsLinear` and `RecreationNeedsProof` leave the
  identities out that were so written over (`raced`), and say what holds of the others.
* A classification is judged by the observations it cites: one that would contradict it, and that
  nobody cites, is not looked at. `ContradictionStays` is about what was cited.
* An activation that is complete and then cannot be verified raises after the flag that makes
  close restore was set; one that failed before leaves it unset (see `session_restores`).
* `rebind` does not ask whether the new place has a live identity of its own, and old places go
  on resolving to the identity that was moved.
* BEFORE and AFTER_OBSERVED are accepted over cited evidence that includes uncertain outcomes.
* No operation of the session ends as FAILED. The worker keeps that state for a
  `KnownOperationFailure`, and no error of the gateway is one: a handler that raises, be it that the
  session was not started, leaves its row in RECONCILIATION_REQUIRED (`Raised`). A native command may
  have calculated before it raises, and is then not cached (`VendorRaises`).
* `_require_configuration` compares a request with the cached context, not with the engine;
  `EngineServesTheSession` is why that is enough.
* A preview that names a target twice makes `apply_change` stop in the middle of its writes, the
  authorization spent and nothing recorded; a change can be rolled back twice.
* A lease that expired with its call in flight is held for ever: there is no recover command.
* The fencing of an admission's lease by later commands of its own workflow, and the way into
  `executing` without an authorization, are as the code intends: the envelope is what a write
  must show.

### Fairness

`Fairness` (module `SerializedWorker`) is what thread scheduling gives: the constructor, the
owner, the watchdog, a waiting client and the closer each poll at a bounded interval (20 ms,
`watchdog_interval_ms`, 50 ms, the join's timeout), so each gets weak fairness as a whole;
deadlines pass. Taking the admission lock is strongly fair for the watchdog: clients take and
release it again and again, and Python's lock lets a waiter through in the end. Nothing is
assumed of handlers (a native call may never return), of clients beginning anything, of
anybody calling `close()`, of crashes or of store errors. `EveryOperationSettles` has the
premise that no handler runs for ever, as a part of the property.

## What is proved

### The worker

The theorems are about `RuntimeSpec`, so for any number of keys, requests, clients, workers,
crashes, replacements and store errors, from `WorkerAssumption` and `NoRequestAssumption`; the
steps of `Spec` are among those of `RuntimeSpec` (`SpecIsRuntimeSpec`).

* `WorkerProofs` begins with type correctness. `TypeInv` adds that a thread in the middle of its
  work holds a key, without which the queue, the row it writes or the count is not typed.
* It goes on to `RowsTellWhatRan`, `TerminalIsFinal` and `AnsweredForOwnRequest`. What a
  store transaction does to any row is one lemma each (`RowsGoOn`: no way back to before the
  start, a final row never changes, a request stays bound; `ReportsNothing` for all but
  `complete` and `fail`). `RowsTellWhatRan` is inductive only with `OwnersKnow`: an owner between
  `start()` and the handler has a row that was begun and never called, and shares it with no
  other owner, not even with one left behind by a failed `close()`; after the handler the count
  is one. So a second call, or a report of a call that was not made, is impossible although the
  row may meanwhile have been timed out, declared unresponsive or sent to reconciliation.
* Its last part is the refinement of `OperationLedger` by step simulation: the lemmas say
  which step of the ledger each transaction is, and `OwnersKnow` gives the guards of `Perform`
  and `Conclude`.

`QueueProofs` follows an operation from its admission to its handler. Its invariant comes in
layers, each of which uses those before it:

* `ThreadsInv` - what the workers before and after the current one still are, and who holds the
  admission lock. One client at most is between the first check of `submit` and the put, and
  neither the watchdog's mark nor the flag of `close` falls there. `OnlyAbandonedOwnersOverlap`
  follows: whoever is not current and still has an owner was given up by its `close`.
* `AdmitInv` - what a client has checked is still true when it uses it: admission is open when
  the row is inserted, and the queue has room when the key is put. `QueueWithinBound` is part
  of it.
* `RowsInv` - the rows are those of the durable sequence, each once; a key that is in anybody's
  hands has a row; the key a client is about to put is the newest row and in nobody else's
  hands; and what earlier workers hold is not queued, and is final once the construction of the
  current one is through.
* `FlightInv` - a row in flight is one the current owner has claimed and not reported, and an
  unresponsive row goes with a worker that stops, is quarantined or is about to be.
  `CallsAreInFlight` and `AdmissionIsFenced` are action properties that follow at once.
* `OrderInv` - a queued row is in somebody's hands (`HeldInv`), the queue has the order of the
  rows, with the owner's operation before it (`FifoInv`), and whoever is about to enter a handler
  leaves nothing queued behind (`TurnInv`). `NoOvertaking` is not inductive without the second.

`QueuedRowsAreHeld` and `CleanCloseSettlesAll` are proved for `faults = 0`: as long as no store
call has raised an error that ends a thread. With such an error both fail, and should: the owner
thread dies with its operation queued or in flight, nobody takes it over, and `close` then joins a
thread that is dead already (`worker_faulty` shows what else comes of it). The `worker` run checks
them with `MaxFaults` 0 for the same reason. The other five hold with any number of errors.

### The write path

`AdmissionProofs` proves `TypeCorrect`: every value of the constants, every reachable
state. It goes on to prove the seven properties of the admission run for every
number of workflows, requests, scopes, owners, operations, grants, versions and times, from the
named assumptions `WorkflowAssumption` (the bounds are naturals, the first states are states)
and `LeaseAssumption` (`NoOperation` is no operation), which every run evaluates.

The properties are not inductive. The invariant `IInv` is, and is the conjunction of

* `TypeInv` - types, every counter at most the number of grants (`CounterWithinGrants`), every
  authorization belongs to a request (`IssuedIsRequested`);
* `TokenInv` - `TokensIncrease` and `TokensAreCounted`: the counter of a scope is the greatest
  token granted for it, and a current lease is the one granted under its id. Without the
  counter, nothing says that the next token is new once the row is gone;
* `SerialInv` - `CommandsAreSerial`, which ties the version to the number of commands, so that
  a recorded command is never overwritten;
* `ApprovalInv` - an authorization needs an approved decision, and `ConsumedIffAdmitted`;
* `EnvelopeInv` - `Grounded` for each envelope, stated with positions in `granted` and
  `commands`, which only grow; that is what makes it stable under every other action.

`OneExecutionPerVersion` then follows: two envelopes for one version would be backed by one and
the same command, made when the workflow was at that version, and the second admission would
have found it moved on (`MatchesWorkflow`). `CallsStartFenced` and `CallKeepsItsScope` are
action properties, proved from `IInv` by cases on the actions. Each preservation proof has one
step per action; lemmas state what an action files, issues or moves so that the actions that
touch none of it share one case.

### The session

`SessionProofs` is about `SessionSpec`, for any callers, contexts, keys, page sizes, numbers of
calls and faults. `SessionAssumption` says that no thread is the value that stands for a free
lock, that shutdown has a thread of its own, and that a context is a project and a case.

* `OpInv`: a row's request and key stay; the keys of activations are numbered as drawn, so that
  a new one is new; what is queued is known and queued once; and what was executed has a row
  and is not queued any more. `ExecutedOncePerKey` is a part of it. Every action of the session
  is one of seven `GatewayStep`s, so that the proof has seven cases instead of sixteen.
* `VisitInv`: while no activation failed, the vendor remembers what it found, or has not
  changed it. `CloseRestores` needs nothing of threads.
* `ServeInv`, for `EngineServesTheSession`: only the holder of the lock waits for an activation,
  and only while no context is active; the activation it waits for is the last one in the queue;
  and when it is done, the engine has its context and nothing that is queued will change it.
  Activations that were given up may still be queued, but only before it. The other steps are
  `Plain`: they submit no activation.
* `FinalInv`, for `OutcomesStay`: a row is never lost, and neither its request nor the outcome that
  settled it changes, over late returns of calls that were given up, owners built anew and
  restarts. It is what a caller that reads a row by its key may rely on, and stated here only: no
  run repeats it. What a running owner has queued waits; what another has may only be a call that
  was given up; and the keys of starts are numbered as drawn, since `_start` writes its row without
  looking for a former one.
* `ExecutionsAreOwned`, from the same invariant and also stated here only: the row of a load flow
  that was calculated is done or asks for reconciliation. None says cancelled or still waits, so who
  is told that may ask again under another key.
* `PlacesKnown` and `StatesKnown`, for `EveryWaitEnds`: every thread is at one of the places the
  code waits at, and the row it waits for there is stored and in one of the four states. It holds
  because rows are never lost (`OutcomesStay`), whichever owner took them. `NoCallIsStuck` is this
  seen from ENABLED: the row has answered, has denied, or is waited for until its deadline.

In `GatewayOwner` an operation that waits may pass its queue deadline wherever it is in the queue,
also behind a call that hangs and while the owner is quarantined, as `cancel_expired_queued` does
not ask for either. The run counts it as a fault and so has one of them; the theorems have any number.

`CalculationProofs` is about what a load flow stores, and needs `PageAssumption`: objects are
counted, and a page is not empty. A run is put together from rows of the table, which are never
changed once they are done. `PagesInv` says

* `TableTold` - what the rows of a key tell: the execution that a finished command names was
  performed for that key; a page was asked for with the cursor that the page before it returned
  (`Follows`), so that all pages of a key are of one execution and the nth begins at
  `n * PageSize`; and a page has values of objects that are not older than its execution
  (`PageTold`). That cursors are numbered as they are handed out is part of it, since a cursor
  that was handed out twice would let a page follow the wrong one;
* `FlowsTold` - a thread in the middle of a load flow has collected just those values;
* `RunsTold` - so has a run that was stored.

`ConvergedIsComplete` follows at once; `RetriesAgree` since a position lies on one page only
(`PagesApart`) and the row of that page is the same for both runs, whoever asked for it.

### Identities, graphs and evidence

`IdentityProofs` proves types, `RecreationNeedsProof` and `HistoryIsLinear` for any number of
curators. `IInv` adds `DecisionsRest` (a decision that is not stale still describes its
identity, which is why a write that was not overtaken is right), `CurrentIsLatest` and
`DeletionsAreProven`.

It also proves `IdentityIsStable` and `RevisionsFollow` of `GraphSpec`, for any number of
threads that extract, page by page, beside each other and beside edits. `GraphInv` adds to `IInv`
that whatever a thread or a revision has bound to a place has a locator there (`BindingsTold`),
and, since a thread reads the latest revision long before it stores its own, `RevisionsInv`: the
number a thread has drawn is at most one more than its context has revisions by now, and those
with lower numbers are not younger than the time it will write. What `latest()` returns is then a
matter of the texts: of any revisions there is one that none sorts after (`Sorted`), and a time
that is not later and yet sorts after another is on the second of it (`TextOrder`). The theorem
rests on `ClockAssumption`, and on the clock that does not go back. A proof attempt showed that numbering
new contexts by how many there are gives a number out twice after an extraction has failed, which
`uuid4` does not do; `FreshContext` is therefore unlike any context that a revision or a thread
has.

`EvidenceProofs` proves types, `ClassifiedByLiveEvidence` and
`ContradictionStays`: a record stands on observations that are never changed, each live read was
true when it was made, and the attribute's history only grows. The workflow and
the engine do what they like meanwhile.

### The harness

`HarnessProofs` proves `LedgerUndoes` of `HarnessSpec`, for any targets, values, workflows and
writers beside it. A rollback is drawn up from the ledger in one step and executed in another, and
others write between; so `HarnessInv` says what a document that is drawn up or authorized still
tells of the ledger (`DrawnUp`), what an effect overwrote (`EffectTold`), that an authorization is
spent on one effect and the version of a recorded one is used up (`Spent`, without which two
effects of one version are not excluded), and that the nth entry of the ledger is the nth recorded
change (`LedgerTold`, by counting: the property names the change of an entry by its position).

### The pure parts

`DiffTellsTheRefresh` is proved of any graph and any refresh (`IdentityProofs`),
`TrendsFollowOverlays` of any measurements (`CalculationProofs`), from `ComparisonsAssumption`:
the snapshots that are compared have the same definition ids, since `compare_result_snapshots`
refuses others. The runs evaluate all these assumptions.

`QueriesAgree` is proved of every graph that a snapshot may hold, from `SnapshotsAssumption`:
a stored graph is finite and has passed the checks of `GraphSnapshot.__post_init__`. What has to
be shown of `Reach`, and of walks, is true by induction over a depth. The theorem of the
library that states induction takes an operator; `InductionOverSets` states it of a set of
numbers instead, and follows from the well-foundedness of `<`. With it:

* what is reached within n hops is what is reached by the next hop from n - 1; it only grows, and
  stands still at the latest after as many hops as there are assets, so that a component is
  closed under relationships. Reaching goes both ways, and `ComponentsPartition` follows: the
  components are a partition of the assets;
* a walk of n hops over some of the assets ends at what n hops reach, and what is reached is
  reached by a walk; a shortest walk is no longer than there are assets. `ShortestPathsAreFound`
  follows: `electrical_path` finds a path exactly if both ends are energized and any walk over
  energized assets joins them, and finds one of the shortest.

### Not proved

Model-checked only: all liveness (`QueuedIsDecided`, `HungCallIsQuarantined`, `WaiterIsAnswered`,
`EveryOperationSettles`), and `NoCallIsStuck`, which says ENABLED; `NoWaitIsLost` proves what lies
behind it. Both are out of the prover's reach. Every other property of the passing runs is stated
by a theorem.

## What is not modelled

Within modelled parts: audit and lease events, which are written in the transaction of the
change they describe; payloads, digests and documents beyond equality; idempotent replays of
workflow commands and admissions, which change nothing; `wait_for_terminal` and `status`, which
only read. Handlers do what they like. `KeyboardInterrupt` and other `BaseException`s inside a
handler are not considered. A SQLite commit whose outcome the caller does not learn is covered
for the worker by `Crash` and the two fault actions only at the granularity of whole
transactions.

Of the session: the responses and errors of the read tools, discovery before a context is
chosen, authentication and routing. `GatewayOwner` has no client time-outs recorded in rows and
no recovery of rows at construction beyond what `Restart` does, since `SerializedWorker` has
them; a start call of an owner that `StartFails` dropped is not followed further, which is the
case of `worker_replaced`. Of the model graph: attributes, containment, freshness documents and
the readers of one asset. Of the calculations: aggregates, unit conversion, ranked queries. Of
the harness: its load flows and inventory pages, which change no value.

Parts with status `not_modelled` in `PROJECT.json`: the inventory is pure projection of one
immutable snapshot; probes, serialization, settings and the command line are translation and
I/O without shared state; the installer copies files in one process and nothing runs beside it.

## What is left

1. That `GatewayOwner` is implemented by `SerializedWorker`, which needs results in the rows of
   the latter; today both are related through `OperationLedger` only by the reader.
2. Two workflows in the harness, whose versions then part from the workspace's.
