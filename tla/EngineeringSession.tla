------------------------- MODULE EngineeringSession -------------------------
(***************************************************************************)
(* One MCP session: SessionController of mcp/server.py over the runtime of *)
(* mcp/runtime.py over its owner and gateway.  Threads of tool calls open  *)
(* a project context or run a validated load flow; another thread shuts    *)
(* the session down; the process may end at any point and is started anew  *)
(* on the same database.                                                   *)
(*                                                                         *)
(* A step of a thread ends where it waits for the owner.  The controller's *)
(* lock is held during a whole admission; other tools only look at the     *)
(* active context under it and run beside each other and beside shutdown.  *)
(***************************************************************************)
EXTENDS LoadFlow

CONSTANTS Closer,       \* the thread of shutdown()
          Contexts,     \* the project contexts that callers ask for
          Extracted,    \* the context whose model graph the database holds
          MaxCalls,     \* tool calls in all
          MaxFaults     \* operations cancelled or hung, and ends of the process

\* A thread is not what a free lock is held by, shutdown has a thread of its own, and
\* a context is a project and a case.
ASSUME SessionAssumption ==
  /\ Nothing \notin Callers \cup {Closer}
  /\ Closer \notin Callers
  /\ \A r \in Contexts : r = [project |-> r.project, case |-> r.case]

VARIABLES active,   \* SessionController._active_context
          holder,   \* the thread that holds SessionController._lock
          closing,  \* _shutdown_started
          started,  \* PowerFactoryEngineeringRuntime._started
          context,  \* PowerFactoryEngineeringRuntime._context
          calls, faults  \* history: how many

controllerVars == <<active, holder, closing>>
runtimeVars == <<started, context>>
sessionVars == <<controllerVars, runtimeVars, calls, faults, flowVars>>

Threads == Callers \cup {Closer}
Locked == holder # Nothing

SessionInit == /\ GatewayInit
               /\ call = [t \in Threads |-> Idle]
               /\ runs = {}
               /\ active = NoContext
               /\ holder = Nothing
               /\ closing = FALSE
               /\ started = FALSE
               /\ context = NoContext
               /\ calls = 0
               /\ faults = 0

-----------------------------------------------------------------------------
\* open_project_context() with a confirmed choice, and no context active: the
\* lock is taken, and the runtime is started or asked to activate.  Every other
\* request is answered at once and changes nothing.
AdmitsContext == ~Locked /\ ~closing /\ active = NoContext

\* _start(): a new vendor, gateway and owner, and the start of the session.
BuildOwner(t, r) ==
  LET k == FreshKey("start") IN
  /\ operation' = With(k, r)
  /\ queue' = <<k>>
  /\ owner' = "running"
  /\ vendor' = NewVendor
  /\ adapter' = NewAdapter
  /\ UNCHANGED <<engine, executed, visit>>
  /\ call' = [call EXCEPT ![t] = [Idle EXCEPT !.pc = "start", !.op = k, !.context = r]]
  /\ holder' = t

SubmitActivate(t, r) ==
  LET k == FreshKey("activate") IN
  /\ SubmitOrRaise(t, k, [context |-> r], [Idle EXCEPT !.pc = "activate", !.context = r])
  /\ holder' = IF Admits(k, [context |-> r]) THEN t ELSE Nothing
  /\ UNCHANGED <<adapter, visit, vendorVars>>

OpenContext(t, r) ==
  /\ call[t].pc = "idle"
  /\ calls < MaxCalls
  /\ calls' = calls + 1
  /\ AdmitsContext
  /\ IF started THEN SubmitActivate(t, r) ELSE BuildOwner(t, r)
  /\ UNCHANGED <<runs, active, closing, runtimeVars, faults>>

\* The session was started: the context is activated next.
SessionStarted(t) == /\ call[t].pc = "start"
                     /\ Answered(t)
                     /\ started' = TRUE
                     /\ SubmitActivate(t, call[t].context)
                     /\ UNCHANGED <<runs, active, closing, context, calls, faults>>

\* It was not, or not in time: the owner is shut down and forgotten.
StartFails(t) == /\ call[t].pc = "start"
                 /\ Denied(t) \/ Unanswered(t)
                 /\ ShutdownSerialization("none")
                 /\ Returns(t)
                 /\ holder' = Nothing
                 /\ UNCHANGED <<runs, active, closing, runtimeVars, calls, faults,
                                adapter, visit, vendorVars>>

\* Fault: an activation that is not answered is taken for granted.
AdmittedUnanswered(t) == Answered(t) \/ Unanswered(t)

Activated(t) == Answered(t)

ContextActivated(t) == /\ call[t].pc = "activate"
                       /\ Activated(t)
                       /\ context' = call[t].context
                       /\ active' = call[t].context
                       /\ holder' = Nothing
                       /\ Returns(t)
                       /\ UNCHANGED <<runs, closing, started, calls, faults, gatewayVars>>

\* The tool reports an error; an activation that is late stays in the queue.
ActivationFails(t) == /\ call[t].pc = "activate"
                      /\ ~Activated(t)
                      /\ Denied(t) \/ Unanswered(t)
                      /\ holder' = Nothing
                      /\ Returns(t)
                      /\ UNCHANGED <<runs, active, closing, runtimeVars, calls, faults,
                                     gatewayVars>>

-----------------------------------------------------------------------------
\* run_validated_load_flow: run_contextual_tool() looks at the active context
\* under the lock and goes on without it.
CallLoadFlow(t, key) ==
  /\ call[t].pc = "idle"
  /\ ~Locked
  /\ active # NoContext
  /\ calls < MaxCalls
  /\ calls' = calls + 1
  /\ call' = [call EXCEPT ![t] = [Idle EXCEPT !.pc = "called", !.key = key]]
  /\ UNCHANGED <<runs, controllerVars, runtimeVars, faults, gatewayVars>>

\* _ensure_snapshot(): the latest snapshot must be of the active context
\* (GraphContextMismatchError); then the service submits the command.
BeginLoadFlow(t) ==
  /\ call[t].pc = "called"
  /\ IF context = Extracted THEN SubmitExecute(t, context)
                            ELSE Returns(t) /\ UNCHANGED ownerVars
  /\ UNCHANGED <<runs, adapter, visit, vendorVars, controllerVars, runtimeVars, calls, faults>>

LoadFlowStep(t) == FlowStep(t) /\ UNCHANGED <<controllerVars, runtimeVars, calls, faults>>

-----------------------------------------------------------------------------
\* shutdown(): once; the lock is waited for, and given back before the close.
BeginShutdown == /\ ~Locked
                 /\ ~closing
                 /\ closing' = TRUE
                 /\ call' = [call EXCEPT ![Closer].pc = "closing"]
                 /\ UNCHANGED <<runs, active, holder, runtimeVars, calls, faults, gatewayVars>>

\* PowerFactoryEngineeringRuntime.close(): nothing without an owner; else the
\* session's close is submitted, and refused if the owner is quarantined.
SubmitClose ==
  LET k == FreshKey("close") IN
  /\ call[Closer].pc = "closing"
  /\ UNCHANGED <<runs, controllerVars, runtimeVars, calls, faults, adapter, visit, vendorVars>>
  /\ IF owner = "none" THEN Returns(Closer) /\ UNCHANGED ownerVars
     ELSE IF Admits(k, <<>>) THEN Enqueue(k, <<>>) /\ Waits(Closer, "close", k)
     ELSE ShutdownSerialization("closed") /\ Returns(Closer)

\* Whatever became of the close, the owner is shut down.
FinishClose == /\ call[Closer].pc = "close"
               /\ Settled(Op(Closer)) \/ Unanswered(Closer)
               /\ ShutdownSerialization("closed")
               /\ Returns(Closer)
               /\ UNCHANGED <<runs, controllerVars, runtimeVars, calls, faults, adapter,
                              visit, vendorVars>>

-----------------------------------------------------------------------------
\* The owner thread performs the next operation, or comes back late from the
\* call it hung in.
OwnerServes == /\ owner # "none"
               /\ queue # <<>>
               /\ Serve(NextServed)
               /\ UNCHANGED <<call, runs, controllerVars, runtimeVars, calls, faults>>

\* The call it is in does not come back in time.
OwnerStops == /\ queue # <<>>
              /\ faults < MaxFaults
              /\ faults' = faults + 1
              /\ Quarantine(NextServed)
              /\ UNCHANGED <<call, runs, controllerVars, runtimeVars, calls,
                             adapter, visit, vendorVars>>

\* An operation that waits is past its queue deadline.
QueueExpires == /\ faults < MaxFaults
                /\ faults' = faults + 1
                /\ \E i \in DOMAIN queue : CancelQueued(i)
                /\ UNCHANGED <<call, runs, controllerVars, runtimeVars, calls,
                               adapter, visit, vendorVars>>

\* The process ends, wherever its threads are, and another is started: what was
\* queued is cancelled, and what was in flight is left for reconciliation, whether
\* the engine had performed it or not.  The engine is a new one.
Orphans(k) == [x \in DOMAIN operation |->
                 IF x = k THEN [operation[x] EXCEPT !.state = "unknown"] ELSE Cancelled[x]]

MayHaveExecuted(k) == k[1] = "execute" /\ Executes(Request(k))

EndsInCall(k) == /\ operation' = Orphans(k)
                 /\ \/ UNCHANGED executed
                    \/ MayHaveExecuted(k) /\ executed' = Append(executed, Request(k).key)

Restart == /\ faults < MaxFaults
           /\ faults' = faults + 1
           /\ \/ operation' = Cancelled /\ UNCHANGED executed
              \/ queue # <<>> /\ EndsInCall(NextServed)
           /\ queue' = <<>>
           /\ owner' = "none"
           /\ vendor' = NewVendor
           /\ adapter' = NewAdapter
           /\ \E c \in Opened : engine' = FreshEngine(c) /\ visit' = NewVisit(c)
           /\ call' = [t \in Threads |-> Idle]
           /\ active' = NoContext
           /\ holder' = Nothing
           /\ closing' = FALSE
           /\ started' = FALSE
           /\ context' = NoContext
           /\ UNCHANGED <<runs, calls>>

\* What a thread that was called does on its own account.
Proceeds(t) == \/ SessionStarted(t) \/ StartFails(t)
               \/ ContextActivated(t) \/ ActivationFails(t)
               \/ BeginLoadFlow(t) \/ LoadFlowStep(t)

SessionNext == \/ \E t \in Callers : \/ \E r \in Contexts : OpenContext(t, r)
                                     \/ \E key \in FlowKeys : CallLoadFlow(t, key)
                                     \/ Proceeds(t)
               \/ BeginShutdown \/ SubmitClose \/ FinishClose
               \/ OwnerServes
               \/ OwnerStops \/ QueueExpires
               \/ Restart

SessionSpec == SessionInit /\ [][SessionNext]_sessionVars

-----------------------------------------------------------------------------
\* The project and study case that are active in the engine are those the
\* session has admitted, although activations that were given up may still be
\* performed, and the session may be closed meanwhile
\* (SessionController.open_project_context, _await, the order of the owner).
EngineServesTheSession ==
  active # NoContext /\ adapter.started =>
    engine.active = active /\ adapter.context = active

\* A load flow is computed at most once for an idempotency key, over retries,
\* time-outs and faults (operation_store admit, execute_command).
ExecutedOncePerKey == \A i, j \in DOMAIN executed : executed[i] = executed[j] => i = j

\* Runs that converged for one key agree in their values, whichever attempt
\* collected which page (_collect_metrics, the keys of its pages).
RetriesAgree == \A a, b \in runs :
  a.state = "CONVERGED" /\ b.state = "CONVERGED" /\ a.key = b.key =>
    a.values = b.values /\ a.execution = b.execution

\* A run that converged has a value for each object of its catalog, none of
\* them older than the command it names, and that command was performed for
\* its key; any other run has no values (run_validated_load_flow, record).
ConvergedIsComplete == \A run \in runs :
  IF run.state = "CONVERGED"
  THEN /\ Len(run.values) = Objects
       /\ executed[run.execution] = run.key
       /\ \A i \in DOMAIN run.values : run.values[i] >= run.execution
  ELSE run.values = <<>>

\* When the close of a session succeeded, what was active before the session is
\* active again, if all its activations succeeded and anything was active at all
\* (VendorCloses, PowerFactoryEngineeringRuntime.close).
CloseRestores ==
  visit.closed = "restored" /\ ~visit.failed /\ visit.found.project # Nothing =>
    engine.active = visit.found

\* The same without the first premise: attached cleanup attempts "to restore the
\* exact prior project and study-case context when the service changed it".
PriorContextRestored ==
  visit.closed = "restored" /\ visit.found.project # Nothing =>
    engine.active = visit.found

\* No tool call and no shutdown depends on the engine, the owner or another
\* thread to go on: each wait ends by itself (_await, shutdown_serialization).
NoCallIsStuck ==
  /\ \A t \in Callers : call[t].pc # "idle" => ENABLED Proceeds(t)
  /\ call[Closer].pc # "idle" => ENABLED (SubmitClose \/ FinishClose)
=============================================================================
