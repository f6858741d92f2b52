-------------------------- MODULE ReplacementOwner --------------------------
(***************************************************************************)
(* How mcp/runtime.py uses a worker.  PowerFactoryEngineeringRuntime._start*)
(* builds an owner over the installation's store and waits for its session *)
(* to start; if that fails it calls shutdown_serialization, drops the      *)
(* owner whatever close() answered, and a later activate_context builds    *)
(* another one, in the same process and over the same store.               *)
(***************************************************************************)
EXTENDS SerializedWorker

\* close() answered False: the thread of the former owner may still be inside a
\* native call, and goes on when it returns.
Replace ==
  /\ worker[current].closer = "failed"
  /\ current < MaxWorkers
  /\ ClientsIdle
  /\ current' = current + 1
  /\ worker' = [worker EXCEPT ![current + 1].life = "reconciling"]
  /\ UNCHANGED <<storeVars, owner, watchdog, client, calls, faults>>

RuntimeNext == Next \/ Replace

RuntimeSpec == Init /\ [][RuntimeNext]_vars

FairRuntimeSpec == RuntimeSpec /\ Fairness
=============================================================================
