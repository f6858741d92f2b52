------------------------------ MODULE LoadFlow ------------------------------
(***************************************************************************)
(* A validated load flow: LoadFlowService of operations/calculations.py,   *)
(* from the submission of the command to the one transaction in which the  *)
(* run and its result snapshot are stored (persistence/calculation_store). *)
(* The caller's thread waits for each operation with a deadline; every     *)
(* operation has a key derived from the caller's, so that a retry is       *)
(* answered with the rows of the former attempt.                           *)
(*                                                                         *)
(* Abstractions.  The input digest is the context and the key; run ids,    *)
(* times, logs and diagnostics are left out, so that the table is a set; a *)
(* result value is the execution it was calculated by.                     *)
(***************************************************************************)
EXTENDS Gateway

CONSTANTS Callers,   \* threads of tool calls
          FlowKeys   \* idempotency keys of load flows

VARIABLES call,  \* where each thread is, with its locals
          runs   \* calculation_runs and calculation_snapshots

flowVars == <<call, runs, gatewayVars>>

Idle == [pc |-> "idle", key |-> Nothing, op |-> <<>>, context |-> NoContext,
         execution |-> 0, values |-> <<>>]

Waits(t, pc, k) == call' = [call EXCEPT ![t].pc = pc, ![t].op = k]
Returns(t) == call' = [call EXCEPT ![t] = Idle]

\* The operation a thread waits for.
Op(t) == call[t].op
Answered(t) == State(Op(t)) = "done"
Denied(t) == State(Op(t)) \in {"cancelled", "unknown"}
\* Fault: a wait has no deadline.
NeverGivenUp(t) == FALSE

\* The deadline of the wait passes first; the operation is not cancelled.
Unanswered(t) == State(Op(t)) = "waiting"

\* Submits k and goes on waiting for it as next says, or lets the exception of
\* the refusal out.
SubmitOrRaise(t, k, r, next) ==
  IF Admits(k, r) THEN Enqueue(k, r) /\ call' = [call EXCEPT ![t] = [next EXCEPT !.op = k]]
                  ELSE Returns(t) /\ UNCHANGED ownerVars

-----------------------------------------------------------------------------
\* CalculationStore.record(): the run and, if it converged, its snapshot.
Run(t, state, execution, values) ==
  [key |-> call[t].key, context |-> call[t].context, state |-> state,
   execution |-> execution, values |-> values]

Record(t, run) == runs' = runs \cup {run} /\ Returns(t)

\* The digest is taken of the context c and the command is submitted.
SubmitExecute(t, c) ==
  SubmitOrRaise(t, <<"execute", call[t].key>>, [context |-> c, key |-> call[t].key],
                [call[t] EXCEPT !.pc = "execute", !.context = c])

\* No outcome of the command: the run is stored as failed.
ExecuteLost(t) == /\ call[t].pc = "execute"
                  /\ Denied(t) \/ Unanswered(t)
                  /\ Record(t, Run(t, "FAILED", 0, <<>>))
                  /\ UNCHANGED gatewayVars

SubmitLogs(t) ==
  LET k == <<"logs", call[t].key>>
      r == [execution |-> Result(Op(t)).execution] IN
  /\ call[t].pc = "execute"
  /\ Answered(t)
  /\ SubmitOrRaise(t, k, r, [call[t] EXCEPT !.pc = "logs", !.execution = r.execution])
  /\ UNCHANGED <<runs, adapter, visit, vendorVars>>

ResultsRequest(t, cursor) == [context |-> call[t].context,
                              execution |-> call[t].execution, cursor |-> cursor]

\* Fault: each attempt collects under keys of its own.
ResultsKeyOfAttempt(t, n) ==
  <<"results", <<call[t].key, n, Cardinality(DOMAIN operation)>>>>

\* The page is named by the number of cursors seen before it.
ResultsKey(t, n) == <<"results", <<call[t].key, n>>>>

Succeeded(t) == Result(<<"execute", call[t].key>>).ok

\* With the logs or, when they do not come, without: a command that did not
\* succeed is stored as not converged, and of one that did the first page is
\* asked for.
AfterLogs(t) ==
  LET k == ResultsKey(t, 0)
      r == ResultsRequest(t, <<>>) IN
  /\ call[t].pc = "logs"
  /\ UNCHANGED <<adapter, visit, vendorVars>>
  /\ IF ~Succeeded(t)
     THEN /\ Record(t, Run(t, "NOT_CONVERGED", call[t].execution, <<>>))
          /\ UNCHANGED ownerVars
     ELSE /\ SubmitOrRaise(t, k, r, [call[t] EXCEPT !.pc = "results"])
          /\ UNCHANGED runs

\* A page did not come: what was collected is dropped, and the run has failed.
LostRun(t) == Run(t, "FAILED", call[t].execution, <<>>)
ResultsLost(t) == /\ call[t].pc = "results"
                  /\ Denied(t) \/ Unanswered(t)
                  /\ Record(t, LostRun(t))
                  /\ UNCHANGED gatewayVars

\* Another page, or the last: the run has converged and is stored with it.
TakePage(t) ==
  LET values == call[t].values \o Result(Op(t)).values
      next == Result(Op(t)).next
      n == Op(t)[2][2] + 1 IN
  /\ call[t].pc = "results"
  /\ Answered(t)
  /\ UNCHANGED <<adapter, visit, vendorVars>>
  /\ IF next = <<>>
     THEN /\ Record(t, Run(t, "CONVERGED", call[t].execution, values))
          /\ UNCHANGED ownerVars
     ELSE /\ SubmitOrRaise(t, ResultsKey(t, n), ResultsRequest(t, next),
                           [call[t] EXCEPT !.values = values])
          /\ UNCHANGED runs

FlowStep(t) == ExecuteLost(t) \/ SubmitLogs(t) \/ AfterLogs(t) \/ ResultsLost(t)
               \/ TakePage(t)
=============================================================================
