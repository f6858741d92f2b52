--------------------------- MODULE OperationStore ---------------------------
(***************************************************************************)
(* The durable operation records of persistence/operation_store.py.  Each  *)
(* operator below is one SQL transaction of OperationStore (BEGIN          *)
(* IMMEDIATE ... COMMIT), so it is one atomic step; the modules of the     *)
(* threads that call the store say when a step is taken.                   *)
(*                                                                         *)
(* Abstractions.  A unique index binds one record to one idempotency key,  *)
(* so the key stands for the operation id.  The handler name and payload   *)
(* of a request are one value of Requests.  The three deadlines are the    *)
(* set due[k] of the deadlines that have passed: wall-clock time is only   *)
(* ever compared with them.  The result or error document is only its kind *)
(* (outcome).  The row version, which no caller compares, is left out.     *)
(***************************************************************************)
EXTENDS Naturals, Sequences, FiniteSets

CONSTANTS Keys,      \* idempotency keys
          Requests,  \* handler name and payload
          NoRequest  \* the request of a key that has no row

ASSUME NoRequestAssumption == NoRequest \notin Requests

VARIABLES rec,    \* operation_records, by idempotency key
          order,  \* the keys in the order of the AUTOINCREMENT column sequence
          due     \* the deadlines of a key's record that have passed

storeVars == <<rec, order, due>>

Deadlines == {"queue", "client", "health"}

\* The states in which a handler was started and no outcome is recorded.
InFlight == {"IN_FLIGHT", "CLIENT_TIMED_OUT", "ENGINE_UNRESPONSIVE"}

TERMINAL_STATES ==
  {"CANCELLED_BEFORE_START", "COMPLETED", "COMPLETED_AFTER_CLIENT_TIMEOUT",
   "FAILED", "RECONCILIATION_REQUIRED"}

OperationState == {"QUEUED"} \cup InFlight \cup TERMINAL_STATES

OperationRecord ==
  [state : OperationState \cup {"ABSENT"},
   request : Requests \cup {NoRequest},
   outcome : {"none", "result", "error"}]

NoRow == [state |-> "ABSENT", request |-> NoRequest, outcome |-> "none"]

Exists(k) == rec[k].state # "ABSENT"
Terminal(k) == rec[k].state \in TERMINAL_STATES

StoreTypeOK == /\ rec \in [Keys -> OperationRecord]
               /\ order \in Seq(Keys)
               /\ due \in [Keys -> SUBSET Deadlines]

StoreInit == /\ rec = [k \in Keys |-> NoRow]
             /\ order = <<>>
             /\ due = [k \in Keys |-> {}]

-----------------------------------------------------------------------------
\* The key is new: its row is inserted, with all its deadlines ahead.
Admit(k, r) ==
  /\ ~Exists(k)
  /\ rec' = [rec EXCEPT ![k] =
               [state |-> "QUEUED", request |-> r, outcome |-> "none"]]
  /\ order' = Append(order, k)
  /\ UNCHANGED due

\* Fault: the stored request is not compared with the new one.
ReplaysAnyRequest(k, r) == Exists(k)

\* The key is bound: the same request is answered with its row ...
Replays(k, r) == Exists(k) /\ rec[k].request = r
\* ... and a different one is refused (IdempotencyConflictError).
Conflicts(k, r) == Exists(k) /\ rec[k].request # r

\* The compare-and-swap every single-row change goes through.
Transition(k, expected, target) ==
  /\ rec[k].state \in expected
  /\ rec' = [rec EXCEPT ![k].state = target]
  /\ UNCHANGED <<order, due>>

TransitionWith(k, expected, target, outcome) ==
  /\ rec[k].state \in expected
  /\ rec' = [rec EXCEPT ![k].state = target, ![k].outcome = outcome]
  /\ UNCHANGED <<order, due>>

\* InvalidOperationTransitionError: the row is in none of the expected states.
Refused(k, expected) == rec[k].state \notin expected /\ UNCHANGED storeVars

\* Fault: a row that was cancelled meanwhile is started.
StartOverCancelled(k) ==
  Transition(k, {"QUEUED", "CANCELLED_BEFORE_START"}, "IN_FLIGHT")

Start(k) == Transition(k, {"QUEUED"}, "IN_FLIGHT")
CancelBeforeStart(k) == Transition(k, {"QUEUED"}, "CANCELLED_BEFORE_START")
MarkClientTimedOut(k) == Transition(k, {"IN_FLIGHT"}, "CLIENT_TIMED_OUT")

Responsive == {"IN_FLIGHT", "CLIENT_TIMED_OUT"}
MarkEngineUnresponsive(k) == Transition(k, Responsive, "ENGINE_UNRESPONSIVE")
Fail(k) == TransitionWith(k, Responsive, "FAILED", "error")
RequireReconciliation(k) ==
  TransitionWith(k, InFlight, "RECONCILIATION_REQUIRED", "error")

\* The state a returned result leads to: after the engine was declared
\* unresponsive it only asks for reconciliation.
CompletedState(k) ==
  CASE rec[k].state = "ENGINE_UNRESPONSIVE" -> "RECONCILIATION_REQUIRED"
    [] rec[k].state = "CLIENT_TIMED_OUT" \/ "client" \in due[k]
         -> "COMPLETED_AFTER_CLIENT_TIMEOUT"
    [] OTHER -> "COMPLETED"

Complete(k) == TransitionWith(k, InFlight, CompletedState(k), "result")

-----------------------------------------------------------------------------
\* Every row whose state is in "from" moves to "to".
MoveAll(keys, from, to) ==
  /\ rec' = [k \in Keys |->
               IF k \in keys /\ rec[k].state \in from
               THEN [rec[k] EXCEPT !.state = to] ELSE rec[k]]
  /\ UNCHANGED <<order, due>>

\* Fault: what a former process left in flight is queued again.
RequeueOrphans == MoveAll(Keys, InFlight, "QUEUED")

ReconcileOrphans == MoveAll(Keys, InFlight, "RECONCILIATION_REQUIRED")
CancelAllQueued == MoveAll(Keys, {"QUEUED"}, "CANCELLED_BEFORE_START")
\* Fault: no queued row is ever found expired.
CancelNoneExpired == MoveAll({}, {"QUEUED"}, "CANCELLED_BEFORE_START")

CancelExpiredQueued ==
  MoveAll({k \in Keys : "queue" \in due[k]}, {"QUEUED"}, "CANCELLED_BEFORE_START")

\* Wall-clock time reaches a deadline of an existing row.  The health threshold
\* counts from the start of the handler; the queue deadline is read of QUEUED
\* rows only, and the others of rows that are not terminal.
DeadlinePasses(k, d) ==
  /\ d \notin due[k]
  /\ d = "queue" => rec[k].state = "QUEUED"
  /\ d = "client" => rec[k].state = "QUEUED" \/ rec[k].state \in Responsive
  /\ d = "health" => rec[k].state \in Responsive
  /\ due' = [due EXCEPT ![k] = @ \cup {d}]
  /\ UNCHANGED <<rec, order>>
=============================================================================
