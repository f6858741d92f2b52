---------------------------- MODULE GatewayOwner ----------------------------
(***************************************************************************)
(* The serialized owner of gateway/owner.py as its callers in the runtime  *)
(* see it: typed submissions that become durable operations, one thread    *)
(* that performs them first come, first served, and results read back by   *)
(* key.  It is the abstraction of SerializedWorker that OperationLedger    *)
(* states: an operation waits, is performed at most once, and ends as      *)
(* done, cancelled or unknown.  None ends as FAILED: that state is for a   *)
(* KnownOperationFailure, and no gateway error is one.                     *)
(*                                                                         *)
(* A row is kept under its idempotency key.  Keys the code draws with      *)
(* uuid4 are <<kind, n>>; the keys of a load flow derive from its caller's. *)
(***************************************************************************)
EXTENDS Naturals, Sequences, FiniteSets

VARIABLES owner,      \* the SerializedPowerFactoryOwner of the runtime
          operation,  \* operation_records: key -> request, state, result
          queue       \* the keys admitted and not yet performed

ownerVars == <<owner, operation, queue>>

\* owner is "none", "running", "quarantined" or "closed"; a row is "waiting" until it
\* is "done", "cancelled" or, its outcome left for reconciliation, "unknown".
OwnerInit == /\ owner = "none"
             /\ operation = <<>>
             /\ queue = <<>>

Known(k) == k \in DOMAIN operation
State(k) == operation[k].state
Result(k) == operation[k].result
Settled(k) == State(k) # "waiting"

\* The key uuid4() draws for the next operation of this kind.
FreshKey(kind) == <<kind, Cardinality({k \in DOMAIN operation : k[1] = kind})>>

-----------------------------------------------------------------------------
\* What submit() lets in: a known key is answered with its row, whatever the
\* owner does, if the request is the same; a new one needs a running owner.
Admits(k, r) == IF Known(k) THEN operation[k].request = r ELSE owner = "running"

Row(r) == [request |-> r, state |-> "waiting", result |-> <<>>]
With(k, r) == [x \in DOMAIN operation \cup {k} |-> IF x = k THEN Row(r) ELSE operation[x]]

\* Fault: a row without an outcome is queued once more.
EnqueuesAgain(k, r) ==
  IF Known(k) /\ State(k) \notin {"cancelled", "unknown"} THEN UNCHANGED ownerVars
  ELSE operation' = With(k, r) /\ queue' = Append(queue, k) /\ UNCHANGED owner

Enqueue(k, r) ==
  IF Known(k) THEN UNCHANGED ownerVars
  ELSE operation' = With(k, r) /\ queue' = Append(queue, k) /\ UNCHANGED owner

\* The operation the owner thread takes.
NextServed == Head(queue)

\* What the handler of k, which is served next, came to is recorded; when it is
\* late, the row stays in need of reconciliation.
Concludes(k, state, x) ==
  /\ operation' = [operation EXCEPT ![k] =
                      IF Settled(k) THEN @ ELSE [@ EXCEPT !.state = state, !.result = x]]
  /\ queue' = Tail(queue)
  /\ UNCHANGED owner

\* The handler of k returned x, or raised: then the row asks for reconciliation, also
\* where the handler refused before it did anything.
Done(k, x) == Concludes(k, "done", x)
Raised(k) == Concludes(k, "unknown", <<>>)

\* Its queue deadline passed before it was begun: the watchdog or the owner cancels
\* it, whatever is in front of it.
CancelQueued(i) ==
  /\ ~Settled(queue[i])
  /\ operation' = [operation EXCEPT ![queue[i]].state = "cancelled"]
  /\ queue' = [j \in 1..(Len(queue) - 1) |-> queue[IF j < i THEN j ELSE j + 1]]
  /\ UNCHANGED owner

\* The native call of k does not return in time: the watchdog quarantines the
\* owner.  The call goes on, and returns late or never; when it returns, what is
\* queued behind it is performed.
Quarantine(k) == /\ ~Settled(k)
                 /\ operation' = [operation EXCEPT ![k].state = "unknown"]
                 /\ owner' = "quarantined"
                 /\ UNCHANGED queue

\* The owner thread is in a call that was given up.
Hangs == queue # <<>> /\ Settled(NextServed)

\* shutdown_serialization(): what waits is cancelled, and nothing is admitted.  A
\* call that hangs goes on.
Cancelled == [k \in DOMAIN operation |->
                IF operation[k].state = "waiting"
                THEN [operation[k] EXCEPT !.state = "cancelled"] ELSE operation[k]]

ShutdownSerialization(s) == /\ operation' = Cancelled
                            /\ queue' = IF Hangs THEN <<NextServed>> ELSE <<>>
                            /\ owner' = s
=============================================================================
