-------------------------- MODULE SerializedWorker --------------------------
(***************************************************************************)
(* gateway/worker.py: a SerializedOperationWorker admits named operations  *)
(* durably, runs their handlers one at a time on one owner thread, and     *)
(* watches them from a watchdog thread.  The threads of one worker are its *)
(* owner, its watchdog, the thread that calls close(), and the clients     *)
(* that call submit(); they share the store, the queue and the flags, and  *)
(* interleave between any two store transactions or critical sections.     *)
(*                                                                         *)
(* A worker object is built over the store a former one left: after the    *)
(* process crashed, or after close() reported a clean stop.  Workers are   *)
(* numbered in the order they are built; current is the newest.  What a    *)
(* caller does after close() reported failure is in ReplacementOwner.      *)
(*                                                                         *)
(* calls is a history variable: how often the handler of a key was         *)
(* entered.  faults counts the store calls that raised an error other than *)
(* a refused transition (sqlite3.OperationalError), bounded by MaxFaults.  *)
(***************************************************************************)
EXTENDS OperationStore

CONSTANTS Clients,     \* threads that submit operations
          NoKey,       \* None, where an operation id may stand
          QueueSize,   \* max_queue_size
          MaxWorkers,  \* bound: worker objects built over one store
          MaxFaults,   \* bound: store errors that end a thread
          MayClose     \* bound: whether anybody calls close()

ASSUME WorkerAssumption ==
  /\ NoKey \notin Keys
  /\ QueueSize \in Nat \ {0}
  /\ MaxWorkers \in Nat \ {0}
  /\ MaxFaults \in Nat
  /\ MayClose \in BOOLEAN

VARIABLES current,   \* the newest worker
          worker,    \* the fields of each worker object
          owner,     \* its owner thread
          watchdog,  \* its watchdog thread
          client,    \* the client threads
          calls,     \* handler invocations, by key
          faults     \* store errors so far

threadVars == <<worker, owner, watchdog, client>>
vars == <<rec, order, due, current, worker, owner, watchdog, client, calls, faults>>

Workers == 1..MaxWorkers

WorkerObject ==
  [life : {"unbuilt", "reconciling", "cancelling", "running", "crashed"},
   queue : Seq(Keys),
   stopping : BOOLEAN,
   quarantined : BOOLEAN,
   active : Keys \cup {NoKey},
   lock : {"free", "client", "closer", "watchdog"},
   closer : {"none", "stopping", "joining", "marking", "failing",
             "joining_watchdog", "failed", "closed"},
   drain : Keys \cup {NoKey}]

OwnerThread ==
  [pc : {"unborn", "idle", "taken", "expiring", "starting", "claimed", "native",
         "returned", "reconciling", "clearing", "dead"},
   op : Keys \cup {NoKey},
   result : {"none", "ok", "known_failure", "uncertain"}]

WatchdogThread ==
  [pc : {"unborn", "sweeping", "probing", "waiting_lock", "marking", "dead"},
   stopping : BOOLEAN,
   active : Keys \cup {NoKey}]

ClientThread ==
  [pc : {"idle", "checking", "admitting", "putting", "waiting", "timing_out"},
   key : Keys \cup {NoKey},
   request : Requests \cup {NoRequest}]

TypeOK == /\ StoreTypeOK
          /\ current \in Workers
          /\ worker \in [Workers -> WorkerObject]
          /\ owner \in [Workers -> OwnerThread]
          /\ watchdog \in [Workers -> WatchdogThread]
          /\ client \in [Clients -> ClientThread]
          /\ calls \in [Keys -> Nat]
          /\ faults \in 0..MaxFaults

Blank(life) ==
  [life |-> life, queue |-> <<>>, stopping |-> FALSE, quarantined |-> FALSE,
   active |-> NoKey, lock |-> "free", closer |-> "none", drain |-> NoKey]
OwnerAt(pc) == [pc |-> pc, op |-> NoKey, result |-> "none"]
WatchdogAt(pc) == [pc |-> pc, stopping |-> FALSE, active |-> NoKey]
IdleClient == [pc |-> "idle", key |-> NoKey, request |-> NoRequest]

Init == /\ StoreInit
        /\ current = 1
        /\ worker = [w \in Workers |->
                       Blank(IF w = 1 THEN "reconciling" ELSE "unbuilt")]
        /\ owner = [w \in Workers |-> OwnerAt("unborn")]
        /\ watchdog = [w \in Workers |-> WatchdogAt("unborn")]
        /\ client = [c \in Clients |-> IdleClient]
        /\ calls = [k \in Keys |-> 0]
        /\ faults = 0

OwnerAlive(w) == owner[w].pc \notin {"unborn", "dead"}
-----------------------------------------------------------------------------
(* Construction: what a former worker left in flight is sent to            *)
(* reconciliation, what it left queued is cancelled, the threads start.    *)

ConstructReconcile(w) ==
  /\ worker[w].life = "reconciling"
  /\ ReconcileOrphans
  /\ worker' = [worker EXCEPT ![w].life = "cancelling"]
  /\ UNCHANGED <<current, owner, watchdog, client, calls, faults>>

ConstructCancel(w) ==
  /\ worker[w].life = "cancelling"
  /\ CancelAllQueued
  /\ worker' = [worker EXCEPT ![w].life = "running"]
  /\ owner' = [owner EXCEPT ![w] = OwnerAt("idle")]
  /\ watchdog' = [watchdog EXCEPT ![w] = WatchdogAt("sweeping")]
  /\ UNCHANGED <<current, client, calls, faults>>

-----------------------------------------------------------------------------
(* submit(), in the thread of a client, on the current worker.             *)

\* The admission lock is taken; the request names a registered handler.
SubmitEnter(c, k, r) ==
  /\ client[c].pc = "idle"
  /\ worker[current].life = "running"
  /\ worker[current].lock = "free"
  /\ client' = [client EXCEPT ![c] = [pc |-> "checking", key |-> k, request |-> r]]
  /\ worker' = [worker EXCEPT ![current].lock = "client"]
  /\ UNCHANGED <<storeVars, current, owner, watchdog, calls, faults>>

\* Fault: one entry too many.
AdmissibleWhenFull == /\ ~worker[current].stopping
                      /\ ~worker[current].quarantined
                      /\ Len(worker[current].queue) <= QueueSize

\* A new key is refused once the worker stops, is quarantined, or its queue is
\* full; a bound key goes on to the store whatever the worker's condition.
Admissible == /\ ~worker[current].stopping
              /\ ~worker[current].quarantined
              /\ Len(worker[current].queue) < QueueSize

SubmitCheck(c) ==
  /\ client[c].pc = "checking"
  /\ IF Exists(client[c].key) \/ Admissible
     THEN /\ client' = [client EXCEPT ![c].pc = "admitting"]
          /\ UNCHANGED worker
     ELSE /\ client' = [client EXCEPT ![c] = IdleClient]
          /\ worker' = [worker EXCEPT ![current].lock = "free"]
  /\ UNCHANGED <<storeVars, current, owner, watchdog, calls, faults>>

\* store.admit; a replay is answered with the stored row, and a request that
\* differs from the stored one with an error.
SubmitAdmit(c) ==
  LET k == client[c].key
      r == client[c].request IN
  /\ client[c].pc = "admitting"
  /\ \/ /\ Admit(k, r)
        /\ client' = [client EXCEPT ![c].pc = "putting"]
        /\ UNCHANGED worker
     \/ /\ Replays(k, r)
        /\ client' = [client EXCEPT ![c].pc = "waiting"]
        /\ worker' = [worker EXCEPT ![current].lock = "free"]
        /\ UNCHANGED storeVars
     \/ /\ Conflicts(k, r)
        /\ client' = [client EXCEPT ![c] = IdleClient]
        /\ worker' = [worker EXCEPT ![current].lock = "free"]
        /\ UNCHANGED storeVars
  /\ UNCHANGED <<current, owner, watchdog, calls, faults>>

\* Fault: the newest operation is put first.
SubmitPutFirst(c) ==
  /\ client[c].pc = "putting"
  /\ worker' = [worker EXCEPT ![current].queue = <<client[c].key>> \o @,
                              ![current].lock = "free"]
  /\ client' = [client EXCEPT ![c].pc = "waiting"]
  /\ UNCHANGED <<storeVars, current, owner, watchdog, calls, faults>>

\* Fault: the request is put where the operation id belongs.
SubmitPutRequest(c) ==
  /\ client[c].pc = "putting"
  /\ worker' = [worker EXCEPT ![current].queue = Append(@, client[c].request),
                              ![current].lock = "free"]
  /\ client' = [client EXCEPT ![c].pc = "waiting"]
  /\ UNCHANGED <<storeVars, current, owner, watchdog, calls, faults>>

SubmitPut(c) ==
  /\ client[c].pc = "putting"
  /\ worker' = [worker EXCEPT ![current].queue = Append(@, client[c].key),
                              ![current].lock = "free"]
  /\ client' = [client EXCEPT ![c].pc = "waiting"]
  /\ UNCHANGED <<storeVars, current, owner, watchdog, calls, faults>>

\* submit(wait=False), and the caller that does not wait for the outcome.
SubmitReturn(c) ==
  /\ client[c].pc = "waiting"
  /\ client' = [client EXCEPT ![c] = IdleClient]
  /\ UNCHANGED <<storeVars, current, worker, owner, watchdog, calls, faults>>

\* Fault: a client whose operation timed out goes on waiting for its end.
SettledAtEnd(k) == Terminal(k)

Settled(k) == Terminal(k) \/ rec[k].state \in {"CLIENT_TIMED_OUT", "ENGINE_UNRESPONSIVE"}

\* _wait_for_client reads the row.  At the client deadline an operation that is
\* in flight is to be marked; one that is still queued is returned as it is.
WaitLook(c) ==
  LET k == client[c].key IN
  /\ client[c].pc = "waiting"
  /\ Settled(k) \/ "client" \in due[k]
  /\ client' = [client EXCEPT ![c] =
                  IF rec[k].state = "IN_FLIGHT" THEN [@ EXCEPT !.pc = "timing_out"]
                  ELSE IdleClient]
  /\ UNCHANGED <<storeVars, current, worker, owner, watchdog, calls, faults>>

\* The mark may come too late: the row has moved on, and is read again.
WaitTimeOut(c) ==
  LET k == client[c].key IN
  /\ client[c].pc = "timing_out"
  /\ \/ /\ MarkClientTimedOut(k)
        /\ client' = [client EXCEPT ![c] = IdleClient]
     \/ /\ Refused(k, {"IN_FLIGHT"})
        /\ client' = [client EXCEPT ![c].pc = "waiting"]
  /\ UNCHANGED <<current, worker, owner, watchdog, calls, faults>>
-----------------------------------------------------------------------------
(* The owner thread: _owner_main and _execute.                             *)

OwnerGoes(w, pc) == owner' = [owner EXCEPT ![w].pc = pc]
OwnerIdles(w) == owner' = [owner EXCEPT ![w] = OwnerAt("idle")]
OwnerFrame == UNCHANGED <<current, watchdog, client, faults>>

OwnerStops(w) ==
  /\ owner[w].pc = "idle"
  /\ worker[w].stopping
  /\ worker[w].queue = <<>>
  /\ worker[w].active = NoKey
  /\ owner' = [owner EXCEPT ![w] = OwnerAt("dead")]
  /\ OwnerFrame /\ UNCHANGED <<storeVars, worker, calls>>

OwnerTakes(w) ==
  /\ owner[w].pc = "idle"
  /\ worker[w].queue # <<>>
  /\ owner' = [owner EXCEPT ![w].pc = "taken", ![w].op = Head(worker[w].queue)]
  /\ worker' = [worker EXCEPT ![w].queue = Tail(@)]
  /\ OwnerFrame /\ UNCHANGED <<storeVars, calls>>

\* Fault: a key past its queue deadline is dropped without cancelling its row.
OwnerDropsExpired(w) ==
  LET k == owner[w].op IN
  /\ owner[w].pc = "taken"
  /\ owner' = [owner EXCEPT ![w] =
                 IF rec[k].state # "QUEUED" \/ "queue" \in due[k] THEN OwnerAt("idle")
                 ELSE [@ EXCEPT !.pc = "starting"]]
  /\ OwnerFrame /\ UNCHANGED <<storeVars, worker, calls>>

\* The row is read: a key that is no longer queued is skipped, one past its
\* queue deadline is to be cancelled, any other to be started.
OwnerInspects(w) ==
  LET k == owner[w].op IN
  /\ owner[w].pc = "taken"
  /\ owner' = [owner EXCEPT ![w] =
                 IF rec[k].state # "QUEUED" THEN OwnerAt("idle")
                 ELSE [@ EXCEPT !.pc = IF "queue" \in due[k] THEN "expiring"
                                       ELSE "starting"]]
  /\ OwnerFrame /\ UNCHANGED <<storeVars, worker, calls>>

OwnerCancels(w) ==
  /\ owner[w].pc = "expiring"
  /\ CancelBeforeStart(owner[w].op) \/ Refused(owner[w].op, {"QUEUED"})
  /\ OwnerIdles(w)
  /\ OwnerFrame /\ UNCHANGED <<worker, calls>>

\* Fault: the refusal of the store is not noticed.
OwnerStartsUnchecked(w) ==
  /\ owner[w].pc = "starting"
  /\ Start(owner[w].op) \/ Refused(owner[w].op, {"QUEUED"})
  /\ OwnerGoes(w, "claimed")
  /\ OwnerFrame /\ UNCHANGED <<worker, calls>>

\* The row may have been cancelled since it was read.
OwnerStarts(w) ==
  /\ owner[w].pc = "starting"
  /\ \/ Start(owner[w].op) /\ OwnerGoes(w, "claimed")
     \/ Refused(owner[w].op, {"QUEUED"}) /\ OwnerIdles(w)
  /\ OwnerFrame /\ UNCHANGED <<worker, calls>>

\* Only now, in a step of its own, is the operation published as the active one,
\* and its handler entered.
OwnerCalls(w) ==
  LET k == owner[w].op IN
  /\ owner[w].pc = "claimed"
  /\ worker' = [worker EXCEPT ![w].active = k]
  /\ OwnerGoes(w, "native")
  /\ calls' = [calls EXCEPT ![k] = @ + 1]
  /\ OwnerFrame /\ UNCHANGED storeVars

\* The handler returns a result, guarantees that it failed without effect, or
\* raises (or returns what cannot be serialized), which proves nothing.
HandlerReturns(w, result) ==
  /\ owner[w].pc = "native"
  /\ owner' = [owner EXCEPT ![w].result = result,
                 ![w].pc = IF result = "uncertain" THEN "reconciling" ELSE "returned"]
  /\ OwnerFrame /\ UNCHANGED <<storeVars, worker, calls>>

\* Fault: a known failure that is refused is dropped like a refused result.
OwnerRecordsOnce(w) ==
  LET k == owner[w].op IN
  /\ owner[w].pc = "returned"
  /\ \/ owner[w].result = "ok" /\ (Complete(k) \/ Refused(k, InFlight))
     \/ owner[w].result = "known_failure" /\ (Fail(k) \/ Refused(k, Responsive))
  /\ OwnerGoes(w, "clearing")
  /\ OwnerFrame /\ UNCHANGED <<worker, calls>>

\* A result the store refuses is dropped; a known failure it refuses is sent to
\* reconciliation.
OwnerRecords(w) ==
  LET k == owner[w].op IN
  /\ owner[w].pc = "returned"
  /\ \/ /\ owner[w].result = "ok"
        /\ Complete(k) \/ Refused(k, InFlight)
        /\ OwnerGoes(w, "clearing")
     \/ /\ owner[w].result = "known_failure"
        /\ \/ Fail(k) /\ OwnerGoes(w, "clearing")
           \/ Refused(k, Responsive) /\ OwnerGoes(w, "reconciling")
  /\ OwnerFrame /\ UNCHANGED <<worker, calls>>

OwnerReconciles(w) ==
  LET k == owner[w].op IN
  /\ owner[w].pc = "reconciling"
  /\ RequireReconciliation(k) \/ Refused(k, InFlight)
  /\ OwnerGoes(w, "clearing")
  /\ OwnerFrame /\ UNCHANGED <<worker, calls>>

\* The finally clause.
ActiveCleared(w) ==
  [worker EXCEPT ![w].active = IF @ = owner[w].op THEN NoKey ELSE @]

OwnerClears(w) ==
  /\ owner[w].pc = "clearing"
  /\ worker' = ActiveCleared(w)
  /\ OwnerIdles(w)
  /\ OwnerFrame /\ UNCHANGED <<storeVars, calls>>

\* A store call raises an error that nobody handles: the finally clause runs,
\* and the thread ends.
OwnerFault(w) ==
  /\ owner[w].pc \in {"taken", "expiring", "starting", "returned", "reconciling"}
  /\ faults < MaxFaults
  /\ faults' = faults + 1
  /\ worker' = ActiveCleared(w)
  /\ owner' = [owner EXCEPT ![w] = OwnerAt("dead")]
  /\ UNCHANGED <<storeVars, current, watchdog, client, calls>>

OwnerStep(w) == \/ OwnerStops(w) \/ OwnerTakes(w) \/ OwnerInspects(w)
                \/ OwnerCancels(w) \/ OwnerStarts(w) \/ OwnerCalls(w)
                \/ OwnerRecords(w) \/ OwnerReconciles(w) \/ OwnerClears(w)
-----------------------------------------------------------------------------
(* The watchdog thread: _watchdog_main.                                    *)

WatchdogGoes(w, pc) == watchdog' = [watchdog EXCEPT ![w].pc = pc]
WatchdogFrame == UNCHANGED <<current, owner, client, calls, faults>>

\* A round begins: the flags are read under the state lock, and used after it is
\* released; queued rows past their deadline are cancelled.
WatchdogSweeps(w) ==
  /\ watchdog[w].pc = "sweeping"
  /\ ~(watchdog[w].stopping /\ ~OwnerAlive(w))
  /\ CancelExpiredQueued
  /\ watchdog' = [watchdog EXCEPT ![w] =
                    [pc |-> IF worker[w].active = NoKey THEN "sweeping" ELSE "probing",
                     stopping |-> worker[w].stopping,
                     active |-> worker[w].active]]
  /\ WatchdogFrame /\ UNCHANGED worker

\* The last round is one that began with the worker stopping and ended with its
\* owner gone.
WatchdogStops(w) ==
  /\ watchdog[w].pc = "sweeping"
  /\ watchdog[w].stopping
  /\ ~OwnerAlive(w)
  /\ watchdog' = [watchdog EXCEPT ![w] = WatchdogAt("dead")]
  /\ WatchdogFrame /\ UNCHANGED <<storeVars, worker>>

\* The end of what a round does with the active operation it saw.
RoundEnds(w) ==
  watchdog' = [watchdog EXCEPT ![w].pc = "sweeping", ![w].active = NoKey]

\* Fault: an operation whose client gave up is not watched any more.
WatchdogProbesWaited(w) ==
  LET k == watchdog[w].active IN
  /\ watchdog[w].pc = "probing"
  /\ IF rec[k].state = "IN_FLIGHT" /\ "health" \in due[k]
     THEN WatchdogGoes(w, "waiting_lock") ELSE RoundEnds(w)
  /\ WatchdogFrame /\ UNCHANGED <<storeVars, worker>>

WatchdogProbes(w) ==
  LET k == watchdog[w].active IN
  /\ watchdog[w].pc = "probing"
  /\ IF rec[k].state \in Responsive /\ "health" \in due[k]
     THEN WatchdogGoes(w, "waiting_lock") ELSE RoundEnds(w)
  /\ WatchdogFrame /\ UNCHANGED <<storeVars, worker>>

\* Fault: the row is marked without holding the admission lock.
WatchdogMarksUnlocked(w) ==
  LET k == watchdog[w].active IN
  /\ watchdog[w].pc = "waiting_lock"
  /\ \/ MarkEngineUnresponsive(k) /\ WatchdogGoes(w, "marking")
     \/ Refused(k, Responsive) /\ RoundEnds(w)
  /\ WatchdogFrame /\ UNCHANGED worker

\* Under the admission lock: the row first, the flag after it.
WatchdogMarks(w) ==
  LET k == watchdog[w].active IN
  /\ watchdog[w].pc = "waiting_lock"
  /\ worker[w].lock = "free"
  /\ \/ /\ MarkEngineUnresponsive(k)
        /\ worker' = [worker EXCEPT ![w].lock = "watchdog"]
        /\ WatchdogGoes(w, "marking")
     \/ /\ Refused(k, Responsive)
        /\ RoundEnds(w)
        /\ UNCHANGED worker
  /\ WatchdogFrame

WatchdogQuarantines(w) ==
  /\ watchdog[w].pc = "marking"
  /\ worker' = [worker EXCEPT ![w].quarantined = TRUE, ![w].lock = "free"]
  /\ RoundEnds(w)
  /\ WatchdogFrame /\ UNCHANGED storeVars

WatchdogFault(w) ==
  /\ watchdog[w].pc \in {"sweeping", "probing", "waiting_lock"}
  /\ faults < MaxFaults
  /\ faults' = faults + 1
  /\ watchdog' = [watchdog EXCEPT ![w] = WatchdogAt("dead")]
  /\ UNCHANGED <<storeVars, current, worker, owner, client, calls>>

WatchdogStep(w) == \/ WatchdogSweeps(w) \/ WatchdogProbes(w) \/ WatchdogMarks(w)
                   \/ WatchdogQuarantines(w) \/ WatchdogStops(w)

-----------------------------------------------------------------------------
(* close(), in the thread of its caller.                                   *)

CloserFrame == UNCHANGED <<current, owner, watchdog, client, calls, faults>>

CloseEnter(w) ==
  /\ MayClose
  /\ w = current
  /\ worker[w].life = "running"
  /\ worker[w].closer \in {"none", "failed"}
  /\ worker[w].lock = "free"
  /\ worker' = [worker EXCEPT ![w].stopping = TRUE, ![w].lock = "closer",
                              ![w].closer = "stopping"]
  /\ CloserFrame /\ UNCHANGED storeVars

CloseCancels(w) ==
  /\ worker[w].closer = "stopping"
  /\ CancelAllQueued
  /\ worker' = [worker EXCEPT ![w].lock = "free", ![w].closer = "joining"]
  /\ CloserFrame

CloseJoinsOwner(w) ==
  /\ worker[w].closer = "joining"
  /\ ~OwnerAlive(w)
  /\ worker' = [worker EXCEPT ![w].closer = "joining_watchdog"]
  /\ CloserFrame /\ UNCHANGED storeVars

\* The drain deadline passes: the active operation, if one is published yet, is
\* marked, and the worker quarantined.
CloseTimesOut(w) ==
  /\ worker[w].closer = "joining"
  /\ OwnerAlive(w)
  /\ worker' = [worker EXCEPT ![w].drain = worker[w].active,
                  ![w].closer = IF worker[w].active = NoKey THEN "failing" ELSE "marking"]
  /\ CloserFrame /\ UNCHANGED storeVars

CloseMarks(w) ==
  LET k == worker[w].drain IN
  /\ worker[w].closer = "marking"
  /\ MarkEngineUnresponsive(k) \/ Refused(k, Responsive)
  /\ worker' = [worker EXCEPT ![w].closer = "failing"]
  /\ CloserFrame

CloseFails(w) ==
  /\ \/ worker[w].closer = "failing"
     \/ worker[w].closer = "joining_watchdog" /\ watchdog[w].pc # "dead"
  /\ worker' = [worker EXCEPT ![w].closer = "failed", ![w].quarantined = TRUE,
                              ![w].drain = NoKey]
  /\ CloserFrame /\ UNCHANGED storeVars

\* Fault: the outcome of joining the watchdog is not looked at.
CloseSucceedsEarly(w) ==
  /\ worker[w].closer = "joining_watchdog"
  /\ worker' = [worker EXCEPT ![w].closer = "closed"]
  /\ CloserFrame /\ UNCHANGED storeVars

CloseSucceeds(w) ==
  /\ worker[w].closer = "joining_watchdog"
  /\ watchdog[w].pc = "dead"
  /\ worker' = [worker EXCEPT ![w].closer = "closed"]
  /\ CloserFrame /\ UNCHANGED storeVars

CloserStep(w) == \/ CloseCancels(w) \/ CloseJoinsOwner(w) \/ CloseTimesOut(w)
                 \/ CloseMarks(w) \/ CloseFails(w) \/ CloseSucceeds(w)
-----------------------------------------------------------------------------
(* The worker after this one, over the same store.                         *)

ClientsIdle == \A c \in Clients : client[c].pc = "idle"

\* Fault: the next worker is built without closing this one.
ReopenUnclosed ==
  /\ worker[current].closer \in {"none", "closed"}
  /\ current < MaxWorkers
  /\ ClientsIdle
  /\ current' = current + 1
  /\ worker' = [worker EXCEPT ![current + 1].life = "reconciling"]
  /\ UNCHANGED <<storeVars, owner, watchdog, client, calls, faults>>

\* After close() reported a clean stop.
Reopen ==
  /\ worker[current].closer = "closed"
  /\ current < MaxWorkers
  /\ ClientsIdle
  /\ current' = current + 1
  /\ worker' = [worker EXCEPT ![current + 1].life = "reconciling"]
  /\ UNCHANGED <<storeVars, owner, watchdog, client, calls, faults>>

\* The process ends, with all its threads, and is started again.
Crash ==
  /\ current < MaxWorkers
  /\ current' = current + 1
  /\ worker' = [w \in Workers |->
                  CASE w <= current -> Blank("crashed")
                    [] w = current + 1 -> Blank("reconciling")
                    [] OTHER -> worker[w]]
  /\ owner' = [w \in Workers |-> IF w <= current THEN OwnerAt("dead") ELSE owner[w]]
  /\ watchdog' = [w \in Workers |->
                    IF w <= current THEN WatchdogAt("dead") ELSE watchdog[w]]
  /\ client' = [c \in Clients |-> IdleClient]
  /\ UNCHANGED <<storeVars, calls, faults>>

TimePasses(k, d) ==
  /\ DeadlinePasses(k, d)
  /\ UNCHANGED <<current, threadVars, calls, faults>>

ClientStep(c) == \/ SubmitCheck(c) \/ SubmitAdmit(c) \/ SubmitPut(c)
                 \/ WaitLook(c) \/ WaitTimeOut(c)

WorkerNext(w) == \/ ConstructReconcile(w) \/ ConstructCancel(w)
                 \/ OwnerStep(w) \/ OwnerFault(w)
                 \/ \E result \in {"ok", "known_failure", "uncertain"} :
                      HandlerReturns(w, result)
                 \/ WatchdogStep(w) \/ WatchdogFault(w)
                 \/ CloseEnter(w) \/ CloserStep(w)

ClientNext(c) == \/ \E k \in Keys, r \in Requests : SubmitEnter(c, k, r)
                 \/ ClientStep(c) \/ SubmitReturn(c)

Next == \/ \E w \in Workers : WorkerNext(w)
        \/ \E c \in Clients : ClientNext(c)
        \/ \E k \in Keys, d \in Deadlines : TimePasses(k, d)
        \/ Reopen \/ Crash

Spec == Init /\ [][Next]_vars

\* Fairness.  The threads run: the owner, the watchdog, the waiting clients and
\* the closer, each of which polls at a bounded interval; time passes; a lock that
\* is released again and again is obtained at last.  Nothing is assumed of the
\* handlers, of new requests, of anybody calling close(), or of crashes.
Fairness ==
  /\ \A w \in Workers :
       /\ WF_vars(ConstructReconcile(w) \/ ConstructCancel(w))
       /\ WF_vars(OwnerStep(w))
       /\ WF_vars(WatchdogStep(w))
       /\ SF_vars(WatchdogMarks(w))
       /\ WF_vars(CloserStep(w))
  /\ \A c \in Clients : WF_vars(ClientStep(c))
  /\ \A k \in Keys, d \in Deadlines : WF_vars(TimePasses(k, d))

FairSpec == Spec /\ Fairness

-----------------------------------------------------------------------------
(* Safety.                                                                 *)

\* What a row says about its handler is true: it was never entered for a row that
\* is absent, queued or cancelled, exactly once for one reported completed or
\* failed, and never more than once, whatever is replayed, cancelled, timed out
\* or left behind by a crash (start and the recovery of __init__).
RowsTellWhatRan ==
  \A k \in Keys :
    /\ calls[k] <= 1
    /\ rec[k].state \in {"ABSENT", "QUEUED", "CANCELLED_BEFORE_START"} => calls[k] = 0
    /\ rec[k].state \in {"COMPLETED", "COMPLETED_AFTER_CLIENT_TIMEOUT", "FAILED"}
         => calls[k] = 1

\* No operation overtakes one that was admitted before it and still waits: the
\* handlers are entered in the order of the durable sequence, although the
\* admission, the queue and the row are written in separate steps (submit,
\* _owner_main).
NoOvertaking ==
  \A i, j \in DOMAIN order :
    i < j /\ rec[order[i]].state = "QUEUED" => calls[order[j]] = 0

\* Every queued row of a running worker is on its way to the owner: a client is
\* about to put it, it is in the queue, or the owner holds it.  None is lost
\* between the store and the queue.
QueuedRowsAreHeld ==
  worker[current].life = "running" =>
    \A k \in Keys : rec[k].state = "QUEUED" =>
      \/ \E c \in Clients : client[c].pc = "putting" /\ client[c].key = k
      \/ \E i \in DOMAIN worker[current].queue : worker[current].queue[i] = k
      \/ owner[current].op = k /\ owner[current].pc \in {"taken", "expiring", "starting"}

\* The bounded queue never holds more than max_queue_size, although it is found
\* not full in one step of submit and filled in another.
QueueWithinBound == \A w \in Workers : Len(worker[w].queue) <= QueueSize

\* A client past admission waits for an operation with its own request: a key that
\* another client bound to a different request is never answered with that
\* client's outcome (IdempotencyConflictError of admit).
AnsweredForOwnRequest ==
  \A c \in Clients : client[c].pc \in {"putting", "waiting", "timing_out"} =>
    rec[client[c].key].request = client[c].request

\* close() returns True only when nothing is left behind: every operation has its
\* final state and no thread of the worker runs.
CleanCloseSettlesAll ==
  worker[current].closer = "closed" =>
    /\ \A k \in Keys : Exists(k) => Terminal(k)
    /\ ~OwnerAlive(current)
    /\ watchdog[current].pc = "dead"

\* The native engine serves one call at a time, whichever worker makes it.
OneNativeCall == Cardinality({w \in Workers : owner[w].pc = "native"}) <= 1

\* The only owner that can be inside a native call beside the current worker's is
\* one that close() gave up on; the owner of a crashed or cleanly closed worker
\* is gone before the next worker is built.
Abandoned(w) == w < current /\ worker[w].closer = "failed"
OnlyAbandonedOwnersOverlap ==
  \A w \in Workers : owner[w].pc = "native" => w = current \/ Abandoned(w)

\* A handler is entered only while its row says that it is in flight, so that a
\* reader who finds a final row knows that nothing more will happen; an abandoned
\* owner alone may enter one whose row its successor has sent to reconciliation.
CallsAreInFlight ==
  [][\A w \in Workers : OwnerCalls(w) =>
       rec[owner[w].op].state \in InFlight \/ Abandoned(w)]_vars

\* A final state and its outcome never change: a late result, a late deadline
\* and a late recovery all find their transition refused.
TerminalIsFinal ==
  [][\A k \in Keys : Terminal(k) => rec'[k] = rec[k]]_vars

\* No operation is admitted once the worker stops or is quarantined, or while a
\* row says that the engine is unresponsive: the flags are checked in one step of
\* submit and the row is inserted in a later one.
AdmissionIsFenced ==
  [][\A k \in Keys : ~Exists(k) /\ Exists(k)' =>
       /\ ~worker[current].stopping
       /\ ~worker[current].quarantined
       /\ \A j \in Keys : rec[j].state # "ENGINE_UNRESPONSIVE"]_vars

\* A quarantined worker starts no operation, not even one that was queued before
\* the engine was declared unresponsive.
QuarantineStartsNothing ==
  [][\A k \in Keys : rec[k].state = "QUEUED" /\ rec'[k].state = "IN_FLIGHT" =>
       ~worker[current].quarantined]_vars

\* The threads implement the ledger.
Phase(k) ==
  CASE rec[k].state = "ABSENT" -> "absent"
    [] rec[k].state = "QUEUED" -> "waiting"
    [] rec[k].state \in InFlight -> "begun"
    [] rec[k].state = "CANCELLED_BEFORE_START" -> "cancelled"
    [] rec[k].state = "FAILED" -> "failed"
    [] rec[k].state = "RECONCILIATION_REQUIRED" -> "unknown"
    [] OTHER -> "done"

Ledger == INSTANCE OperationLedger
            WITH phase <- [k \in Keys |-> Phase(k)],
                 performed <- [k \in Keys |-> calls[k] > 0]

ImplementsLedger == Ledger!LedgerSpec

-----------------------------------------------------------------------------
(* Liveness.                                                               *)

\* A queued operation does not wait for ever, even behind a handler that never
\* returns: it is started or cancelled.
QueuedIsDecided ==
  \A k \in Keys : rec[k].state = "QUEUED" ~> rec[k].state # "QUEUED"

\* A client that waits is answered, even if the handler never returns.
WaiterIsAnswered == \A c \in Clients : client[c].pc = "waiting" ~> client[c].pc = "idle"

\* An operation in flight is recorded, or the engine is declared unresponsive and
\* the worker refuses new work: it never stays in flight behind an open worker.
HungCallIsQuarantined ==
  \A k \in Keys :
    rec[k].state \in InFlight ~> (Terminal(k) \/ worker[current].quarantined)

\* If no handler runs for ever, every admitted operation reaches a final state.
EveryOperationSettles ==
  (\A w \in Workers : []<>(owner[w].pc # "native")) =>
    \A k \in Keys : Exists(k) ~> Terminal(k)
=============================================================================
