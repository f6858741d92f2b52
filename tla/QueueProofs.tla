----------------------------- MODULE QueueProofs -----------------------------
(***************************************************************************)
(* The path of an operation from admission to its handler, proved for      *)
(* every number of keys, clients, workers and store errors, with replaced  *)
(* workers (RuntimeSpec).                                                  *)
(*                                                                         *)
(* The rows and the queues tell the same story because of the admission    *)
(* lock (ThreadsInv), because what is checked under it still holds when it *)
(* is used (AdmitInv), because a key is in the hands of one worker and of  *)
(* no worker before the rows know it (RowsInv), because only the current   *)
(* owner works on a row in flight (FlightInv), and because the queue keeps *)
(* the order of the rows (OrderInv).                                       *)
(***************************************************************************)
EXTENDS WorkerProofs, SequenceTheorems

\* The client is between submit's first check and the put: it holds the admission lock.
Submitting(c) == client[c].pc \in {"checking", "admitting", "putting"}

\* The lives of the workers: the current one is built in order, those after it are not
\* built, and those before it are closed, given up or crashed.
LifeInv ==
  /\ \A w \in Workers : w > current =>
       worker[w] = Blank("unbuilt") /\ owner[w].pc = "unborn" /\ watchdog[w].pc = "unborn"
  /\ worker[current].life \in {"reconciling", "cancelling", "running"}
  /\ worker[current].life # "running" =>
       /\ worker[current] = Blank(worker[current].life)
       /\ owner[current].pc = "unborn" /\ watchdog[current].pc = "unborn"
  /\ \A w \in Workers : w < current =>
       /\ worker[w].life \in {"running", "crashed"}
       /\ worker[w].closer \in {"none", "closed", "failed"}
       /\ OwnerAlive(w) => worker[w].closer = "failed"
  /\ \A w \in Workers : worker[w].closer \in {"joining_watchdog", "closed"} => ~OwnerAlive(w)
  /\ \A w \in Workers : worker[w].stopping <=> worker[w].closer # "none"
  /\ \A w \in Workers : worker[w].closer # "none" => worker[w].life = "running"

\* Who holds the admission lock.
LockInv ==
  /\ \A c \in Clients : Submitting(c) => worker[current].lock = "client" /\ worker[current].life = "running"
  /\ \A c, d \in Clients : Submitting(c) /\ Submitting(d) => c = d
  /\ \A w \in Workers : watchdog[w].pc = "marking" => worker[w].lock = "watchdog"
  /\ \A w \in Workers : worker[w].closer = "stopping" => worker[w].lock = "closer"

ThreadsInv == LifeInv /\ LockInv

-----------------------------------------------------------------------------
(* What the steps of a thread do to the fields it shares with the others.  *)

\* The owner shortens the queue and publishes its operation; it never comes back to life.
OwnerEffect(w) ==
  /\ OwnerAlive(w) /\ owner'[w].pc # "unborn"
  /\ \A v \in Workers : v # w => owner'[v] = owner[v] /\ worker'[v] = worker[v]
  /\ worker'[w].life = worker[w].life /\ worker'[w].closer = worker[w].closer
  /\ worker'[w].stopping = worker[w].stopping /\ worker'[w].lock = worker[w].lock
  /\ worker'[w].quarantined = worker[w].quarantined
  /\ worker'[w].active \in {worker[w].active, owner[w].op, NoKey}
  /\ \/ worker'[w].queue = worker[w].queue /\ owner'[w].op \in {owner[w].op, NoKey}
     \/ /\ worker[w].queue # <<>> /\ owner[w].pc = "idle" /\ owner'[w].pc = "taken"
        /\ worker'[w].queue = Tail(worker[w].queue) /\ owner'[w].op = Head(worker[w].queue)
  /\ UNCHANGED <<current, watchdog, client>>

LEMMA OwnerEffects ==
  ASSUME TypeInv, NEW w \in Workers,
         \/ OwnerStep(w) \/ OwnerFault(w)
         \/ \E result \in {"ok", "known_failure", "uncertain"} : HandlerReturns(w, result)
  PROVE  OwnerEffect(w)
  <1>t. worker \in [Workers -> WorkerObject] /\ owner \in [Workers -> OwnerThread]
    BY DEF TypeInv, WorkersTyped, OwnersTyped
  <1>a. /\ OwnerAt("idle").pc = "idle" /\ OwnerAt("dead").pc = "dead"
        /\ OwnerAt("idle").op = NoKey /\ OwnerAt("dead").op = NoKey
    BY DEF OwnerAt
  <1>1. OwnerAlive(w) /\ UNCHANGED <<current, watchdog, client>>
    BY DEF OwnerStep, OwnerFault, HandlerReturns, OwnerStops, OwnerTakes, OwnerInspects, OwnerCancels,
           OwnerStarts, OwnerCalls, OwnerRecords, OwnerReconciles, OwnerClears, OwnerAlive, OwnerFrame
  <1>2. PICK o : owner' = [owner EXCEPT ![w] = o]
    BY DEF OwnerStep, OwnerFault, HandlerReturns, OwnerStops, OwnerTakes, OwnerInspects, OwnerCancels,
           OwnerStarts, OwnerCalls, OwnerRecords, OwnerReconciles, OwnerClears, OwnerGoes, OwnerIdles
  <1>3. /\ o.pc # "unborn"
        /\ \/ OwnerTakes(w) /\ o.pc = "taken" /\ o.op = Head(worker[w].queue)
           \/ ~OwnerTakes(w) /\ o.op \in {owner[w].op, NoKey}
    <2>1. CASE OwnerStops(w) \/ OwnerCancels(w) \/ OwnerClears(w) \/ OwnerFault(w)
      BY <1>t, <1>a, <1>2, <2>1
      DEF OwnerStops, OwnerCancels, OwnerClears, OwnerFault, OwnerIdles, OwnerTakes
    <2>2. CASE OwnerTakes(w)
      BY <1>t, <1>2, <2>2 DEF OwnerTakes, OwnerThread
    <2>3. CASE OwnerCalls(w) \/ OwnerRecords(w) \/ OwnerReconciles(w)
      BY <1>t, <1>2, <2>3 DEF OwnerTakes, OwnerCalls, OwnerRecords, OwnerReconciles, OwnerGoes, OwnerThread
    <2>4. CASE OwnerInspects(w) \/ OwnerStarts(w)
      BY <1>t, <1>a, <1>2, <2>4 DEF OwnerTakes, OwnerInspects, OwnerStarts, OwnerGoes, OwnerIdles, OwnerThread
    <2>5. ASSUME NEW result \in {"ok", "known_failure", "uncertain"}, HandlerReturns(w, result)
          PROVE  o.pc # "unborn" /\ ~OwnerTakes(w) /\ o.op \in {owner[w].op, NoKey}
      BY <1>t, <1>2, <2>5 DEF OwnerTakes, HandlerReturns, OwnerThread
    <2> QED
      BY <2>1, <2>2, <2>3, <2>4, <2>5 DEF OwnerStep
  <1>4. \/ OwnerTakes(w) /\ worker' = [worker EXCEPT ![w].queue = Tail(@)]
        \/ ~OwnerTakes(w) /\ \E k \in {owner[w].op, NoKey, worker[w].active} : worker' = [worker EXCEPT ![w].active = k]
        \/ ~OwnerTakes(w) /\ UNCHANGED worker
    <2>1. CASE OwnerTakes(w)
      BY <2>1 DEF OwnerTakes
    <2>2. CASE ~OwnerTakes(w)
      BY <2>2 DEF OwnerStep, OwnerFault, HandlerReturns, OwnerStops, OwnerInspects, OwnerCancels,
           OwnerStarts, OwnerCalls, OwnerRecords, OwnerReconciles, OwnerClears, ActiveCleared
    <2> QED
      BY <2>1, <2>2
  <1>5. /\ \A v \in Workers : v # w => worker'[v] = worker[v]
        /\ worker'[w].life = worker[w].life /\ worker'[w].closer = worker[w].closer
        /\ worker'[w].stopping = worker[w].stopping /\ worker'[w].lock = worker[w].lock
        /\ worker'[w].quarantined = worker[w].quarantined
        /\ worker'[w].active \in {worker[w].active, owner[w].op, NoKey}
        /\ \/ OwnerTakes(w) /\ worker'[w].queue = Tail(worker[w].queue)
           \/ ~OwnerTakes(w) /\ worker'[w].queue = worker[w].queue
    <2>1. CASE OwnerTakes(w) /\ worker' = [worker EXCEPT ![w].queue = Tail(@)]
      BY <1>t, <2>1 DEF WorkerObject
    <2>2. ASSUME ~OwnerTakes(w), NEW k \in {owner[w].op, NoKey, worker[w].active},
                 worker' = [worker EXCEPT ![w].active = k]
          PROVE  /\ \A v \in Workers : v # w => worker'[v] = worker[v]
                 /\ worker'[w].life = worker[w].life /\ worker'[w].closer = worker[w].closer
                 /\ worker'[w].stopping = worker[w].stopping /\ worker'[w].lock = worker[w].lock
                 /\ worker'[w].quarantined = worker[w].quarantined
                 /\ worker'[w].active = k /\ worker'[w].queue = worker[w].queue
      BY <1>t, <2>2 DEF WorkerObject
    <2>3. CASE ~OwnerTakes(w) /\ UNCHANGED worker
      BY <2>3
    <2> QED
      BY <1>4, <2>1, <2>2, <2>3
  <1>6. /\ owner'[w] = o
        /\ \A v \in Workers : v # w => owner'[v] = owner[v]
    BY <1>t, <1>2
  <1>7. OwnerTakes(w) => worker[w].queue # <<>> /\ owner[w].pc = "idle"
    BY DEF OwnerTakes
  <1> QED
    BY <1>1, <1>3, <1>5, <1>6, <1>7 DEF OwnerEffect

\* The watchdog marks under the lock it took, and quarantines when it gives it back.
WatchdogEffect(w) ==
  /\ watchdog[w].pc \notin {"unborn", "dead"} /\ watchdog'[w].pc # "unborn"
  /\ \A v \in Workers : v # w => watchdog'[v] = watchdog[v] /\ worker'[v] = worker[v]
  /\ worker'[w].life = worker[w].life /\ worker'[w].closer = worker[w].closer
  /\ worker'[w].stopping = worker[w].stopping /\ worker'[w].queue = worker[w].queue
  /\ worker'[w].active = worker[w].active
  /\ watchdog'[w].active \in {watchdog[w].active, worker[w].active, NoKey}
  /\ \/ worker'[w] = worker[w] /\ watchdog[w].pc # "marking" /\ watchdog'[w].pc # "marking"
     \/ /\ worker[w].lock = "free" /\ worker'[w].lock = "watchdog"
        /\ worker'[w].quarantined = worker[w].quarantined
        /\ watchdog'[w].pc = "marking"
     \/ /\ watchdog[w].pc = "marking" /\ worker'[w].lock = "free"
        /\ worker'[w].quarantined /\ watchdog'[w].pc # "marking"
  /\ UNCHANGED <<current, owner, client, calls>> /\ (faults > 0 => faults' > 0)

LEMMA WatchdogEffects ==
  ASSUME TypeInv, NEW w \in Workers, WatchdogStep(w) \/ WatchdogFault(w)
  PROVE  WatchdogEffect(w)
  <1>t. /\ worker \in [Workers -> WorkerObject] /\ watchdog \in [Workers -> WatchdogThread]
        /\ faults \in Nat
    BY DEF TypeInv, WorkersTyped, WatchdogsTyped
  <1>1. CASE WatchdogSweeps(w) \/ WatchdogProbes(w)
    BY <1>t, <1>1 DEF WatchdogSweeps, WatchdogProbes, WatchdogGoes, RoundEnds, WatchdogFrame,
                      WatchdogThread, WatchdogEffect
  <1>2. CASE WatchdogMarks(w)
    BY <1>t, <1>2 DEF WatchdogMarks, WatchdogGoes, RoundEnds, WatchdogFrame,
                      WatchdogThread, WorkerObject, WatchdogEffect
  <1>3. CASE WatchdogQuarantines(w)
    BY <1>t, <1>3 DEF WatchdogQuarantines, RoundEnds, WatchdogFrame,
                      WatchdogThread, WorkerObject, WatchdogEffect
  <1>4. CASE WatchdogStops(w) \/ WatchdogFault(w)
    BY <1>t, <1>4 DEF WatchdogStops, WatchdogFault, WatchdogAt, WatchdogFrame, WatchdogEffect
  <1> QED
    BY <1>1, <1>2, <1>3, <1>4 DEF WatchdogStep

\* close() stops its worker under the lock, and gives the lock back with the rows cancelled.
CloserEffect(w) ==
  /\ \A v \in Workers : v # w => worker'[v] = worker[v]
  /\ worker'[w].life = worker[w].life /\ worker'[w].queue = worker[w].queue
  /\ worker'[w].active = worker[w].active
  /\ worker'[w].closer # "none"
  /\ UNCHANGED <<current, owner, watchdog, client, calls, faults>>
  /\ \/ /\ w = current /\ worker[w].life = "running"
        /\ worker[w].lock = "free" /\ worker'[w].lock = "closer"
        /\ worker'[w].closer = "stopping" /\ worker'[w].stopping
        /\ UNCHANGED storeVars
     \/ /\ worker[w].closer = "stopping" /\ worker'[w].closer = "joining"
        /\ worker'[w].lock = "free" /\ worker'[w].stopping = worker[w].stopping
        /\ CancelAllQueued
     \/ /\ worker[w].closer \in {"joining", "marking", "failing", "joining_watchdog"}
        /\ worker'[w].closer \in {"joining_watchdog", "marking", "failing", "failed", "closed"}
        /\ worker'[w].closer = "joining_watchdog" => ~OwnerAlive(w)
        /\ worker'[w].closer = "closed" => worker[w].closer = "joining_watchdog" /\ watchdog[w].pc = "dead"
        /\ worker'[w].lock = worker[w].lock /\ worker'[w].stopping = worker[w].stopping

LEMMA CloserEffects ==
  ASSUME TypeInv, NEW w \in Workers, CloseEnter(w) \/ CloserStep(w)
  PROVE  CloserEffect(w)
  <1>t. worker \in [Workers -> WorkerObject]
    BY DEF TypeInv, WorkersTyped
  <1>1. CASE CloseEnter(w)
    BY <1>t, <1>1 DEF CloseEnter, CloserFrame, WorkerObject, CloserEffect
  <1>2. CASE CloseCancels(w)
    BY <1>t, <1>2 DEF CloseCancels, CloserFrame, WorkerObject, CloserEffect
  <1>3. CASE CloseJoinsOwner(w) \/ CloseMarks(w) \/ CloseSucceeds(w)
    BY <1>t, <1>3 DEF CloseJoinsOwner, CloseMarks, CloseSucceeds, CloserFrame, WorkerObject, CloserEffect
  <1>4. CASE CloseTimesOut(w)
    BY <1>t, <1>4 DEF CloseTimesOut, CloserFrame, WorkerObject, CloserEffect
  <1>5. CASE CloseFails(w)
    BY <1>t, <1>5 DEF CloseFails, CloserFrame, WorkerObject, CloserEffect
  <1> QED
    BY <1>1, <1>2, <1>3, <1>4, <1>5 DEF CloserStep

\* A client takes the lock when it is free, and gives it back when it leaves submit.
ClientEffect(c) ==
  /\ \A v \in Workers : v # current => worker'[v] = worker[v]
  /\ worker'[current].life = worker[current].life /\ worker'[current].closer = worker[current].closer
  /\ worker'[current].stopping = worker[current].stopping
  /\ worker'[current].quarantined = worker[current].quarantined
  /\ worker'[current].active = worker[current].active
  /\ \A d \in Clients : d # c => client'[d] = client[d]
  /\ UNCHANGED <<current, owner, watchdog, calls, faults>>
  /\ \/ /\ worker[current].lock = "free" /\ worker'[current].lock = "client"
        /\ worker[current].life = "running" /\ client'[c].pc = "checking"
     \/ /\ Submitting(c) /\ worker'[current].lock = "free"
        /\ client'[c].pc \in {"idle", "waiting"}
     \/ /\ Submitting(c) /\ worker' = worker
     \/ /\ ~Submitting(c) /\ worker' = worker
        /\ client'[c].pc \in {"idle", "waiting", "timing_out"}

LEMMA ClientEffects ==
  ASSUME TypeInv, NEW c \in Clients, ClientNext(c)
  PROVE  ClientEffect(c)
  <1>t. /\ worker \in [Workers -> WorkerObject] /\ client \in [Clients -> ClientThread]
        /\ current \in Workers
    BY DEF TypeInv, WorkersTyped, ClientsTyped
  <1>1. CASE \E k \in Keys, r \in Requests : SubmitEnter(c, k, r)
    BY <1>t, <1>1 DEF SubmitEnter, WorkerObject, ClientEffect
  <1>2. CASE SubmitCheck(c)
    BY <1>t, <1>2 DEF SubmitCheck, IdleClient, WorkerObject, ClientEffect, Submitting
  <1>3. CASE SubmitAdmit(c)
    <2>1. /\ UNCHANGED <<current, owner, watchdog, calls, faults>> /\ Submitting(c)
          /\ \A d \in Clients : d # c => client'[d] = client[d]
      BY <1>t, <1>3 DEF SubmitAdmit, Submitting
    <2>2. \/ UNCHANGED worker
          \/ worker' = [worker EXCEPT ![current].lock = "free"] /\ client'[c].pc \in {"idle", "waiting"}
      BY <1>t, <1>3 DEF SubmitAdmit, IdleClient, ClientThread
    <2> QED
      BY <1>t, <2>1, <2>2 DEF WorkerObject, ClientEffect
  <1>4. CASE SubmitPut(c)
    BY <1>t, <1>4 DEF SubmitPut, WorkerObject, ClientThread, ClientEffect, Submitting
  <1>5. CASE SubmitReturn(c) \/ WaitLook(c) \/ WaitTimeOut(c)
    BY <1>t, <1>5 DEF SubmitReturn, WaitLook, WaitTimeOut, IdleClient, ClientThread, ClientEffect, Submitting
  <1> QED
    BY <1>1, <1>2, <1>3, <1>4, <1>5 DEF ClientNext, ClientStep

-----------------------------------------------------------------------------
(* Lives and locks.                                                        *)

LEMMA BlankFields ==
  \A life \in {"unbuilt", "reconciling", "cancelling", "running", "crashed"} :
    /\ Blank(life).life = life /\ Blank(life).queue = <<>> /\ Blank(life).active = NoKey
    /\ Blank(life).stopping = FALSE /\ Blank(life).quarantined = FALSE
    /\ Blank(life).lock = "free" /\ Blank(life).closer = "none"
  BY DEF Blank

LEMMA BlankIsTyped ==
  \A o \in WorkerObject :
    /\ o.queue = <<>> /\ o.active = NoKey /\ o.drain = NoKey
    /\ o.stopping = FALSE /\ o.quarantined = FALSE /\ o.lock = "free" /\ o.closer = "none"
    => o = Blank(o.life)
  BY DEF WorkerObject, Blank

LEMMA BlankLives ==
  \A l, m \in {"unbuilt", "reconciling", "cancelling", "running", "crashed"} :
    [Blank(l) EXCEPT !.life = m] = Blank(m)
  <1> SUFFICES ASSUME NEW l \in {"unbuilt", "reconciling", "cancelling", "running", "crashed"},
                      NEW m \in {"unbuilt", "reconciling", "cancelling", "running", "crashed"}
               PROVE  [Blank(l) EXCEPT !.life = m] = Blank(m)
    OBVIOUS
  <1>1. PICK o : o = [Blank(l) EXCEPT !.life = m]
    OBVIOUS
  <1>2. Blank(l) \in WorkerObject
    BY DEF WorkerObject, Blank
  <1>3. /\ Blank(l).queue = <<>> /\ Blank(l).active = NoKey /\ Blank(l).drain = NoKey
        /\ Blank(l).stopping = FALSE /\ Blank(l).quarantined = FALSE
        /\ Blank(l).lock = "free" /\ Blank(l).closer = "none"
    BY DEF Blank
  <1>4. /\ o \in WorkerObject /\ o.life = m
        /\ o.queue = <<>> /\ o.active = NoKey /\ o.drain = NoKey
        /\ o.stopping = FALSE /\ o.quarantined = FALSE /\ o.lock = "free" /\ o.closer = "none"
    BY <1>1, <1>2, <1>3 DEF WorkerObject
  <1> QED
    BY <1>1, <1>4, BlankIsTyped

LEMMA ThreadsAtInit == Init => ThreadsInv
  <1> SUFFICES ASSUME Init
               PROVE  ThreadsInv
    OBVIOUS
  <1>1. current = 1 /\ 1 \in Workers
    BY WorkerAssumption DEF Init, Workers
  <1>2. worker[1] = Blank("reconciling")
    BY <1>1 DEF Init
  <1>3. \A w \in Workers : w # 1 => worker[w] = Blank("unbuilt")
    BY DEF Init
  <1>4. \A w \in Workers : owner[w].pc = "unborn" /\ watchdog[w].pc = "unborn" /\ w >= 1
    BY DEF Init, OwnerAt, WatchdogAt, Workers
  <1>5. \A c \in Clients : client[c].pc = "idle"
    BY DEF Init, IdleClient
  <1>6. LifeInv
    BY <1>1, <1>2, <1>3, <1>4, BlankFields DEF LifeInv, OwnerAlive, Workers
  <1>7. LockInv
    BY <1>1, <1>2, <1>3, <1>4, <1>5, BlankFields DEF LockInv, Submitting
  <1> QED
    BY <1>6, <1>7 DEF ThreadsInv

LEMMA OwnerKeepsThreads ==
  ASSUME TypeInv, ThreadsInv, NEW w \in Workers, OwnerEffect(w)
  PROVE  ThreadsInv'
  <1>1. LifeInv'
    BY DEF OwnerEffect, ThreadsInv, LifeInv, OwnerAlive, Workers, TypeInv
  <1>2. LockInv'
    BY DEF OwnerEffect, ThreadsInv, LockInv, Submitting, TypeInv
  <1> QED
    BY <1>1, <1>2 DEF ThreadsInv

LEMMA WatchdogKeepsThreads ==
  ASSUME TypeInv, ThreadsInv, NEW w \in Workers, WatchdogEffect(w)
  PROVE  ThreadsInv'
  <1>1. LifeInv'
    BY DEF WatchdogEffect, ThreadsInv, LifeInv, OwnerAlive, Workers, TypeInv
  <1>2. LockInv'
    BY DEF WatchdogEffect, ThreadsInv, LockInv, Submitting, TypeInv
  <1> QED
    BY <1>1, <1>2 DEF ThreadsInv

LEMMA CloserKeepsThreads ==
  ASSUME TypeInv, ThreadsInv, NEW w \in Workers, CloserEffect(w)
  PROVE  ThreadsInv'
  <1>1. LifeInv'
    BY BlankFields DEF CloserEffect, ThreadsInv, LifeInv, OwnerAlive, Workers, TypeInv
  <1>2. LockInv'
    BY DEF CloserEffect, ThreadsInv, LockInv, Submitting, TypeInv
  <1> QED
    BY <1>1, <1>2 DEF ThreadsInv

LEMMA ClientKeepsThreads ==
  ASSUME TypeInv, ThreadsInv, NEW c \in Clients, ClientEffect(c)
  PROVE  ThreadsInv'
  <1>1. LifeInv'
    BY DEF ClientEffect, ThreadsInv, LifeInv, LockInv, OwnerAlive, Workers, TypeInv
  <1>2. LockInv'
    BY DEF ClientEffect, ThreadsInv, LockInv, Submitting, TypeInv
  <1> QED
    BY <1>1, <1>2 DEF ThreadsInv

LEMMA OthersKeepThreads ==
  ASSUME TypeInv, ThreadsInv,
         \/ \E w \in Workers : ConstructReconcile(w) \/ ConstructCancel(w)
         \/ Reopen \/ Replace \/ Crash
         \/ UNCHANGED <<current, worker, owner, watchdog, client>>
  PROVE  ThreadsInv'
  <1>t. worker \in [Workers -> WorkerObject] /\ current \in Workers /\ current \in Nat
    BY DEF TypeInv, WorkersTyped, Workers
  <1>1. ASSUME NEW w \in Workers, ConstructReconcile(w)
        PROVE  ThreadsInv'
    <2>1. w = current
      BY <1>t, <1>1, BlankFields DEF ConstructReconcile, ThreadsInv, LifeInv, Workers
    <2>2. worker[current] = Blank("reconciling")
      BY <1>1, <2>1 DEF ConstructReconcile, ThreadsInv, LifeInv
    <2>3. worker'[current] = Blank("cancelling") /\ \A v \in Workers : v # current => worker'[v] = worker[v]
      BY <1>t, <1>1, <2>1, <2>2, BlankLives DEF ConstructReconcile
    <2>4. UNCHANGED <<current, owner, watchdog, client>>
      BY <1>1 DEF ConstructReconcile
    <2>5. worker'[current].life = "cancelling" /\ worker[current].life = "reconciling"
      BY <2>2, <2>3, BlankFields
    <2>a. /\ worker'[current].closer = worker[current].closer
          /\ worker'[current].stopping = worker[current].stopping
          /\ worker'[current].lock = worker[current].lock
          /\ worker[current].closer = "none"
      BY <2>2, <2>3, BlankFields
    <2>b. /\ \A v \in Workers : worker'[v].closer = worker[v].closer /\ worker'[v].stopping = worker[v].stopping
          /\ \A v \in Workers : v # current => worker'[v] = worker[v]
      BY <2>3, <2>a
    <2>c. \A v \in Workers : v > current \/ v < current => v # current
      BY <1>t
    <2>d. owner[current].pc = "unborn" /\ watchdog[current].pc = "unborn"
      BY <2>5 DEF ThreadsInv, LifeInv
    <2>6. LifeInv'
      BY <2>3, <2>4, <2>5, <2>a, <2>b, <2>c, <2>d DEF ThreadsInv, LifeInv, OwnerAlive
    <2>7. LockInv'
      BY <1>t, <2>2, <2>3, <2>4, BlankFields DEF ThreadsInv, LockInv, Submitting
    <2> QED
      BY <2>6, <2>7 DEF ThreadsInv
  <1>2. ASSUME NEW w \in Workers, ConstructCancel(w)
        PROVE  ThreadsInv'
    <2>1. w = current
      BY <1>t, <1>2, BlankFields DEF ConstructCancel, ThreadsInv, LifeInv, Workers
    <2>2. worker[current] = Blank("cancelling")
      BY <1>2, <2>1 DEF ConstructCancel, ThreadsInv, LifeInv
    <2>3. worker'[current] = Blank("running") /\ \A v \in Workers : v # current => worker'[v] = worker[v]
      BY <1>t, <1>2, <2>1, <2>2, BlankLives DEF ConstructCancel
    <2>4. /\ UNCHANGED <<current, client>>
          /\ \A v \in Workers : v # current => owner'[v] = owner[v] /\ watchdog'[v] = watchdog[v]
          /\ owner'[current].pc = "idle" /\ watchdog'[current].pc = "sweeping"
      BY <1>t, <1>2, <2>1 DEF ConstructCancel, OwnerAt, WatchdogAt, TypeInv, OwnersTyped, WatchdogsTyped
    <2>5. LifeInv'
      BY <1>t, <2>2, <2>3, <2>4, BlankFields DEF ThreadsInv, LifeInv, OwnerAlive
    <2>6. LockInv'
      BY <1>t, <2>2, <2>3, <2>4, BlankFields DEF ThreadsInv, LockInv, Submitting
    <2> QED
      BY <2>5, <2>6 DEF ThreadsInv
  <1>3. CASE Reopen \/ Replace
    <2>1. /\ current' = current + 1 /\ current + 1 \in Workers
          /\ UNCHANGED <<owner, watchdog, client>>
          /\ worker[current].closer \in {"closed", "failed"}
          /\ \A c \in Clients : client[c].pc = "idle"
      BY <1>t, <1>3, WorkerAssumption DEF Reopen, Replace, ClientsIdle, Workers
    <2>2. worker[current + 1] = Blank("unbuilt")
      BY <1>t, <2>1 DEF ThreadsInv, LifeInv
    <2>3. /\ worker'[current + 1] = Blank("reconciling")
          /\ \A v \in Workers : v # current + 1 => worker'[v] = worker[v]
      BY <1>t, <1>3, <2>1, <2>2, BlankLives DEF Reopen, Replace
    <2>4. /\ worker[current].life = "running"
          /\ OwnerAlive(current) => worker[current].closer = "failed"
      BY <1>t, <2>1 DEF ThreadsInv, LifeInv
    <2>5. owner[current + 1].pc = "unborn" /\ watchdog[current + 1].pc = "unborn"
      BY <1>t, <2>1 DEF ThreadsInv, LifeInv
    <2>6. \A v \in Workers : v < current + 1 => v = current \/ v < current
      BY <1>t DEF Workers
    <2>7. LifeInv'
      BY <1>t, <2>1, <2>2, <2>3, <2>4, <2>5, <2>6, BlankFields DEF ThreadsInv, LifeInv, OwnerAlive, Workers
    <2>8. LockInv'
      BY <1>t, <2>1, <2>2, <2>3, <2>5, BlankFields DEF ThreadsInv, LockInv, Submitting
    <2> QED
      BY <2>7, <2>8 DEF ThreadsInv
  <1>4. CASE Crash
    <2>1. /\ current' = current + 1 /\ current + 1 \in Workers
          /\ \A c \in Clients : client'[c].pc = "idle"
      BY <1>t, <1>4, WorkerAssumption DEF Crash, IdleClient, Workers
    <2>2. /\ \A v \in Workers : v <= current => worker'[v] = Blank("crashed")
          /\ worker'[current + 1] = Blank("reconciling")
          /\ \A v \in Workers : v > current + 1 => worker'[v] = worker[v]
      BY <1>t, <1>4, <2>1 DEF Crash, Workers
    <2>3. /\ \A v \in Workers : v <= current => owner'[v].pc = "dead" /\ watchdog'[v].pc = "dead"
          /\ \A v \in Workers : v > current => owner'[v] = owner[v] /\ watchdog'[v] = watchdog[v]
      BY <1>t, <1>4 DEF Crash, OwnerAt, WatchdogAt, Workers
    <2>4. \A v \in Workers : v <= current \/ v = current + 1 \/ v > current + 1
      BY <1>t DEF Workers
    <2>5. LifeInv'
      BY <1>t, <2>1, <2>2, <2>3, <2>4, BlankFields DEF ThreadsInv, LifeInv, OwnerAlive, Workers
    <2>6. LockInv'
      BY <1>t, <2>1, <2>2, <2>3, <2>4, BlankFields DEF ThreadsInv, LifeInv, LockInv, Submitting, Workers
    <2> QED
      BY <2>5, <2>6 DEF ThreadsInv
  <1>5. CASE UNCHANGED <<current, worker, owner, watchdog, client>>
    BY <1>5 DEF ThreadsInv, LifeInv, LockInv, OwnerAlive, Submitting
  <1> QED
    BY <1>1, <1>2, <1>3, <1>4, <1>5

LEMMA RuntimeNextKeepsThreads == TypeInv /\ ThreadsInv /\ [RuntimeNext]_vars => ThreadsInv'
  <1> SUFFICES ASSUME TypeInv, ThreadsInv, [RuntimeNext]_vars
               PROVE  ThreadsInv'
    OBVIOUS
  <1>1. ASSUME NEW w \in Workers, WorkerNext(w)
        PROVE  ThreadsInv'
    BY <1>1, OwnerEffects, OwnerKeepsThreads, WatchdogEffects, WatchdogKeepsThreads,
       CloserEffects, CloserKeepsThreads, OthersKeepThreads DEF WorkerNext
  <1>2. ASSUME NEW c \in Clients, ClientNext(c)
        PROVE  ThreadsInv'
    BY <1>2, ClientEffects, ClientKeepsThreads
  <1>3. ASSUME (\E k \in Keys, d \in Deadlines : TimePasses(k, d)) \/ UNCHANGED vars
        PROVE  UNCHANGED <<current, worker, owner, watchdog, client>>
    BY <1>3 DEF TimePasses, threadVars, vars
  <1> QED
    BY <1>1, <1>2, <1>3, OthersKeepThreads DEF RuntimeNext, Next

LEMMA ThreadsInvAlways == RuntimeSpec => []ThreadsInv
  BY ThreadsAtInit, TypeInvAlways, RuntimeNextKeepsThreads, PTL DEF RuntimeSpec

-----------------------------------------------------------------------------
(* What the steps of a thread do to the rows.                              *)

\* No row is inserted, and none is queued again.
NoAdmission == /\ UNCHANGED order
               /\ \A k \in Keys : /\ Exists(k)' <=> Exists(k)
                                  /\ rec'[k].state = "QUEUED" => rec[k].state = "QUEUED"
\* No operation is begun or ended.
NoOutcome == \A k \in Keys : rec'[k].state \in InFlight <=> rec[k].state \in InFlight
\* No row says anew that the engine is unresponsive.
NoMark == \A k \in Keys : rec'[k].state = "ENGINE_UNRESPONSIVE" => rec[k].state = "ENGINE_UNRESPONSIVE"

LEMMA RowsStill == UNCHANGED <<rec, order>> => NoAdmission /\ NoOutcome /\ NoMark
  BY DEF NoAdmission, NoOutcome, NoMark, Exists

LEMMA CancelledRows ==
  ASSUME StoreTypeOK, CancelAllQueued \/ CancelExpiredQueued
  PROVE  /\ NoAdmission /\ NoOutcome /\ NoMark
         /\ CancelAllQueued => \A k \in Keys : rec'[k].state # "QUEUED"
  BY DEF StoreTypeOK, CancelAllQueued, CancelExpiredQueued, MoveAll, OperationRecord, InFlight,
         NoAdmission, NoOutcome, NoMark, Exists

LEMMA ReconciledRows ==
  ASSUME StoreTypeOK, ReconcileOrphans
  PROVE  /\ NoAdmission /\ NoMark
         /\ \A k \in Keys : rec'[k].state \notin InFlight
  BY DEF StoreTypeOK, ReconcileOrphans, MoveAll, OperationRecord, InFlight, NoAdmission, NoMark, Exists

LEMMA OneRow ==
  ASSUME StoreTypeOK, NEW k \in Keys, NEW expected, NEW target,
         "ABSENT" \notin expected, target \notin {"ABSENT", "QUEUED"},
         \/ Transition(k, expected, target)
         \/ \E outcome \in {"result", "error"} : TransitionWith(k, expected, target, outcome)
  PROVE  /\ NoAdmission
         /\ rec[k].state \in expected /\ rec'[k].state = target
         /\ \A j \in Keys : j # k => rec'[j] = rec[j]
  <1>1. /\ rec[k].state \in expected /\ rec'[k].state = target
        /\ \A j \in Keys : j # k => rec'[j] = rec[j]
    BY StoreTransitions
  <1>2. UNCHANGED order
    BY DEF Transition, TransitionWith
  <1> QED
    BY <1>1, <1>2 DEF NoAdmission, Exists

LEMMA MarkedRow ==
  ASSUME StoreTypeOK, NEW k \in Keys, MarkClientTimedOut(k) \/ MarkEngineUnresponsive(k)
  PROVE  /\ NoAdmission /\ NoOutcome
         /\ rec[k].state \in Responsive
         /\ \A j \in Keys : j # k => rec'[j] = rec[j]
         /\ MarkClientTimedOut(k) => NoMark
  BY OneRow DEF MarkClientTimedOut, MarkEngineUnresponsive, Responsive, InFlight, NoOutcome, NoMark

\* The store calls of an owner concern its own operation.
OwnerRows(w) ==
  LET k == owner[w].op IN
  /\ NoAdmission /\ NoMark
  /\ \A j \in Keys : j # k => rec'[j] = rec[j]
  /\ \/ UNCHANGED rec
     \/ owner[w].pc = "expiring" /\ CancelBeforeStart(k) /\ rec'[k].state = "CANCELLED_BEFORE_START"
     \/ owner[w].pc = "starting" /\ Start(k) /\ rec'[k].state = "IN_FLIGHT" /\ owner'[w].pc = "claimed"
     \/ owner[w].pc \in {"returned", "reconciling"} /\ owner'[w].pc = "clearing" /\ rec'[k].state \in TERMINAL_STATES

LEMMA OwnerRow ==
  ASSUME TypeInv, NEW w \in Workers,
         \/ OwnerStep(w) \/ OwnerFault(w)
         \/ \E result \in {"ok", "known_failure", "uncertain"} : HandlerReturns(w, result)
  PROVE  OwnerRows(w)
  <1>t. /\ StoreTypeOK /\ owner \in [Workers -> OwnerThread]
        /\ owner[w].pc \in Busy => owner[w].op \in Keys
    BY DEF TypeInv, OwnersTyped, Busy
  <1>1. CASE UNCHANGED <<rec, order>>
    BY <1>1, RowsStill DEF OwnerRows
  <1>2. CASE OwnerCancels(w)
    <2>1. CASE CancelBeforeStart(owner[w].op)
      BY <1>t, <1>2, <2>1, OneRow DEF OwnerCancels, CancelBeforeStart, Busy, NoMark, OwnerRows
    <2> QED
      BY <1>1, <1>2, <2>1 DEF OwnerCancels, Refused, storeVars
  <1>3. CASE OwnerStarts(w)
    <2>1. CASE Start(owner[w].op) /\ OwnerGoes(w, "claimed")
      BY <1>t, <1>3, <2>1, OneRow DEF OwnerStarts, Start, Busy, NoMark, OwnerRows, OwnerGoes, OwnerThread
    <2> QED
      BY <1>1, <1>3, <2>1 DEF OwnerStarts, Refused, storeVars
  <1>4. CASE OwnerRecords(w)
    <2>1. CASE (Complete(owner[w].op) \/ Fail(owner[w].op)) /\ OwnerGoes(w, "clearing")
      <3>1. PICK k \in Keys : k = owner[w].op
        BY <1>t, <1>4 DEF OwnerRecords, Busy
      <3>2. PICK target : /\ target \in TERMINAL_STATES
                          /\ \E expected \in SUBSET InFlight, outcome \in {"result", "error"} :
                               TransitionWith(k, expected, target, outcome)
        <4>1. CASE Complete(k)
          BY <4>1 DEF Complete, CompletedState, TERMINAL_STATES
        <4>2. CASE Fail(k)
          BY <4>2 DEF Fail, Responsive, InFlight, TERMINAL_STATES
        <4> QED
          BY <2>1, <3>1, <4>1, <4>2
      <3>3. /\ NoAdmission /\ rec'[k].state = target
            /\ \A j \in Keys : j # k => rec'[j] = rec[j]
        BY <1>t, <3>2, OneRow DEF InFlight, TERMINAL_STATES
      <3>4. owner[w].pc = "returned" /\ owner'[w].pc = "clearing"
        BY <1>t, <1>4, <2>1 DEF OwnerRecords, OwnerGoes, OwnerThread
      <3>5. NoMark /\ rec'[k].state \in TERMINAL_STATES
        BY <3>2, <3>3 DEF NoMark, TERMINAL_STATES
      <3> QED
        BY <3>1, <3>3, <3>4, <3>5 DEF OwnerRows
    <2> QED
      BY <1>1, <1>4, <2>1 DEF OwnerRecords, Refused, storeVars
  <1>5. CASE OwnerReconciles(w)
    <2>1. CASE RequireReconciliation(owner[w].op)
      <3>1. PICK k \in Keys : k = owner[w].op
        BY <1>t, <1>5 DEF OwnerReconciles, Busy
      <3>2. /\ NoAdmission /\ rec'[k].state = "RECONCILIATION_REQUIRED"
            /\ \A j \in Keys : j # k => rec'[j] = rec[j]
        BY <1>t, <2>1, <3>1, OneRow DEF RequireReconciliation, InFlight
      <3>3. owner[w].pc = "reconciling" /\ owner'[w].pc = "clearing"
        BY <1>t, <1>5 DEF OwnerReconciles, OwnerGoes, OwnerThread
      <3> QED
        BY <3>1, <3>2, <3>3 DEF OwnerRows, NoMark, TERMINAL_STATES
    <2> QED
      BY <1>1, <1>5, <2>1 DEF OwnerReconciles, Refused, storeVars
  <1>6. CASE \/ OwnerStops(w) \/ OwnerTakes(w) \/ OwnerInspects(w) \/ OwnerCalls(w) \/ OwnerClears(w)
             \/ OwnerFault(w)
             \/ \E result \in {"ok", "known_failure", "uncertain"} : HandlerReturns(w, result)
    BY <1>1, <1>6 DEF OwnerStops, OwnerTakes, OwnerInspects, OwnerCalls, OwnerClears, OwnerFault,
       HandlerReturns, storeVars
  <1> QED
    BY <1>2, <1>3, <1>4, <1>5, <1>6 DEF OwnerStep

\* The watchdog marks the operation it watches, and goes on to quarantine its worker.
WatchdogRows(w) ==
  /\ NoAdmission /\ NoOutcome
  /\ \/ NoMark
     \/ /\ rec[watchdog[w].active].state \in Responsive /\ watchdog[w].active \in Keys
        /\ watchdog'[w].pc = "marking"

LEMMA WatchdogRow ==
  ASSUME TypeInv, NEW w \in Workers, WatchdogStep(w) \/ WatchdogFault(w)
  PROVE  WatchdogRows(w)
  <1>t. StoreTypeOK /\ watchdog \in [Workers -> WatchdogThread]
    BY DEF TypeInv, WatchdogsTyped
  <1>1. CASE UNCHANGED <<rec, order>>
    BY <1>1, RowsStill DEF WatchdogRows
  <1>2. CASE WatchdogSweeps(w)
    BY <1>t, <1>2, CancelledRows DEF WatchdogSweeps, WatchdogRows
  <1>3. CASE WatchdogMarks(w)
    <2>1. watchdog[w].active \in Keys
      BY <1>3 DEF WatchdogMarks, TypeInv, WatchdogsTyped
    <2>2. CASE MarkEngineUnresponsive(watchdog[w].active) /\ WatchdogGoes(w, "marking")
      BY <1>t, <2>1, <2>2, MarkedRow DEF WatchdogGoes, WatchdogThread, WatchdogRows
    <2> QED
      BY <1>1, <1>3, <2>2 DEF WatchdogMarks, Refused, storeVars
  <1>4. CASE WatchdogProbes(w) \/ WatchdogQuarantines(w) \/ WatchdogStops(w) \/ WatchdogFault(w)
    BY <1>1, <1>4 DEF WatchdogProbes, WatchdogQuarantines, WatchdogStops, WatchdogFault, storeVars
  <1> QED
    BY <1>2, <1>3, <1>4 DEF WatchdogStep

\* close() marks the operation it gave up on.
CloserRows(w) ==
  /\ NoAdmission /\ NoOutcome
  /\ NoMark \/ worker[w].closer = "marking"
  /\ worker[w].closer = "stopping" => \A k \in Keys : rec'[k].state # "QUEUED"

LEMMA CloserRow ==
  ASSUME TypeInv, NEW w \in Workers, CloseEnter(w) \/ CloserStep(w)
  PROVE  CloserRows(w)
  <1>t. StoreTypeOK
    BY DEF TypeInv
  <1>1. CASE CloseCancels(w)
    BY <1>t, <1>1, CancelledRows DEF CloseCancels, CloserRows
  <1>2. CASE CloseMarks(w)
    <2>1. worker[w].drain \in Keys
      BY <1>2 DEF CloseMarks, TypeInv, WorkersTyped
    <2> QED
      BY <1>t, <1>2, <2>1, MarkedRow, RowsStill DEF CloseMarks, Refused, storeVars, CloserRows
  <1>3. CASE CloseEnter(w) \/ CloseJoinsOwner(w) \/ CloseTimesOut(w) \/ CloseFails(w) \/ CloseSucceeds(w)
    BY <1>3, RowsStill DEF CloseEnter, CloseJoinsOwner, CloseTimesOut, CloseFails, CloseSucceeds,
       storeVars, CloserRows
  <1> QED
    BY <1>1, <1>2, <1>3 DEF CloserStep

\* Beside its admission, a client writes no more than that it timed out.
LEMMA ClientRow ==
  ASSUME TypeInv, NEW c \in Clients, ClientNext(c)
  PROVE  /\ NoOutcome /\ NoMark
         /\ \/ NoAdmission
            \/ /\ client[c].pc = "admitting" /\ client[c].key \in Keys /\ client[c].request \in Requests
               /\ Admit(client[c].key, client[c].request)
               /\ client' = [client EXCEPT ![c].pc = "putting"] /\ UNCHANGED worker
  <1>t. /\ StoreTypeOK
        /\ client[c].pc # "idle" => client[c].key \in Keys /\ client[c].request \in Requests
    BY DEF TypeInv, ClientsTyped
  <1>1. CASE SubmitAdmit(c)
    <2>1. CASE Admit(client[c].key, client[c].request) /\ client' = [client EXCEPT ![c].pc = "putting"] /\ UNCHANGED worker
      BY <1>t, <1>1, <2>1 DEF SubmitAdmit, Admit, StoreTypeOK, NoOutcome, NoMark, Exists, InFlight
    <2> QED
      BY <1>1, <2>1, RowsStill DEF SubmitAdmit, storeVars
  <1>2. CASE WaitTimeOut(c)
    BY <1>t, <1>2, MarkedRow, RowsStill DEF WaitTimeOut, Refused, storeVars
  <1>3. CASE \/ \E k \in Keys, r \in Requests : SubmitEnter(c, k, r)
             \/ SubmitCheck(c) \/ SubmitPut(c) \/ SubmitReturn(c) \/ WaitLook(c)
    BY <1>3, RowsStill DEF SubmitEnter, SubmitCheck, SubmitPut, SubmitReturn, WaitLook, storeVars
  <1> QED
    BY <1>1, <1>2, <1>3 DEF ClientNext, ClientStep

-----------------------------------------------------------------------------
(* What submit checks still holds when it is used.                         *)

AdmitInv ==
  /\ \A c \in Clients : client[c].pc = "admitting" /\ ~Exists(client[c].key) => Admissible
  /\ \A c \in Clients : client[c].pc = "putting" => Len(worker[current].queue) < QueueSize
  /\ QueueWithinBound

LEMMA AdmitAtInit == Init => AdmitInv
  <1> SUFFICES ASSUME Init
               PROVE  AdmitInv
    OBVIOUS
  <1>1. \A c \in Clients : client[c].pc = "idle"
    BY DEF Init, IdleClient
  <1>2. \A w \in Workers : worker[w].queue = <<>>
    BY DEF Init, Blank
  <1> QED
    BY <1>1, <1>2, WorkerAssumption DEF AdmitInv, QueueWithinBound

\* A row stays.
LEMMA RowStays ==
  ASSUME TypeInv, RowsGoOn
  PROVE  \A c \in Clients : client[c].pc # "idle" /\ Exists(client[c].key) => rec'[client[c].key].state # "ABSENT"
  BY DEF TypeInv, ClientsTyped, RowsGoOn, Exists

LEMMA OwnerKeepsAdmit ==
  ASSUME TypeInv, AdmitInv, RowsGoOn, NEW w \in Workers, OwnerEffect(w)
  PROVE  AdmitInv'
  <1>1. \A v \in Workers : worker[v].queue \in Seq(Keys)
    BY DEF TypeInv, WorkersTyped, WorkerObject
  <1>2. \A v \in Workers : Len(worker'[v].queue) <= Len(worker[v].queue) /\ Len(worker'[v].queue) \in Nat
    <2>1. ASSUME NEW q \in Seq(Keys)
          PROVE  Len(q) \in Nat /\ (q # <<>> => Len(Tail(q)) <= Len(q) /\ Len(Tail(q)) \in Nat)
      <3>1. Len(q) \in Nat
        OBVIOUS
      <3>2. q # <<>> => Tail(q) \in Seq(Keys) /\ Len(Tail(q)) = Len(q) - 1
        BY HeadTailProperties
      <3>3. q # <<>> => Len(Tail(q)) \in Nat
        BY <3>2, LenProperties
      <3> QED
        BY <3>1, <3>2, <3>3
    <2>2. \A v \in Workers : \/ worker'[v].queue = worker[v].queue
                             \/ worker[v].queue # <<>> /\ worker'[v].queue = Tail(worker[v].queue)
      BY DEF OwnerEffect
    <2> TAKE v \in Workers
    <2>3. CASE worker'[v].queue = worker[v].queue
      BY <1>1, <2>1, <2>3
    <2>4. CASE worker[v].queue # <<>> /\ worker'[v].queue = Tail(worker[v].queue)
      BY <1>1, <2>1, <2>4
    <2> QED
      BY <2>2, <2>3, <2>4
  <1>3. /\ UNCHANGED <<current, client>> /\ current \in Workers
        /\ worker'[current].stopping = worker[current].stopping
        /\ worker'[current].quarantined = worker[current].quarantined
    BY DEF OwnerEffect, TypeInv
  <1>4. Len(worker'[current].queue) <= Len(worker[current].queue) /\ QueueSize \in Nat
        /\ \A v \in Workers : Len(worker[v].queue) \in Nat
    BY <1>1, <1>2, <1>3, WorkerAssumption
  <1>5. QueueWithinBound'
    BY <1>2, <1>4 DEF AdmitInv, QueueWithinBound
  <1>6. Admissible => Admissible'
    BY <1>2, <1>3, <1>4 DEF Admissible
  <1>7. \A c \in Clients : client[c].pc = "admitting" /\ rec'[client[c].key].state = "ABSENT" => Admissible'
    BY <1>6, RowStays DEF AdmitInv, Exists
  <1>8. \A c \in Clients : client[c].pc = "putting" => Len(worker'[current].queue) < QueueSize
    BY <1>2, <1>3, <1>4 DEF AdmitInv
  <1> QED
    BY <1>3, <1>5, <1>7, <1>8 DEF AdmitInv, Exists

LEMMA WatchdogKeepsAdmit ==
  ASSUME TypeInv, ThreadsInv, AdmitInv, RowsGoOn, NEW w \in Workers, WatchdogEffect(w)
  PROVE  AdmitInv'
  <1>1. \A v \in Workers : worker'[v].queue = worker[v].queue
    BY DEF WatchdogEffect
  <1>2. /\ UNCHANGED <<current, client>> /\ current \in Workers
        /\ worker'[current].stopping = worker[current].stopping
        /\ \A c \in Clients : Submitting(c) => worker'[current].quarantined = worker[current].quarantined
    BY DEF WatchdogEffect, ThreadsInv, LockInv, TypeInv
  <1> QED
    BY <1>1, <1>2, RowStays DEF AdmitInv, Admissible, QueueWithinBound, Exists, Submitting

LEMMA CloserKeepsAdmit ==
  ASSUME TypeInv, ThreadsInv, AdmitInv, RowsGoOn, NEW w \in Workers, CloserEffect(w)
  PROVE  AdmitInv'
  <1>1. \A v \in Workers : worker'[v].queue = worker[v].queue
    BY DEF CloserEffect
  <1>2. /\ UNCHANGED <<current, client>> /\ current \in Workers
        /\ \A c \in Clients : Submitting(c) /\ ~worker[current].stopping => worker'[current] = worker[current]
    BY DEF CloserEffect, ThreadsInv, LockInv, LifeInv, TypeInv
  <1> QED
    BY <1>1, <1>2, RowStays DEF AdmitInv, Admissible, QueueWithinBound, Exists, Submitting

LEMMA ClientKeepsAdmit ==
  ASSUME TypeInv, ThreadsInv, AdmitInv, RowsGoOn, NEW c \in Clients, ClientNext(c)
  PROVE  AdmitInv'
  <1>t. /\ worker \in [Workers -> WorkerObject] /\ client \in [Clients -> ClientThread]
        /\ current \in Workers /\ \A v \in Workers : worker[v].queue \in Seq(Keys)
        /\ client[c].pc # "idle" => client[c].key \in Keys /\ client[c].request \in Requests
    BY DEF TypeInv, WorkersTyped, ClientsTyped, WorkerObject
  <1>e. ClientEffect(c)
    BY ClientEffects
  <1>1. \A d \in Clients : d # c => client'[d] = client[d] /\ (Submitting(c) => ~Submitting(d))
    BY <1>e DEF ClientEffect, ThreadsInv, LockInv
  <1>2. CASE SubmitPut(c)
    <2>1. /\ worker'[current].queue = Append(worker[current].queue, client[c].key)
          /\ \A v \in Workers : v # current => worker'[v] = worker[v]
          /\ UNCHANGED current /\ client'[c].pc = "waiting" /\ Submitting(c)
          /\ Len(worker[current].queue) < QueueSize
      BY <1>t, <1>2 DEF SubmitPut, WorkerObject, ClientThread, Submitting, AdmitInv
    <2>2. QueueWithinBound'
      BY <1>t, <1>2, <2>1, WorkerAssumption DEF AdmitInv, QueueWithinBound, SubmitPut
    <2>3. \A d \in Clients : client'[d].pc \notin {"admitting", "putting"}
      BY <1>1, <2>1 DEF Submitting
    <2> QED
      BY <2>2, <2>3 DEF AdmitInv
  <1>3. CASE ~SubmitPut(c)
    <2>1. \A v \in Workers : worker'[v].queue = worker[v].queue
      <3>1. UNCHANGED worker \/ \E l : worker' = [worker EXCEPT ![current].lock = l]
        BY <1>3 DEF ClientNext, ClientStep, SubmitEnter, SubmitCheck, SubmitAdmit, SubmitReturn,
                    WaitLook, WaitTimeOut
      <3> QED
        BY <1>t, <3>1 DEF WorkerObject
    <2>2. /\ UNCHANGED current
          /\ worker'[current].stopping = worker[current].stopping
          /\ worker'[current].quarantined = worker[current].quarantined
      BY <1>e DEF ClientEffect
    <2>3. Admissible' <=> Admissible
      BY <1>t, <2>1, <2>2 DEF Admissible
    <2>4. client'[c].pc = "admitting" => client'[c].key = client[c].key /\ (Exists(client[c].key) \/ Admissible)
                                         /\ client[c].pc # "idle"
      BY <1>t, <1>3 DEF ClientNext, ClientStep, SubmitEnter, SubmitCheck, SubmitAdmit, SubmitReturn,
                        WaitLook, WaitTimeOut, ClientThread, IdleClient
    <2>5. client'[c].pc = "putting" => Admissible
      <3>1. CASE client'[c].pc = "putting" /\ SubmitAdmit(c)
        BY <1>t, <3>1 DEF SubmitAdmit, Admit, AdmitInv, ClientThread, IdleClient
      <3>2. CASE client'[c].pc = "putting" /\ ~SubmitAdmit(c)
        BY <1>t, <1>3, <3>2 DEF ClientNext, ClientStep, SubmitEnter, SubmitCheck, SubmitReturn,
                        WaitLook, WaitTimeOut, ClientThread, IdleClient
      <3> QED
        BY <3>1, <3>2
    <2>6. \A d \in Clients : client'[d].pc = "admitting" /\ rec'[client'[d].key].state = "ABSENT" => Admissible
      BY <1>1, <2>4, RowStays DEF AdmitInv, Exists
    <2>7. \A d \in Clients : client'[d].pc = "putting" => Len(worker'[current].queue) < QueueSize
      BY <1>t, <1>1, <2>1, <2>5 DEF AdmitInv, Admissible
    <2> QED
      BY <2>1, <2>2, <2>3, <2>6, <2>7 DEF AdmitInv, QueueWithinBound, Exists
  <1> QED
    BY <1>2, <1>3

LEMMA RuntimeNextKeepsAdmit == TypeInv /\ ThreadsInv /\ AdmitInv /\ [RuntimeNext]_vars => AdmitInv'
  <1> SUFFICES ASSUME TypeInv, ThreadsInv, AdmitInv, [RuntimeNext]_vars
               PROVE  AdmitInv'
    OBVIOUS
  <1>g. RowsGoOn
    BY RuntimeNextGoesOn
  <1>t. worker \in [Workers -> WorkerObject] /\ current \in Workers /\ current \in Nat
    BY DEF TypeInv, WorkersTyped, Workers
  <1>1. ASSUME NEW w \in Workers, ConstructReconcile(w) \/ ConstructCancel(w)
        PROVE  AdmitInv'
    <2>1. w = current
      BY <1>t, <1>1, BlankFields DEF ConstructReconcile, ConstructCancel, ThreadsInv, LifeInv, Workers
    <2>2. \A c \in Clients : ~Submitting(c)
      BY <1>1, <2>1 DEF ConstructReconcile, ConstructCancel, ThreadsInv, LockInv
    <2>3. UNCHANGED <<current, client>> /\ \E l : worker' = [worker EXCEPT ![w].life = l]
      BY <1>1 DEF ConstructReconcile, ConstructCancel
    <2>4. \A v \in Workers : worker'[v].queue = worker[v].queue
      BY <1>t, <2>3 DEF WorkerObject
    <2> QED
      BY <2>2, <2>3, <2>4 DEF AdmitInv, QueueWithinBound, Submitting
  <1>2. ASSUME NEW w \in Workers, WorkerNext(w)
        PROVE  AdmitInv'
    BY <1>1, <1>2, <1>g, OwnerEffects, OwnerKeepsAdmit, WatchdogEffects, WatchdogKeepsAdmit,
       CloserEffects, CloserKeepsAdmit DEF WorkerNext
  <1>3. CASE Reopen \/ Replace
    <2>1. /\ \A c \in Clients : client'[c].pc = "idle"
          /\ \A v \in Workers : worker'[v].queue = worker[v].queue
      BY <1>t, <1>3 DEF Reopen, Replace, ClientsIdle, WorkerObject
    <2> QED
      BY <2>1 DEF AdmitInv, QueueWithinBound
  <1>4. CASE Crash
    <2>1. \A c \in Clients : client'[c].pc = "idle"
      BY <1>4 DEF Crash, IdleClient
    <2>2. \A v \in Workers : worker'[v].queue = <<>> \/ worker'[v] = worker[v]
      BY <1>4, BlankFields DEF Crash
    <2> QED
      BY <2>1, <2>2, WorkerAssumption DEF AdmitInv, QueueWithinBound
  <1>5. ASSUME (\E k \in Keys, d \in Deadlines : TimePasses(k, d)) \/ UNCHANGED vars
        PROVE  AdmitInv'
    BY <1>5 DEF TimePasses, DeadlinePasses, threadVars, vars, storeVars, AdmitInv, QueueWithinBound, Exists, Admissible
  <1>6. ASSUME NEW c \in Clients, ClientNext(c)
        PROVE  AdmitInv'
    BY <1>6, <1>g, ClientKeepsAdmit
  <1> QED
    BY <1>2, <1>3, <1>4, <1>5, <1>6 DEF RuntimeNext, Next

LEMMA AdmitInvAlways == RuntimeSpec => []AdmitInv
  BY AdmitAtInit, TypeInvAlways, ThreadsInvAlways, RuntimeNextKeepsAdmit, PTL DEF RuntimeSpec

-----------------------------------------------------------------------------
(* In whose hands a key is.                                                *)

\* The worker has the key in its queue, in the hands of its owner, published as the
\* active one, or seen by its watchdog.
Holds(w, k) == \/ \E i \in DOMAIN worker[w].queue : worker[w].queue[i] = k
               \/ owner[w].op = k
               \/ worker[w].active = k
               \/ watchdog[w].active = k

\* The sequence numbers the rows; what a worker holds has a row, which a former worker
\* will not begin, and which its recovery has decided; a stopped worker has no queued
\* rows; and the operation a client is about to put is the newest, and in no hands yet.
RowsInv ==
  /\ \A k \in Keys : Exists(k) <=> \E i \in DOMAIN order : order[i] = k
  /\ \A i, j \in DOMAIN order : order[i] = order[j] => i = j
  /\ \A w \in Workers : \A k \in Keys : Holds(w, k) => Exists(k)
  /\ \A w \in Workers : \A k \in Keys : w < current /\ Holds(w, k) =>
       /\ rec[k].state # "QUEUED"
       /\ worker[current].life # "reconciling" => Terminal(k)
  /\ worker[current].closer \notin {"none", "stopping"} => \A k \in Keys : rec[k].state # "QUEUED"
  /\ \A c \in Clients : client[c].pc = "putting" =>
       /\ order # <<>> /\ order[Len(order)] = client[c].key
       /\ \A w \in Workers : \A k \in Keys : Holds(w, k) => k # client[c].key

LEMMA RowsAtInit == Init => RowsInv
  <1> SUFFICES ASSUME Init
               PROVE  RowsInv
    OBVIOUS
  <1>1. /\ \A k \in Keys : rec[k].state = "ABSENT"
        /\ order = <<>>
        /\ \A c \in Clients : client[c].pc = "idle"
    BY DEF Init, StoreInit, NoRow, IdleClient
  <1>2. \A w \in Workers : /\ worker[w].queue = <<>> /\ worker[w].active = NoKey
                           /\ owner[w].op = NoKey /\ watchdog[w].active = NoKey
    BY DEF Init, Blank, OwnerAt, WatchdogAt
  <1>3. \A w \in Workers : \A k \in Keys : ~Holds(w, k)
    BY <1>2, WorkerAssumption DEF Holds
  <1>4. worker[current].closer = "none"
    BY WorkerAssumption DEF Init, Blank, Workers
  <1> QED
    BY <1>1, <1>3, <1>4 DEF RowsInv, Exists

LEMMA TailElements ==
  ASSUME NEW q \in Seq(Keys), q # <<>>, NEW i \in DOMAIN Tail(q)
  PROVE  i + 1 \in DOMAIN q /\ Tail(q)[i] = q[i + 1] /\ i \in Nat
  <1>1. Tail(q) \in Seq(Keys) /\ Len(Tail(q)) = Len(q) - 1 /\ \A j \in 1..Len(Tail(q)) : Tail(q)[j] = q[j + 1]
    BY HeadTailProperties
  <1>2. DOMAIN Tail(q) = 1..Len(Tail(q)) /\ DOMAIN q = 1..Len(q) /\ Len(q) \in Nat
    BY <1>1, LenProperties
  <1> QED
    BY <1>1, <1>2

LEMMA HeadElement ==
  ASSUME NEW q \in Seq(Keys), q # <<>>
  PROVE  1 \in DOMAIN q /\ Head(q) = q[1]
  <1>1. DOMAIN q = 1..Len(q) /\ Len(q) \in Nat /\ Len(q) # 0
    BY LenProperties, EmptySeq
  <1> QED
    BY <1>1

LEMMA OwnerHolds ==
  ASSUME TypeInv, NEW w \in Workers, OwnerEffect(w)
  PROVE  \A v \in Workers : \A k \in Keys : Holds(v, k)' => Holds(v, k)
  <1> SUFFICES ASSUME NEW v \in Workers, NEW k \in Keys, Holds(v, k)'
               PROVE  Holds(v, k)
    OBVIOUS
  <1>q. worker[w].queue \in Seq(Keys)
    BY DEF TypeInv, WorkersTyped, WorkerObject
  <1>1. CASE v # w
    BY <1>1 DEF OwnerEffect, Holds
  <1>2. CASE v = w /\ worker'[w].queue = worker[w].queue /\ owner'[w].op \in {owner[w].op, NoKey}
    BY <1>2, WorkerAssumption DEF OwnerEffect, Holds
  <1>3. CASE v = w /\ worker[w].queue # <<>> /\ worker'[w].queue = Tail(worker[w].queue) /\ owner'[w].op = Head(worker[w].queue)
    <2>1. CASE owner'[w].op = k
      BY <1>q, <1>3, <2>1, HeadElement DEF Holds
    <2>2. ASSUME NEW i \in DOMAIN Tail(worker[w].queue), Tail(worker[w].queue)[i] = k
          PROVE  Holds(w, k)
      BY <1>q, <1>3, <2>2, TailElements DEF Holds
    <2>3. CASE worker'[w].active = k \/ watchdog'[w].active = k
      BY <1>3, <2>3, WorkerAssumption DEF OwnerEffect, Holds
    <2>4. \/ owner'[w].op = k \/ worker'[w].active = k \/ watchdog'[w].active = k
          \/ \E i \in DOMAIN Tail(worker[w].queue) : Tail(worker[w].queue)[i] = k
      BY <1>3 DEF Holds
    <2> QED
      BY <1>3, <2>1, <2>2, <2>3, <2>4
  <1> QED
    BY <1>1, <1>2, <1>3 DEF OwnerEffect

\* No thread but a client that puts its operation brings a key into a worker.
LEMMA OthersHold ==
  ASSUME TypeInv,
         \/ \E w \in Workers : WatchdogEffect(w) \/ CloserEffect(w) \/ ConstructCancel(w) \/ ConstructReconcile(w)
         \/ \E c \in Clients : ClientNext(c) /\ ~SubmitPut(c)
         \/ Reopen \/ Replace \/ Crash
         \/ UNCHANGED <<worker, owner, watchdog>>
  PROVE  \A v \in Workers : \A k \in Keys : Holds(v, k)' => Holds(v, k)
  <1> SUFFICES ASSUME NEW v \in Workers, NEW k \in Keys, Holds(v, k)'
               PROVE  Holds(v, k)
    OBVIOUS
  <1>t. /\ worker \in [Workers -> WorkerObject] /\ owner \in [Workers -> OwnerThread]
        /\ watchdog \in [Workers -> WatchdogThread] /\ current \in Workers
    BY DEF TypeInv, WorkersTyped, OwnersTyped, WatchdogsTyped
  <1>k. k # NoKey
    BY WorkerAssumption
  <1>1. CASE /\ worker'[v].queue = worker[v].queue /\ worker'[v].active \in {worker[v].active, NoKey}
             /\ owner'[v].op \in {owner[v].op, NoKey}
             /\ watchdog'[v].active \in {watchdog[v].active, worker[v].active, NoKey}
    BY <1>k, <1>1 DEF Holds
  <1>2. ASSUME NEW w \in Workers, WatchdogEffect(w)
        PROVE  Holds(v, k)
    <2>1. worker'[v].queue = worker[v].queue /\ worker'[v].active = worker[v].active
      BY <1>2 DEF WatchdogEffect
    <2> QED
      BY <1>1, <1>2, <2>1 DEF WatchdogEffect
  <1>3. ASSUME NEW w \in Workers, CloserEffect(w)
        PROVE  Holds(v, k)
    <2>1. worker'[v].queue = worker[v].queue /\ worker'[v].active = worker[v].active
      BY <1>3 DEF CloserEffect
    <2> QED
      BY <1>1, <1>3, <2>1 DEF CloserEffect
  <1>4. ASSUME NEW w \in Workers, ConstructCancel(w) \/ ConstructReconcile(w)
        PROVE  Holds(v, k)
    <2>1. \E l : worker' = [worker EXCEPT ![w].life = l]
      BY <1>4 DEF ConstructCancel, ConstructReconcile
    <2>2. worker'[v].queue = worker[v].queue /\ worker'[v].active = worker[v].active
      BY <1>t, <2>1 DEF WorkerObject
    <2>3. owner'[v].op \in {owner[v].op, NoKey} /\ watchdog'[v].active \in {watchdog[v].active, NoKey}
      BY <1>t, <1>4 DEF ConstructCancel, ConstructReconcile, OwnerAt, WatchdogAt
    <2> QED
      BY <1>1, <2>2, <2>3
  <1>5. ASSUME NEW c \in Clients, ClientNext(c), ~SubmitPut(c)
        PROVE  Holds(v, k)
    <2>1. UNCHANGED worker \/ \E l : worker' = [worker EXCEPT ![current].lock = l]
      BY <1>5 DEF ClientNext, ClientStep, SubmitEnter, SubmitCheck, SubmitAdmit, SubmitReturn,
                  WaitLook, WaitTimeOut
    <2>2. ASSUME NEW l, worker' = [worker EXCEPT ![current].lock = l]
          PROVE  worker'[v].queue = worker[v].queue /\ worker'[v].active = worker[v].active
      BY <1>t, <2>2 DEF WorkerObject
    <2>3. worker'[v].queue = worker[v].queue /\ worker'[v].active = worker[v].active
      BY <2>1, <2>2
    <2>4. UNCHANGED <<owner, watchdog>>
      BY <1>5, ClientEffects DEF ClientEffect
    <2> QED
      BY <1>1, <2>3, <2>4
  <1>6. CASE Reopen \/ Replace
    <2>1. \E w : worker' = [worker EXCEPT ![w].life = "reconciling"]
      BY <1>6 DEF Reopen, Replace
    <2>2. worker'[v].queue = worker[v].queue /\ worker'[v].active = worker[v].active
      BY <1>t, <2>1 DEF WorkerObject
    <2>3. UNCHANGED <<owner, watchdog>>
      BY <1>6 DEF Reopen, Replace
    <2> QED
      BY <1>1, <2>2, <2>3
  <1>7. CASE Crash
    <2>1. /\ worker'[v] = worker[v] \/ (worker'[v].queue = <<>> /\ worker'[v].active = NoKey)
          /\ owner'[v] = owner[v] \/ owner'[v].op = NoKey
          /\ watchdog'[v] = watchdog[v] \/ watchdog'[v].active = NoKey
      BY <1>7, BlankFields DEF Crash, OwnerAt, WatchdogAt
    <2> QED
      BY <1>k, <2>1 DEF Holds
  <1>8. CASE UNCHANGED <<worker, owner, watchdog>>
    BY <1>1, <1>8
  <1> QED
    BY <1>2, <1>3, <1>4, <1>5, <1>6, <1>7, <1>8
\* A step that admits nothing and gives nothing to anybody keeps RowsInv, if a worker
\* leaves its recovery, and a closer the first step of close(), with the rows decided.
LEMMA RowsKept ==
  ASSUME TypeInv, RowsInv, NoAdmission, RowsGoOn, UNCHANGED current,
         \A v \in Workers : \A k \in Keys : Holds(v, k)' => Holds(v, k),
         \A c \in Clients : client'[c].pc = "putting" => client[c].pc = "putting" /\ client'[c].key = client[c].key,
         \/ worker'[current].life # "reconciling" => worker[current].life # "reconciling"
         \/ \A k \in Keys : rec'[k].state \in {"ABSENT", "QUEUED"} \cup TERMINAL_STATES,
         \/ worker'[current].closer \in {"none", "stopping"}
         \/ worker[current].closer \notin {"none", "stopping"}
         \/ \A k \in Keys : rec'[k].state # "QUEUED"
  PROVE  RowsInv'
  <1>1. /\ \A k \in Keys : Exists(k)' <=> \E i \in DOMAIN order' : order'[i] = k
        /\ \A i, j \in DOMAIN order' : order'[i] = order'[j] => i = j
    BY DEF NoAdmission, RowsInv
  <1>2. \A w \in Workers : \A k \in Keys : Holds(w, k)' => Exists(k)'
    BY DEF NoAdmission, RowsInv
  <1>3. \A w \in Workers : \A k \in Keys : w < current' /\ Holds(w, k)' =>
          /\ rec'[k].state # "QUEUED"
          /\ worker'[current'].life # "reconciling" => Terminal(k)'
    <2> SUFFICES ASSUME NEW w \in Workers, NEW k \in Keys, w < current, Holds(w, k)'
                 PROVE  /\ rec'[k].state # "QUEUED"
                        /\ worker'[current].life # "reconciling" => Terminal(k)'
      OBVIOUS
    <2>1. Holds(w, k)
      OBVIOUS
    <2>2. rec'[k].state # "QUEUED"
      BY <2>1 DEF NoAdmission, RowsInv
    <2>3. Exists(k)' /\ (Terminal(k) => Terminal(k)')
      BY <2>1 DEF NoAdmission, RowsInv, RowsGoOn, Terminal
    <2> QED
      BY <2>1, <2>2, <2>3 DEF RowsInv, Terminal, Exists
  <1>4. worker'[current'].closer \notin {"none", "stopping"} => \A k \in Keys : rec'[k].state # "QUEUED"
    BY DEF RowsInv, NoAdmission
  <1>5. \A c \in Clients : client'[c].pc = "putting" =>
          /\ order' # <<>> /\ order'[Len(order')] = client'[c].key
          /\ \A w \in Workers : \A k \in Keys : Holds(w, k)' => k # client'[c].key
    BY DEF RowsInv, NoAdmission
  <1> QED
    BY <1>1, <1>2, <1>3, <1>4, <1>5 DEF RowsInv

LEMMA AppendIndex ==
  ASSUME NEW q \in Seq(Keys), NEW k \in Keys
  PROVE  /\ Append(q, k) \in Seq(Keys) /\ Append(q, k) # <<>>
         /\ DOMAIN Append(q, k) = 1..Len(q) + 1 /\ DOMAIN q = 1..Len(q)
         /\ Len(Append(q, k)) = Len(q) + 1 /\ Len(q) \in Nat
         /\ Append(q, k)[Len(q) + 1] = k
         /\ \A i \in 1..Len(q) : Append(q, k)[i] = q[i]
  <1>1. /\ Append(q, k) \in Seq(Keys) /\ Append(q, k) # <<>> /\ Len(Append(q, k)) = Len(q) + 1
        /\ Append(q, k)[Len(q) + 1] = k
        /\ \A i \in 1..Len(q) : Append(q, k)[i] = q[i]
    BY AppendProperties
  <1>2. DOMAIN q = 1..Len(q) /\ Len(q) \in Nat
    BY LenProperties
  <1>3. DOMAIN Append(q, k) = 1..Len(Append(q, k))
    BY <1>1, LenProperties
  <1> QED
    BY <1>1, <1>2, <1>3

\* The new operation has no holder, and its client is the only one that puts one.
LEMMA AdmitKeepsRows ==
  ASSUME TypeInv, ThreadsInv, AdmitInv, RowsInv, NEW c \in Clients,
         client[c].pc = "admitting", client[c].key \in Keys, client[c].request \in Requests,
         Admit(client[c].key, client[c].request),
         client' = [client EXCEPT ![c].pc = "putting"],
         UNCHANGED <<current, worker, owner, watchdog>>
  PROVE  RowsInv'
  <1>1. PICK k \in Keys : k = client[c].key
    OBVIOUS
  <1>2. /\ ~Exists(k) /\ order' = Append(order, k) /\ rec'[k].state = "QUEUED"
        /\ \A j \in Keys : j # k => rec'[j] = rec[j]
    BY <1>1 DEF Admit, TypeInv, StoreTypeOK
  <1>3. order \in Seq(Keys)
    BY DEF TypeInv, StoreTypeOK
  <1>4. \A w \in Workers : \A j \in Keys : Holds(w, j)' <=> Holds(w, j)
    BY DEF Holds
  <1>5. \A w \in Workers : \A j \in Keys : Holds(w, j) => j # k
    BY <1>2 DEF RowsInv
  <1>6. \A i \in DOMAIN order : order[i] # k
    BY <1>2 DEF RowsInv
  <1>7. /\ client'[c].pc = "putting" /\ client'[c].key = k
        /\ \A d \in Clients : d # c => client'[d] = client[d] /\ client[d].pc # "putting"
    BY <1>1 DEF TypeInv, ClientsTyped, ClientThread, ThreadsInv, LockInv, Submitting
  <1>8. worker[current].closer = "none"
    BY <1>1, <1>2 DEF AdmitInv, Admissible, ThreadsInv, LifeInv, TypeInv
  <1>a. /\ DOMAIN order' = 1..Len(order) + 1 /\ DOMAIN order = 1..Len(order)
        /\ Len(order') = Len(order) + 1 /\ Len(order) \in Nat /\ order' # <<>>
        /\ order'[Len(order) + 1] = k
        /\ \A i \in 1..Len(order) : order'[i] = order[i]
    BY <1>2, <1>3, AppendIndex
  <1>9. \A j \in Keys : Exists(j)' <=> \E i \in DOMAIN order' : order'[i] = j
    <2> TAKE j \in Keys
    <2>1. CASE j = k
      BY <1>2, <1>a, <2>1 DEF Exists
    <2>2. CASE j # k
      <3>1. Exists(j)' <=> Exists(j)
        BY <1>2, <2>2 DEF Exists
      <3>2. (\E i \in DOMAIN order' : order'[i] = j) <=> \E i \in DOMAIN order : order[i] = j
        BY <1>a, <2>2
      <3> QED
        BY <3>1, <3>2 DEF RowsInv
    <2> QED
      BY <2>1, <2>2
  <1>10. \A i, j \in DOMAIN order' : order'[i] = order'[j] => i = j
    BY <1>a, <1>6 DEF RowsInv
  <1>11. \A w \in Workers : \A j \in Keys : Holds(w, j)' => Exists(j)'
    BY <1>2, <1>4, <1>5 DEF RowsInv, Exists
  <1>12. \A w \in Workers : \A j \in Keys : w < current /\ Holds(w, j) =>
           /\ rec'[j].state # "QUEUED"
           /\ worker[current].life # "reconciling" => rec'[j].state \in TERMINAL_STATES
    BY <1>2, <1>5 DEF RowsInv, Terminal
  <1>13. \A d \in Clients : client'[d].pc = "putting" =>
          /\ order' # <<>> /\ order'[Len(order')] = client'[d].key
          /\ \A w \in Workers : \A j \in Keys : Holds(w, j) => j # client'[d].key
    BY <1>5, <1>7, <1>a
  <1> QED
    BY <1>4, <1>8, <1>9, <1>10, <1>11, <1>12, <1>13 DEF RowsInv, Terminal

\* The operation comes into the hands of the current worker.
LEMMA PutKeepsRows ==
  ASSUME TypeInv, ThreadsInv, RowsInv, NEW c \in Clients, SubmitPut(c)
  PROVE  RowsInv'
  <1>1. PICK k \in Keys : k = client[c].key
    BY DEF SubmitPut, TypeInv, ClientsTyped
  <1>t. /\ worker \in [Workers -> WorkerObject] /\ current \in Workers /\ current \in Nat
        /\ worker[current].queue \in Seq(Keys)
    BY DEF TypeInv, WorkersTyped, WorkerObject, Workers
  <1>2. /\ worker'[current].queue = Append(worker[current].queue, k)
        /\ worker'[current].active = worker[current].active
        /\ worker'[current].life = worker[current].life
        /\ worker'[current].closer = worker[current].closer
        /\ \A v \in Workers : v # current => worker'[v] = worker[v]
        /\ UNCHANGED <<rec, order, current, owner, watchdog>>
    BY <1>1, <1>t DEF SubmitPut, WorkerObject, storeVars
  <1>3. Exists(k)
    <2>1. order # <<>> /\ order[Len(order)] = k /\ order \in Seq(Keys)
      BY <1>1 DEF SubmitPut, RowsInv, TypeInv, StoreTypeOK
    <2>2. Len(order) \in DOMAIN order
      BY <2>1, LenProperties, EmptySeq
    <2> QED
      BY <2>1, <2>2 DEF RowsInv
  <1>4. \A v \in Workers : \A j \in Keys : Holds(v, j)' => Holds(v, j) \/ (v = current /\ j = k)
    <2> TAKE v \in Workers
    <2> TAKE j \in Keys
    <2>1. CASE v # current
      BY <1>2, <2>1 DEF Holds
    <2>2. CASE v = current
      <3>1. ASSUME NEW i \in DOMAIN worker'[current].queue, worker'[current].queue[i] = j, j # k
            PROVE  \E n \in DOMAIN worker[current].queue : worker[current].queue[n] = j
        BY <1>t, <1>2, <3>1, AppendIndex
      <3> QED
        BY <1>2, <2>2, <3>1 DEF Holds
    <2> QED
      BY <2>1, <2>2
  <1>5. \A d \in Clients : client'[d].pc # "putting"
    BY DEF SubmitPut, TypeInv, ClientsTyped, ClientThread, ThreadsInv, LockInv, Submitting
  <1>6. \A w \in Workers : \A j \in Keys : Holds(w, j)' => Exists(j)
    BY <1>3, <1>4 DEF RowsInv
  <1>7. \A w \in Workers : \A j \in Keys : w < current /\ Holds(w, j)' => Holds(w, j)
    BY <1>t, <1>4
  <1>8. \A j \in Keys : (Exists(j)' <=> Exists(j)) /\ (Terminal(j)' <=> Terminal(j))
    BY <1>2 DEF Exists, Terminal
  <1> QED
    BY <1>2, <1>5, <1>6, <1>7, <1>8 DEF RowsInv

LEMMA ClientKeepsRows ==
  ASSUME TypeInv, ThreadsInv, AdmitInv, RowsInv, RowsGoOn, NEW c \in Clients, ClientNext(c)
  PROVE  RowsInv'
  <1>t. client \in [Clients -> ClientThread]
    BY DEF TypeInv, ClientsTyped
  <1>e. ClientEffect(c)
    BY ClientEffects
  <1>1. CASE SubmitPut(c)
    BY <1>1, PutKeepsRows
  <1>2. CASE ~NoAdmission
    <2>1. /\ client[c].pc = "admitting" /\ client[c].key \in Keys /\ client[c].request \in Requests
          /\ Admit(client[c].key, client[c].request)
          /\ client' = [client EXCEPT ![c].pc = "putting"] /\ UNCHANGED worker
      BY <1>2, ClientRow
    <2> QED
      BY <1>e, <2>1, AdmitKeepsRows DEF ClientEffect
  <1>3. CASE NoAdmission /\ ~SubmitPut(c)
    <2>1. client'[c].pc # "putting"
      <3>1. CASE SubmitAdmit(c)
        <4>1. ~Admit(client[c].key, client[c].request)
          BY <1>3, <3>1 DEF SubmitAdmit, Admit, NoAdmission, TypeInv, ClientsTyped, StoreTypeOK, Exists
        <4> QED
          BY <1>t, <3>1, <4>1 DEF SubmitAdmit, IdleClient, ClientThread
      <3>2. CASE ~SubmitAdmit(c)
        BY <1>t, <1>3, <3>2 DEF ClientNext, ClientStep, SubmitEnter, SubmitCheck, SubmitReturn,
                        WaitLook, WaitTimeOut, ClientThread, IdleClient
      <3> QED
        BY <3>1, <3>2
    <2>2. \A d \in Clients : client'[d].pc = "putting" => client'[d] = client[d]
      BY <1>e, <2>1 DEF ClientEffect
    <2>3. \A v \in Workers : \A k \in Keys : Holds(v, k)' => Holds(v, k)
      BY <1>3, OthersHold
    <2>4. /\ UNCHANGED current /\ worker'[current].life = worker[current].life
          /\ worker'[current].closer = worker[current].closer
      BY <1>e DEF ClientEffect
    <2> QED
      BY <1>3, <2>2, <2>3, <2>4, RowsKept
  <1> QED
    BY <1>1, <1>2, <1>3

\* The next worker finds the operations of the former one decided, or will decide them.
LEMMA NextWorkerKeepsRows ==
  ASSUME TypeInv, ThreadsInv, RowsInv, Reopen \/ Replace \/ Crash
  PROVE  RowsInv'
  <1>t. worker \in [Workers -> WorkerObject] /\ current \in Workers /\ current \in Nat
    BY DEF TypeInv, WorkersTyped, Workers
  <1>1. /\ UNCHANGED <<rec, order>> /\ current' = current + 1 /\ current + 1 \in Workers
        /\ \A c \in Clients : client'[c].pc = "idle"
    BY <1>t, WorkerAssumption DEF Reopen, Replace, Crash, ClientsIdle, IdleClient, storeVars, Workers
  <1>2. \A v \in Workers : \A k \in Keys : Holds(v, k)' => Holds(v, k)
    BY OthersHold
  <1>3. worker[current + 1] = Blank("unbuilt")
    BY <1>t, <1>1 DEF ThreadsInv, LifeInv
  <1>4. worker'[current'].life = "reconciling" /\ worker'[current'].closer = "none"
    <2>1. CASE Reopen \/ Replace
      BY <1>t, <1>1, <1>3, <2>1, BlankFields DEF Reopen, Replace, WorkerObject
    <2>2. CASE Crash
      BY <1>t, <1>1, <2>2, BlankFields DEF Crash
    <2> QED
      BY <2>1, <2>2
  <1>5. \A w \in Workers : \A k \in Keys : w < current' /\ Holds(w, k)' => rec[k].state # "QUEUED"
    <2> SUFFICES ASSUME NEW w \in Workers, NEW k \in Keys, w < current + 1, Holds(w, k)'
                 PROVE  rec[k].state # "QUEUED"
      BY <1>1
    <2>1. w < current \/ w = current
      BY <1>t DEF Workers
    <2>2. CASE Crash
      <3>1. worker'[w].queue = <<>> /\ worker'[w].active = NoKey /\ owner'[w].op = NoKey /\ watchdog'[w].active = NoKey
        BY <1>t, <2>1, <2>2, BlankFields DEF Crash, OwnerAt, WatchdogAt, Workers
      <3> QED
        BY <3>1, WorkerAssumption DEF Holds
    <2>3. CASE Reopen \/ Replace
      <3>1. worker[current].closer \in {"closed", "failed"}
        BY <2>3 DEF Reopen, Replace
      <3>2. Holds(w, k)
        BY <1>2
      <3> QED
        BY <2>1, <3>1, <3>2 DEF RowsInv
    <2> QED
      BY <2>2, <2>3
  <1>6. \A k \in Keys : Exists(k)' <=> Exists(k)
    BY <1>1 DEF Exists
  <1> QED
    BY <1>1, <1>2, <1>4, <1>5, <1>6 DEF RowsInv

LEMMA RuntimeNextKeepsRows ==
  TypeInv /\ ThreadsInv /\ AdmitInv /\ RowsInv /\ [RuntimeNext]_vars => RowsInv'
  <1> SUFFICES ASSUME TypeInv, ThreadsInv, AdmitInv, RowsInv, [RuntimeNext]_vars
               PROVE  RowsInv'
    OBVIOUS
  <1>g. RowsGoOn
    BY RuntimeNextGoesOn
  <1>t. /\ worker \in [Workers -> WorkerObject] /\ current \in Workers /\ current \in Nat
        /\ StoreTypeOK
    BY DEF TypeInv, WorkersTyped, Workers
  <1>1. ASSUME NEW w \in Workers,
               \/ OwnerStep(w) \/ OwnerFault(w)
               \/ \E result \in {"ok", "known_failure", "uncertain"} : HandlerReturns(w, result)
        PROVE  RowsInv'
    <2>1. OwnerEffect(w) /\ NoAdmission
      BY <1>1, OwnerEffects, OwnerRow DEF OwnerRows
    <2>2. /\ UNCHANGED <<current, client>> /\ worker'[current].life = worker[current].life
          /\ worker'[current].closer = worker[current].closer
      BY <1>t, <2>1 DEF OwnerEffect
    <2> QED
      BY <1>g, <2>1, <2>2, OwnerHolds, RowsKept
  <1>2. ASSUME NEW w \in Workers, WatchdogStep(w) \/ WatchdogFault(w)
        PROVE  RowsInv'
    <2>1. WatchdogEffect(w) /\ NoAdmission
      BY <1>2, WatchdogEffects, WatchdogRow DEF WatchdogRows
    <2>2. /\ UNCHANGED <<current, client>> /\ worker'[current].life = worker[current].life
          /\ worker'[current].closer = worker[current].closer
      BY <1>t, <2>1 DEF WatchdogEffect
    <2> QED
      BY <1>g, <2>1, <2>2, OthersHold, RowsKept
  <1>3. ASSUME NEW w \in Workers, CloseEnter(w) \/ CloserStep(w)
        PROVE  RowsInv'
    <2>1. CloserEffect(w) /\ NoAdmission
      BY <1>3, CloserEffects, CloserRow DEF CloserRows
    <2>2. /\ UNCHANGED <<current, client>> /\ worker'[current].life = worker[current].life
          /\ \/ worker'[current].closer \in {"none", "stopping"}
             \/ worker[current].closer \notin {"none", "stopping"}
             \/ worker[w].closer = "stopping"
      BY <1>t, <2>1 DEF CloserEffect
    <2>3. worker[w].closer = "stopping" => \A k \in Keys : rec'[k].state # "QUEUED"
      BY <1>3, CloserRow DEF CloserRows
    <2> QED
      BY <1>g, <2>1, <2>2, <2>3, OthersHold, RowsKept
  <1>4. ASSUME NEW w \in Workers, ConstructReconcile(w) \/ ConstructCancel(w)
        PROVE  RowsInv'
    <2>1. w = current
      BY <1>t, <1>4, BlankFields DEF ConstructReconcile, ConstructCancel, ThreadsInv, LifeInv, Workers
    <2>2. UNCHANGED <<current, client>> /\ worker'[current].closer = worker[current].closer
      <3>1. UNCHANGED <<current, client>> /\ \E l : worker' = [worker EXCEPT ![w].life = l]
        BY <1>4 DEF ConstructReconcile, ConstructCancel
      <3>2. ASSUME NEW l, worker' = [worker EXCEPT ![w].life = l]
            PROVE  worker'[current].closer = worker[current].closer
        BY <1>t, <3>2 DEF WorkerObject
      <3> QED
        BY <3>1, <3>2
    <2>3. worker[current].closer = "none"
      BY <1>4, <2>1, BlankFields DEF ConstructReconcile, ConstructCancel, ThreadsInv, LifeInv
    <2>4. NoAdmission
      BY <1>t, <1>4, CancelledRows, ReconciledRows DEF ConstructReconcile, ConstructCancel
    <2>5. \/ worker[current].life # "reconciling"
          \/ \A k \in Keys : rec'[k].state \in {"ABSENT", "QUEUED"} \cup TERMINAL_STATES
      <3>1. CASE ConstructReconcile(w)
        <4>1. StoreTypeOK'
          BY <1>t, <3>1, RecoveryTyped DEF ConstructReconcile
        <4>2. \A k \in Keys : rec'[k].state \notin InFlight
          BY <1>t, <3>1, ReconciledRows DEF ConstructReconcile
        <4> QED
          BY <4>1, <4>2 DEF StoreTypeOK, OperationRecord, OperationState
      <3>2. CASE ConstructCancel(w)
        BY <2>1, <3>2 DEF ConstructCancel
      <3> QED
        BY <1>4, <3>1, <3>2
    <2> QED
      BY <1>4, <1>g, <2>2, <2>3, <2>4, <2>5, OthersHold, RowsKept
  <1>5. ASSUME (\E k \in Keys, d \in Deadlines : TimePasses(k, d)) \/ UNCHANGED vars
        PROVE  RowsInv'
    <2>1. UNCHANGED <<rec, order, current, worker, owner, watchdog, client>>
      BY <1>5 DEF TimePasses, DeadlinePasses, threadVars, vars
    <2> QED
      BY <1>g, <2>1, OthersHold, RowsStill, RowsKept
  <1> QED
    BY <1>g, <1>1, <1>2, <1>3, <1>4, <1>5, ClientKeepsRows, NextWorkerKeepsRows DEF RuntimeNext, Next, WorkerNext

LEMMA RowsInvAlways == RuntimeSpec => []RowsInv
  BY RowsAtInit, TypeInvAlways, ThreadsInvAlways, AdmitInvAlways, RuntimeNextKeepsRows, PTL DEF RuntimeSpec

-----------------------------------------------------------------------------
(* The operations in flight.                                               *)

Ending == {"claimed", "native", "returned", "reconciling"}

\* Once a worker has recovered its rows, what is in flight is in the hands of its owner,
\* unless a store error ended that thread; a claimed operation is in flight; when a row
\* says that the engine is unresponsive, the worker refuses new ones or is about to; and
\* a clean close() has seen the watchdog end.
FlightInv ==
  /\ worker[current].life \in {"cancelling", "running"} =>
       \A k \in Keys : rec[k].state \in InFlight =>
         \/ owner[current].op = k /\ owner[current].pc \in Ending
         \/ owner[current].pc = "dead" /\ faults > 0
  /\ \A w \in Workers : w = current /\ owner[w].pc = "claimed" => rec[owner[w].op].state \in InFlight
  /\ worker[current].life = "running" =>
       \A k \in Keys : rec[k].state = "ENGINE_UNRESPONSIVE" =>
         \/ worker[current].stopping
         \/ worker[current].quarantined
         \/ watchdog[current].pc = "marking"
  /\ \A w \in Workers : worker[w].closer = "closed" => watchdog[w].pc = "dead"

LEMMA FlightAtInit == Init => FlightInv
  <1> SUFFICES ASSUME Init
               PROVE  FlightInv
    OBVIOUS
  <1>1. /\ \A k \in Keys : rec[k].state = "ABSENT"
        /\ \A w \in Workers : owner[w].pc = "unborn"
        /\ \A w \in Workers : worker[w].closer = "none"
    BY DEF Init, StoreInit, NoRow, OwnerAt, Blank
  <1> QED
    BY <1>1 DEF FlightInv, InFlight

\* How an owner comes to a call, and how it ends one.
OwnerFlight(w) ==
  /\ owner'[w].pc = "claimed" => owner[w].pc = "starting" /\ Start(owner[w].op) /\ owner'[w].op = owner[w].op
  /\ owner[w].pc \in Ending =>
       \/ owner'[w].pc \in Ending /\ owner'[w].op = owner[w].op
       \/ owner'[w].pc = "dead" /\ faults' > 0
       \/ rec'[owner[w].op].state \notin InFlight

LEMMA OutcomeIsFinal ==
  ASSUME StoreTypeOK, NEW k \in Keys, Complete(k) \/ Fail(k) \/ RequireReconciliation(k)
  PROVE  rec'[k].state \in TERMINAL_STATES
  <1>1. CASE Complete(k)
    <2>1. PICK target : target = CompletedState(k)
      OBVIOUS
    <2>2. target \in TERMINAL_STATES
      BY <2>1 DEF CompletedState, TERMINAL_STATES
    <2>3. TransitionWith(k, InFlight, target, "result")
      BY <1>1, <2>1 DEF Complete
    <2> QED
      BY <2>2, <2>3, StoreTransitions
  <1>2. CASE Fail(k) \/ RequireReconciliation(k)
    BY <1>2, StoreTransitions DEF Fail, RequireReconciliation, TERMINAL_STATES
  <1> QED
    BY <1>1, <1>2

LEMMA OwnerFlights ==
  ASSUME TypeInv, NEW w \in Workers,
         \/ OwnerStep(w) \/ OwnerFault(w)
         \/ \E result \in {"ok", "known_failure", "uncertain"} : HandlerReturns(w, result)
  PROVE  OwnerFlight(w)
  <1>t. /\ owner \in [Workers -> OwnerThread] /\ faults \in Nat /\ StoreTypeOK
        /\ owner[w].pc \in Busy => owner[w].op \in Keys
    BY DEF TypeInv, OwnersTyped, Busy
  <1>1. CASE OwnerStops(w) \/ OwnerTakes(w) \/ OwnerInspects(w) \/ OwnerCancels(w) \/ OwnerClears(w)
    BY <1>t, <1>1 DEF OwnerStops, OwnerTakes, OwnerInspects, OwnerCancels, OwnerClears, OwnerIdles,
                      OwnerAt, OwnerThread, OwnerFlight, Ending
  <1>2. CASE OwnerStarts(w)
    BY <1>t, <1>2 DEF OwnerStarts, OwnerGoes, OwnerIdles, OwnerAt, OwnerThread, OwnerFlight, Ending
  <1>3. CASE OwnerCalls(w)
    BY <1>t, <1>3 DEF OwnerCalls, OwnerGoes, OwnerThread, OwnerFlight, Ending
  <1>4. CASE OwnerRecords(w) \/ OwnerReconciles(w)
    <2>1. /\ owner[w].pc \in Ending
          /\ owner'[w].pc \in {"clearing", "reconciling"} /\ owner'[w].op = owner[w].op
      BY <1>t, <1>4 DEF OwnerRecords, OwnerReconciles, OwnerGoes, OwnerThread, Ending
    <2>2. CASE Refused(owner[w].op, InFlight)
      BY <2>1, <2>2 DEF Refused, storeVars, OwnerFlight
    <2>3. CASE Complete(owner[w].op) \/ Fail(owner[w].op) \/ RequireReconciliation(owner[w].op)
      <3>1. rec'[owner[w].op].state \in TERMINAL_STATES
        BY <1>t, <1>4, <2>3, OutcomeIsFinal DEF OwnerRecords, OwnerReconciles, Busy
      <3> QED
        BY <2>1, <3>1 DEF OwnerFlight, TERMINAL_STATES, InFlight
    <2>4. CASE owner'[w].pc = "reconciling"
      BY <2>1, <2>4 DEF OwnerFlight, Ending
    <2> QED
      BY <1>4, <2>2, <2>3, <2>4, <1>t DEF OwnerRecords, OwnerReconciles, OwnerGoes, OwnerThread
  <1>5. ASSUME NEW result \in {"ok", "known_failure", "uncertain"}, HandlerReturns(w, result)
        PROVE  OwnerFlight(w)
    BY <1>t, <1>5 DEF HandlerReturns, OwnerThread, OwnerFlight, Ending
  <1>6. CASE OwnerFault(w)
    BY <1>t, <1>6 DEF OwnerFault, OwnerAt, OwnerThread, OwnerFlight, Ending
  <1> QED
    BY <1>1, <1>2, <1>3, <1>4, <1>5, <1>6 DEF OwnerStep

\* A key in the hands of a former worker is not touched by the steps of that worker, if
\* the current one has recovered its rows.
LEMMA FormerRows ==
  ASSUME TypeInv, ThreadsInv, RowsInv, NEW w \in Workers, OwnerAlive(w), w # current
  PROVE  /\ w < current
         /\ \A k \in Keys : owner[w].op = k \/ watchdog[w].active = k \/ worker[w].active = k =>
              /\ rec[k].state # "QUEUED"
              /\ worker[current].life # "reconciling" => Terminal(k)
  <1>1. w < current
    BY DEF ThreadsInv, LifeInv, OwnerAlive, TypeInv, Workers
  <1> QED
    BY <1>1 DEF RowsInv, Holds

LEMMA OwnerKeepsFlight ==
  ASSUME TypeInv, ThreadsInv, RowsInv, FlightInv, RowsGoOn, NEW w \in Workers,
         OwnerEffect(w), OwnerRows(w), OwnerFlight(w), (faults > 0 => faults' > 0)
  PROVE  FlightInv'
  <1>t. /\ current \in Workers /\ UNCHANGED <<current, watchdog>> /\ OwnerAlive(w)
        /\ (faults > 0 => faults' > 0)
    BY DEF TypeInv, OwnerEffect
  <1>w. \A v \in Workers : /\ worker'[v].life = worker[v].life /\ worker'[v].closer = worker[v].closer
                           /\ worker'[v].stopping = worker[v].stopping
                           /\ worker'[v].quarantined = worker[v].quarantined
    BY DEF OwnerEffect
  <1>1. \A k \in Keys : rec'[k].state \in InFlight =>
          \/ rec[k].state \in InFlight
          \/ k = owner[w].op /\ owner[w].pc = "starting" /\ rec[k].state = "QUEUED"
    BY DEF OwnerRows, TERMINAL_STATES, InFlight, Start, Transition
  <1>2. CASE w = current
    <2>1. worker[current].life = "running"
      BY <1>t, <1>2 DEF ThreadsInv, LifeInv, OwnerAlive
    <2>2. ASSUME NEW k \in Keys, rec'[k].state \in InFlight
          PROVE  \/ owner'[current].op = k /\ owner'[current].pc \in Ending
                 \/ owner'[current].pc = "dead" /\ faults' > 0
      <3>1. CASE rec[k].state \in InFlight
        <4>1. owner[current].op = k /\ owner[current].pc \in Ending
          BY <1>t, <1>2, <2>1, <3>1 DEF FlightInv, OwnerAlive
        <4> QED
          BY <1>2, <2>2, <4>1 DEF OwnerFlight
      <3>2. CASE rec[k].state \notin InFlight
        <4>1. k = owner[w].op /\ owner[w].pc = "starting" /\ rec' # rec
          BY <1>1, <2>2, <3>2
        <4>2. owner'[w].pc = "claimed" /\ owner'[w].op = owner[w].op
          BY <4>1 DEF OwnerRows, OwnerFlight
        <4> QED
          BY <1>2, <4>1, <4>2 DEF Ending
      <3> QED
        BY <3>1, <3>2
    <2>3. owner'[w].pc = "claimed" => rec'[owner'[w].op].state \in InFlight
      <3> SUFFICES ASSUME owner'[w].pc = "claimed"
                   PROVE  rec'[owner'[w].op].state \in InFlight
        OBVIOUS
      <3>1. owner[w].pc = "starting" /\ Start(owner[w].op) /\ owner'[w].op = owner[w].op
        BY DEF OwnerFlight
      <3>2. owner[w].op \in Keys
        BY <3>1 DEF TypeInv, OwnersTyped
      <3> QED
        BY <3>1, <3>2, StoreTransitions DEF Start, TypeInv, InFlight
    <2> QED
      BY <1>t, <1>w, <1>2, <2>1, <2>2, <2>3 DEF FlightInv, OwnerRows, NoMark
  <1>3. CASE w # current
    <2>1. owner'[current] = owner[current]
      BY <1>t, <1>3 DEF OwnerEffect
    <2>2. /\ owner[w].op \in Keys => rec[owner[w].op].state # "QUEUED"
          /\ owner[w].op \in Keys /\ worker[current].life # "reconciling" => Terminal(owner[w].op)
      BY <1>t, <1>3, FormerRows
    <2>3. \A k \in Keys : rec'[k].state \in InFlight => rec[k].state \in InFlight
      BY <1>1, <2>2
    <2>4. owner[current].pc = "claimed" => owner[current].op \in Keys /\ worker[current].life # "reconciling"
      BY <1>t DEF TypeInv, OwnersTyped, ThreadsInv, LifeInv
    <2>5. owner[current].pc = "claimed" => rec'[owner[current].op].state \in InFlight
      <3> SUFFICES ASSUME owner[current].pc = "claimed"
                   PROVE  rec'[owner[current].op].state \in InFlight
        OBVIOUS
      <3>1. rec[owner[current].op].state \in InFlight
        BY <1>t DEF FlightInv
      <3>2. owner[current].op # owner[w].op
        BY <2>2, <2>4, <3>1 DEF Terminal, InFlight, TERMINAL_STATES
      <3> QED
        BY <2>4, <3>1, <3>2 DEF OwnerRows
    <2>6. worker[current].life \in {"cancelling", "running"} =>
           \A k \in Keys : rec'[k].state \in InFlight =>
             \/ owner'[current].op = k /\ owner'[current].pc \in Ending
             \/ owner'[current].pc = "dead" /\ faults' > 0
      BY <1>t, <2>1, <2>3 DEF FlightInv
    <2>7. worker[current].life = "running" =>
           \A k \in Keys : rec'[k].state = "ENGINE_UNRESPONSIVE" =>
             \/ worker[current].stopping \/ worker[current].quarantined \/ watchdog'[current].pc = "marking"
      BY <1>t DEF FlightInv, OwnerRows, NoMark
    <2> QED
      BY <1>t, <1>w, <2>1, <2>5, <2>6, <2>7 DEF FlightInv
  <1> QED
    BY <1>2, <1>3

LEMMA WatchdogKeepsFlight ==
  ASSUME TypeInv, ThreadsInv, RowsInv, FlightInv, NEW w \in Workers,
         WatchdogEffect(w), WatchdogRows(w)
  PROVE  FlightInv'
  <1>t. /\ current \in Workers /\ UNCHANGED <<current, owner>> /\ (faults > 0 => faults' > 0)
        /\ w \in Nat /\ current \in Nat
    BY DEF TypeInv, WatchdogEffect, Workers
  <1>1. \A v \in Workers : /\ worker'[v].life = worker[v].life /\ worker'[v].closer = worker[v].closer
                           /\ worker'[v].stopping = worker[v].stopping
                           /\ worker[v].quarantined => worker'[v].quarantined
                           /\ watchdog[v].pc = "marking" => watchdog'[v].pc = "marking" \/ worker'[v].quarantined
                           /\ watchdog[v].pc = "dead" => watchdog'[v].pc = "dead"
    BY DEF WatchdogEffect
  <1>2. worker[current].life = "running" => NoMark \/ watchdog'[current].pc = "marking"
    <2> SUFFICES ASSUME worker[current].life = "running", ~NoMark
                 PROVE  watchdog'[current].pc = "marking"
      OBVIOUS
    <2>1. /\ rec[watchdog[w].active].state \in Responsive /\ watchdog[w].active \in Keys
          /\ watchdog'[w].pc = "marking"
      BY DEF WatchdogRows
    <2>2. CASE w < current
      <3>1. Terminal(watchdog[w].active)
        BY <2>1, <2>2 DEF RowsInv, Holds
      <3> QED
        BY <2>1, <3>1 DEF Terminal, TERMINAL_STATES, Responsive
    <2>3. ~(w > current)
      BY <1>t DEF WatchdogEffect, ThreadsInv, LifeInv
    <2> QED
      BY <1>t, <2>1, <2>2, <2>3
  <1>3. NoOutcome
    BY DEF WatchdogRows
  <1>4. \A v \in Workers : owner[v].pc = "claimed" => owner[v].op \in Keys
    BY DEF TypeInv, OwnersTyped
  <1>5. worker[current].life \in {"cancelling", "running"} =>
         \A k \in Keys : rec'[k].state \in InFlight =>
           \/ owner[current].op = k /\ owner[current].pc \in Ending
           \/ owner[current].pc = "dead" /\ faults' > 0
    BY <1>t, <1>3 DEF FlightInv, NoOutcome
  <1>6. owner[current].pc = "claimed" => rec'[owner[current].op].state \in InFlight
    BY <1>t, <1>3, <1>4 DEF FlightInv, NoOutcome
  <1>7. worker[current].life = "running" =>
         \A k \in Keys : rec'[k].state = "ENGINE_UNRESPONSIVE" =>
           \/ worker'[current].stopping \/ worker'[current].quarantined \/ watchdog'[current].pc = "marking"
    BY <1>t, <1>1, <1>2 DEF FlightInv, NoMark
  <1> QED
    BY <1>t, <1>1, <1>5, <1>6, <1>7 DEF FlightInv

LEMMA CloserKeepsFlight ==
  ASSUME TypeInv, ThreadsInv, FlightInv, NEW w \in Workers, CloserEffect(w), CloserRows(w)
  PROVE  FlightInv'
  <1>t. current \in Workers /\ UNCHANGED <<current, owner, watchdog, faults>> /\ NoOutcome
    BY DEF TypeInv, CloserEffect, CloserRows
  <1>1. \A v \in Workers : worker'[v].life = worker[v].life /\ (v # w => worker'[v] = worker[v])
    BY DEF CloserEffect
  <1>2. worker'[w].stopping
    BY DEF CloserEffect, ThreadsInv, LifeInv
  <1>3. worker[w].closer = "marking" => w = current
    BY BlankFields DEF ThreadsInv, LifeInv, TypeInv, Workers
  <1>4. \A v \in Workers : worker'[v].closer = "closed" => watchdog[v].pc = "dead"
    BY <1>1 DEF CloserEffect, FlightInv
  <1>5. worker[current].life \in {"cancelling", "running"} =>
         \A k \in Keys : rec'[k].state \in InFlight =>
           \/ owner[current].op = k /\ owner[current].pc \in Ending
           \/ owner[current].pc = "dead" /\ faults > 0
    BY <1>t DEF FlightInv, NoOutcome
  <1>6. owner[current].pc = "claimed" => rec'[owner[current].op].state \in InFlight
    BY <1>t DEF FlightInv, NoOutcome, TypeInv, OwnersTyped
  <1>7. worker[current].life = "running" =>
         \A k \in Keys : rec'[k].state = "ENGINE_UNRESPONSIVE" =>
           \/ worker'[current].stopping \/ worker'[current].quarantined \/ watchdog[current].pc = "marking"
    <2>1. CASE w = current
      BY <1>2, <2>1
    <2>2. CASE w # current
      BY <1>t, <1>1, <1>3, <2>2 DEF FlightInv, CloserRows, NoMark
    <2> QED
      BY <2>1, <2>2
  <1> QED
    BY <1>t, <1>1, <1>4, <1>5, <1>6, <1>7 DEF FlightInv

\* Steps that neither begin nor end an operation, and leave the threads as they are.
LEMMA OthersKeepFlight ==
  ASSUME TypeInv, FlightInv, NoOutcome, NoMark, UNCHANGED <<current, owner, watchdog, faults>>,
         \A v \in Workers : /\ worker'[v].life = worker[v].life /\ worker'[v].closer = worker[v].closer
                            /\ worker'[v].stopping = worker[v].stopping
                            /\ worker'[v].quarantined = worker[v].quarantined
  PROVE  FlightInv'
  <1>t. current \in Workers
    BY DEF TypeInv
  <1>1. worker[current].life \in {"cancelling", "running"} =>
         \A k \in Keys : rec'[k].state \in InFlight =>
           \/ owner[current].op = k /\ owner[current].pc \in Ending
           \/ owner[current].pc = "dead" /\ faults > 0
    BY DEF FlightInv, NoOutcome
  <1>2. owner[current].pc = "claimed" => rec'[owner[current].op].state \in InFlight
    BY <1>t DEF FlightInv, NoOutcome, TypeInv, OwnersTyped
  <1>3. worker[current].life = "running" =>
         \A k \in Keys : rec'[k].state = "ENGINE_UNRESPONSIVE" =>
           \/ worker[current].stopping \/ worker[current].quarantined \/ watchdog[current].pc = "marking"
    BY DEF FlightInv, NoMark
  <1> QED
    BY <1>t, <1>1, <1>2, <1>3 DEF FlightInv

\* A new worker begins with what its predecessor left in flight sent to reconciliation.
LEMMA NextWorkerKeepsFlight ==
  ASSUME TypeInv, ThreadsInv, FlightInv,
         \/ \E w \in Workers : ConstructReconcile(w) \/ ConstructCancel(w)
         \/ Reopen \/ Replace \/ Crash
  PROVE  FlightInv'
  <1>t. /\ worker \in [Workers -> WorkerObject] /\ current \in Workers /\ current \in Nat
        /\ owner \in [Workers -> OwnerThread] /\ watchdog \in [Workers -> WatchdogThread] /\ StoreTypeOK
    BY DEF TypeInv, WorkersTyped, OwnersTyped, WatchdogsTyped, Workers
  <1>1. ASSUME NEW w \in Workers, ConstructReconcile(w) \/ ConstructCancel(w)
        PROVE  FlightInv'
    <2>1. w = current
      BY <1>t, <1>1, BlankFields DEF ConstructReconcile, ConstructCancel, ThreadsInv, LifeInv, Workers
    <2>2. worker[current].life # "running" /\ owner[current].pc = "unborn"
      BY <1>1, <2>1 DEF ConstructReconcile, ConstructCancel, ThreadsInv, LifeInv
    <2>3. \A k \in Keys : rec'[k].state \notin InFlight
      <3>1. CASE ConstructReconcile(w)
        BY <1>t, <3>1, ReconciledRows DEF ConstructReconcile
      <3>2. CASE ConstructCancel(w)
        <4>1. NoOutcome
          BY <1>t, <3>2, CancelledRows DEF ConstructCancel
        <4> QED
          BY <2>1, <2>2, <3>2, <4>1 DEF ConstructCancel, FlightInv, NoOutcome, Ending
      <3> QED
        BY <1>1, <3>1, <3>2
    <2>4. /\ UNCHANGED current /\ owner'[current].pc # "claimed"
          /\ \A v \in Workers : v # current => watchdog'[v] = watchdog[v]
      BY <1>t, <1>1, <2>1, <2>2 DEF ConstructReconcile, ConstructCancel, OwnerAt
    <2>5. \A v \in Workers : worker'[v].closer = worker[v].closer
      <3>1. \E l : worker' = [worker EXCEPT ![w].life = l]
        BY <1>1 DEF ConstructReconcile, ConstructCancel
      <3> QED
        BY <1>t, <3>1 DEF WorkerObject
    <2>6. worker[current].closer # "closed"
      BY <2>2, <1>t DEF ThreadsInv, LifeInv
    <2>7. \A v \in Workers : worker'[v].closer = "closed" => watchdog'[v].pc = "dead"
      BY <2>4, <2>5, <2>6 DEF FlightInv
    <2> QED
      BY <1>t, <2>3, <2>4, <2>7 DEF FlightInv, InFlight
  <1>2. CASE Reopen \/ Replace \/ Crash
    <2>1. /\ current' = current + 1 /\ current + 1 \in Workers
      BY <1>t, <1>2, WorkerAssumption DEF Reopen, Replace, Crash, Workers
    <2>2. worker[current + 1] = Blank("unbuilt") /\ owner[current + 1].pc = "unborn"
      BY <1>t, <2>1 DEF ThreadsInv, LifeInv
    <2>3. owner'[current + 1].pc = "unborn" /\ worker'[current + 1].life = "reconciling"
      <3>1. CASE Reopen \/ Replace
        BY <1>t, <2>1, <2>2, <3>1, BlankFields DEF Reopen, Replace, WorkerObject
      <3>2. CASE Crash
        BY <1>t, <2>1, <2>2, <3>2, BlankFields DEF Crash
      <3> QED
        BY <1>2, <3>1, <3>2
    <2>4. \A v \in Workers : worker'[v].closer = "closed" => watchdog'[v].pc = "dead"
      <3>1. CASE Reopen \/ Replace
        <4>1. UNCHANGED watchdog /\ \A v \in Workers : worker'[v].closer = worker[v].closer
          <5>1. UNCHANGED watchdog /\ worker' = [worker EXCEPT ![current + 1].life = "reconciling"]
            BY <3>1 DEF Reopen, Replace
          <5> QED
            BY <1>t, <5>1 DEF WorkerObject
        <4> QED
          BY <4>1 DEF FlightInv
      <3>2. CASE Crash
        <4>1. \A v \in Workers : v > current + 1 => worker[v] = Blank("unbuilt")
          BY <1>t DEF ThreadsInv, LifeInv, Workers
        <4>2. \A v \in Workers : v <= current \/ v = current + 1 \/ v > current + 1
          BY <1>t DEF Workers
        <4>3. \A v \in Workers : worker'[v].closer # "closed"
          BY <1>t, <3>2, <4>1, <4>2, BlankFields DEF Crash
        <4> QED
          BY <4>3
      <3> QED
        BY <1>2, <3>1, <3>2
    <2> QED
      BY <2>1, <2>3, <2>4 DEF FlightInv
  <1> QED
    BY <1>1, <1>2

LEMMA RuntimeNextKeepsFlight ==
  TypeInv /\ ThreadsInv /\ RowsInv /\ FlightInv /\ [RuntimeNext]_vars => FlightInv'
  <1> SUFFICES ASSUME TypeInv, ThreadsInv, RowsInv, FlightInv, [RuntimeNext]_vars
               PROVE  FlightInv'
    OBVIOUS
  <1>g. RowsGoOn
    BY RuntimeNextGoesOn
  <1>1. ASSUME NEW w \in Workers,
               \/ OwnerStep(w) \/ OwnerFault(w)
               \/ \E result \in {"ok", "known_failure", "uncertain"} : HandlerReturns(w, result)
        PROVE  FlightInv'
    <2>1. faults > 0 => faults' > 0
      BY <1>1 DEF TypeInv, OwnerStep, OwnerFault, HandlerReturns, OwnerStops, OwnerTakes, OwnerInspects,
         OwnerCancels, OwnerStarts, OwnerCalls, OwnerRecords, OwnerReconciles, OwnerClears, OwnerFrame
    <2> QED
      BY <1>1, <1>g, <2>1, OwnerEffects, OwnerRow, OwnerFlights, OwnerKeepsFlight
  <1>2. ASSUME NEW w \in Workers, WatchdogStep(w) \/ WatchdogFault(w)
        PROVE  FlightInv'
    BY <1>2, WatchdogEffects, WatchdogRow, WatchdogKeepsFlight
  <1>3. ASSUME NEW w \in Workers, CloseEnter(w) \/ CloserStep(w)
        PROVE  FlightInv'
    BY <1>3, CloserEffects, CloserRow, CloserKeepsFlight
  <1>4. ASSUME NEW c \in Clients, ClientNext(c)
        PROVE  FlightInv'
    <2>1. ClientEffect(c) /\ NoOutcome /\ NoMark
      BY <1>4, ClientEffects, ClientRow
    <2> QED
      BY <2>1, OthersKeepFlight DEF ClientEffect
  <1>5. ASSUME (\E k \in Keys, d \in Deadlines : TimePasses(k, d)) \/ UNCHANGED vars
        PROVE  FlightInv'
    <2>1. UNCHANGED <<rec, order, current, worker, owner, watchdog, faults>>
      BY <1>5 DEF TimePasses, DeadlinePasses, threadVars, vars
    <2> QED
      BY <2>1, RowsStill, OthersKeepFlight
  <1> QED
    BY <1>1, <1>2, <1>3, <1>4, <1>5, NextWorkerKeepsFlight DEF RuntimeNext, Next, WorkerNext

LEMMA FlightInvAlways == RuntimeSpec => []FlightInv
  BY FlightAtInit, TypeInvAlways, ThreadsInvAlways, RowsInvAlways, RuntimeNextKeepsFlight, PTL DEF RuntimeSpec

-----------------------------------------------------------------------------
(* The way of a queued operation to its handler.                           *)

Hand == {"taken", "expiring", "starting"}

\* Every queued row of a running worker is on its way, unless a store error ended its
\* owner: a client is about to put it, it is in the queue, or the owner holds it.
HeldInv ==
  worker[current].life = "running" =>
    \A k \in Keys : rec[k].state = "QUEUED" =>
      \/ \E c \in Clients : client[c].pc = "putting" /\ client[c].key = k
      \/ \E i \in DOMAIN worker[current].queue : worker[current].queue[i] = k
      \/ owner[current].op = k /\ owner[current].pc \in Hand
      \/ owner[current].pc = "dead" /\ faults > 0

\* The queue has the order of the rows, and the owner's operation comes before it.
FifoInv ==
  /\ \A a, b \in DOMAIN worker[current].queue : a < b =>
       \A i, j \in DOMAIN order :
         order[i] = worker[current].queue[a] /\ order[j] = worker[current].queue[b] => i < j
  /\ \A b \in DOMAIN worker[current].queue : \A i, j \in DOMAIN order :
       order[i] = owner[current].op /\ order[j] = worker[current].queue[b] => i < j

\* Whoever is about to enter a handler leaves no queued operation behind it.
TurnInv ==
  /\ \A w \in Workers : owner[w].pc = "claimed" =>
       \A i, j \in DOMAIN order : i < j /\ order[j] = owner[w].op => rec[order[i]].state # "QUEUED"
  /\ NoOvertaking

OrderInv == HeldInv /\ FifoInv /\ TurnInv

LEMMA OrderAtInit == Init => OrderInv
  <1> SUFFICES ASSUME Init
               PROVE  OrderInv
    OBVIOUS
  <1>1. \A k \in Keys : rec[k].state = "ABSENT"
    BY DEF Init, StoreInit, NoRow
  <1>2. DOMAIN order = {}
    BY DEF Init, StoreInit
  <1>3. \A w \in Workers : owner[w].pc = "unborn"
    BY DEF Init, OwnerAt
  <1> QED
    BY <1>1, <1>2, <1>3 DEF OrderInv, HeldInv, FifoInv, TurnInv, NoOvertaking

\* An owner keeps what it holds until the row is decided, or it dies of a store error.
OwnerHand(w) ==
  /\ owner[w].pc \in Hand =>
       \/ owner'[w].pc \in Hand /\ owner'[w].op = owner[w].op
       \/ owner'[w].pc = "dead" /\ faults' > 0
       \/ rec'[owner[w].op].state # "QUEUED"
  /\ \/ UNCHANGED calls
     \/ owner[w].pc = "claimed" /\ calls' = [calls EXCEPT ![owner[w].op] = @ + 1]

LEMMA OwnerHands ==
  ASSUME TypeInv, NEW w \in Workers,
         \/ OwnerStep(w) \/ OwnerFault(w)
         \/ \E result \in {"ok", "known_failure", "uncertain"} : HandlerReturns(w, result)
  PROVE  OwnerHand(w)
  <1>t. /\ owner \in [Workers -> OwnerThread] /\ faults \in Nat /\ StoreTypeOK
        /\ owner[w].pc \in Busy => owner[w].op \in Keys
    BY DEF TypeInv, OwnersTyped, Busy
  <1>1. CASE OwnerStops(w) \/ OwnerTakes(w) \/ OwnerClears(w)
    BY <1>1 DEF OwnerStops, OwnerTakes, OwnerClears, OwnerHand, Hand
  <1>2. CASE OwnerInspects(w)
    BY <1>t, <1>2 DEF OwnerInspects, OwnerThread, OwnerHand, Hand, storeVars
  <1>3. CASE OwnerCancels(w) \/ OwnerStarts(w)
    <2>1. UNCHANGED calls /\ owner[w].pc \in Busy /\ owner[w].pc # "claimed"
      BY <1>3 DEF OwnerCancels, OwnerStarts, Busy
    <2>2. Transition(owner[w].op, {"QUEUED"}, "IN_FLIGHT") \/ Transition(owner[w].op, {"QUEUED"}, "CANCELLED_BEFORE_START")
          \/ Refused(owner[w].op, {"QUEUED"})
      BY <1>3 DEF OwnerCancels, OwnerStarts, Start, CancelBeforeStart
    <2>3. rec'[owner[w].op].state # "QUEUED"
      BY <1>t, <2>1, <2>2, StoreTransitions DEF Refused, storeVars
    <2> QED
      BY <2>1, <2>3 DEF OwnerHand
  <1>4. CASE OwnerCalls(w) \/ OwnerRecords(w) \/ OwnerReconciles(w)
    BY <1>4 DEF OwnerCalls, OwnerRecords, OwnerReconciles, OwnerHand, Hand
  <1>5. ASSUME NEW result \in {"ok", "known_failure", "uncertain"}, HandlerReturns(w, result)
        PROVE  OwnerHand(w)
    BY <1>5 DEF HandlerReturns, OwnerHand, Hand
  <1>6. CASE OwnerFault(w)
    BY <1>t, <1>6 DEF OwnerFault, OwnerAt, OwnerHand, Hand
  <1> QED
    BY <1>1, <1>2, <1>3, <1>4, <1>5, <1>6 DEF OwnerStep

\* start() of the owner: the queued operations that were admitted before its own are none.
LEMMA StartsInTurn ==
  ASSUME TypeInv, ThreadsInv, RowsInv, HeldInv, FifoInv, NEW w \in Workers,
         owner[w].pc = "starting", Start(owner[w].op)
  PROVE  \A i, j \in DOMAIN order : i < j /\ order[j] = owner[w].op => rec[order[i]].state # "QUEUED"
  <1>t. /\ order \in Seq(Keys) /\ DOMAIN order = 1..Len(order) /\ Len(order) \in Nat
        /\ \A i \in DOMAIN order : order[i] \in Keys
        /\ owner[w].op \in Keys
    <2>1. order \in Seq(Keys) /\ owner[w].op \in Keys
      BY DEF TypeInv, StoreTypeOK, OwnersTyped
    <2> QED
      BY <2>1, LenProperties
  <1>1. w = current
    <2>1. OwnerAlive(w) /\ rec[owner[w].op].state = "QUEUED"
      BY DEF OwnerAlive, Start, Transition
    <2> QED
      BY <1>t, <2>1, FormerRows
  <1>2. worker[current].life = "running"
    BY <1>1 DEF ThreadsInv, LifeInv
  <1> SUFFICES ASSUME NEW i \in DOMAIN order, NEW j \in DOMAIN order, i < j,
                      order[j] = owner[w].op, rec[order[i]].state = "QUEUED"
               PROVE  FALSE
    OBVIOUS
  <1>3. \/ \E c \in Clients : client[c].pc = "putting" /\ client[c].key = order[i]
        \/ \E b \in DOMAIN worker[current].queue : worker[current].queue[b] = order[i]
        \/ owner[current].op = order[i]
    BY <1>t, <1>1, <1>2 DEF HeldInv
  <1>4. ASSUME NEW c \in Clients, client[c].pc = "putting", client[c].key = order[i]
        PROVE  FALSE
    <2>1. order[Len(order)] = order[i] /\ Len(order) \in DOMAIN order
      BY <1>t, <1>4 DEF RowsInv
    <2> QED
      BY <1>t, <2>1 DEF RowsInv
  <1>5. ASSUME NEW b \in DOMAIN worker[current].queue, worker[current].queue[b] = order[i]
        PROVE  FALSE
    <2>1. j < i
      BY <1>1, <1>5 DEF FifoInv
    <2> QED
      BY <1>t, <2>1
  <1>6. CASE owner[current].op = order[i]
    BY <1>t, <1>1, <1>6 DEF RowsInv
  <1> QED
    BY <1>3, <1>4, <1>5, <1>6

\* Steps that queue no row and take no key from anybody keep HeldInv.
LEMMA HeldKept ==
  ASSUME TypeInv, HeldInv, NoAdmission, UNCHANGED current,
         worker'[current].life = "running" => worker[current].life = "running",
         \A c \in Clients : client[c].pc = "putting" => client'[c] = client[c],
         \A i \in DOMAIN worker[current].queue :
           \/ \E n \in DOMAIN worker'[current].queue : worker'[current].queue[n] = worker[current].queue[i]
           \/ owner'[current].op = worker[current].queue[i] /\ owner'[current].pc \in Hand,
         owner[current].pc \in Hand =>
           \/ owner'[current].pc \in Hand /\ owner'[current].op = owner[current].op
           \/ owner'[current].pc = "dead" /\ faults' > 0
           \/ rec'[owner[current].op].state # "QUEUED",
         owner[current].pc = "dead" => owner'[current].pc = "dead",
         faults > 0 => faults' > 0
  PROVE  HeldInv'
  <1> SUFFICES ASSUME worker'[current].life = "running", NEW k \in Keys, rec'[k].state = "QUEUED"
               PROVE  \/ \E c \in Clients : client'[c].pc = "putting" /\ client'[c].key = k
                      \/ \E i \in DOMAIN worker'[current].queue : worker'[current].queue[i] = k
                      \/ owner'[current].op = k /\ owner'[current].pc \in Hand
                      \/ owner'[current].pc = "dead" /\ faults' > 0
    BY DEF HeldInv
  <1>1. rec[k].state = "QUEUED" /\ worker[current].life = "running"
    BY DEF NoAdmission
  <1>2. \/ \E c \in Clients : client[c].pc = "putting" /\ client[c].key = k
        \/ \E i \in DOMAIN worker[current].queue : worker[current].queue[i] = k
        \/ owner[current].op = k /\ owner[current].pc \in Hand
        \/ owner[current].pc = "dead" /\ faults > 0
    BY <1>1 DEF HeldInv
  <1> QED
    BY <1>2

\* Steps that leave the queue alone, and give the owner nothing, keep FifoInv.
LEMMA FifoKept ==
  ASSUME TypeInv, FifoInv, UNCHANGED <<order, current>>,
         worker'[current].queue = worker[current].queue,
         owner'[current].op \in {owner[current].op, NoKey}
  PROVE  FifoInv'
  <1>1. \A i \in DOMAIN order : order[i] # NoKey
    <2>1. order \in Seq(Keys)
      BY DEF TypeInv, StoreTypeOK
    <2>2. \A i \in DOMAIN order : order[i] \in Keys
      BY <2>1
    <2> QED
      BY <2>2, WorkerAssumption
  <1>2. CASE owner'[current].op = owner[current].op
    BY <1>2 DEF FifoInv
  <1>3. CASE owner'[current].op = NoKey
    BY <1>1, <1>3 DEF FifoInv
  <1> QED
    BY <1>2, <1>3

\* The owner takes the head.
LEMMA FifoTaken ==
  ASSUME TypeInv, FifoInv, UNCHANGED <<order, current>>, worker[current].queue # <<>>,
         worker'[current].queue = Tail(worker[current].queue),
         owner'[current].op = Head(worker[current].queue)
  PROVE  FifoInv'
  <1> DEFINE q == worker[current].queue
  <1>1. q \in Seq(Keys) /\ q # <<>>
    BY DEF TypeInv, WorkersTyped, WorkerObject
  <1>2. PICK p \in Seq(Keys) : p = q
    BY <1>1
  <1>3. /\ \A a, b \in DOMAIN p : a < b =>
             \A i, j \in DOMAIN order : order[i] = p[a] /\ order[j] = p[b] => i < j
        /\ DOMAIN p = 1..Len(p) /\ Len(p) \in Nat /\ 1 \in DOMAIN p /\ Head(p) = p[1]
        /\ worker'[current].queue = Tail(p) /\ owner'[current].op = p[1]
    <2>1. DOMAIN p = 1..Len(p) /\ Len(p) \in Nat
      BY LenProperties
    <2>2. 1 \in DOMAIN p /\ Head(p) = p[1]
      BY <1>1, <1>2, HeadElement
    <2> QED
      BY <1>2, <2>1, <2>2 DEF FifoInv
  <1>4. \A a \in DOMAIN Tail(p) : a + 1 \in DOMAIN p /\ Tail(p)[a] = p[a + 1] /\ a \in Nat
    BY <1>1, <1>2, TailElements
  <1>5. \A a, b \in DOMAIN Tail(p) : a < b =>
          \A i, j \in DOMAIN order : order[i] = Tail(p)[a] /\ order[j] = Tail(p)[b] => i < j
    BY <1>3, <1>4
  <1>6. \A b \in DOMAIN Tail(p) : b \in Nat /\ b >= 1 /\ 1 < b + 1
    <2>1. Tail(p) \in Seq(Keys)
      BY <1>1, <1>2, HeadTailProperties
    <2>2. DOMAIN Tail(p) = 1..Len(Tail(p)) /\ Len(Tail(p)) \in Nat
      BY <2>1, LenProperties
    <2> QED
      BY <2>2
  <1>7. \A b \in DOMAIN Tail(p) : \A i, j \in DOMAIN order :
          order[i] = p[1] /\ order[j] = Tail(p)[b] => i < j
    <2> TAKE b \in DOMAIN Tail(p)
    <2>1. 1 \in DOMAIN p /\ b + 1 \in DOMAIN p /\ 1 < b + 1 /\ Tail(p)[b] = p[b + 1]
      BY <1>3, <1>4, <1>6
    <2> QED
      BY <1>3, <2>1
  <1>8. PICK t : t = Tail(p)
    OBVIOUS
  <1>9. worker'[current'].queue = t /\ owner'[current'].op = p[1] /\ UNCHANGED order
    BY <1>3, <1>8
  <1>10. \A a, b \in DOMAIN t : a < b =>
           \A i, j \in DOMAIN order : order[i] = t[a] /\ order[j] = t[b] => i < j
    BY <1>5, <1>8
  <1>11. \A b \in DOMAIN t : \A i, j \in DOMAIN order : order[i] = p[1] /\ order[j] = t[b] => i < j
    BY <1>7, <1>8
  <1>12. \A a, b \in DOMAIN worker'[current'].queue : a < b =>
           \A i, j \in DOMAIN order' :
             order'[i] = worker'[current'].queue[a] /\ order'[j] = worker'[current'].queue[b] => i < j
    <2> TAKE a, b \in DOMAIN worker'[current'].queue
    <2> HAVE a < b
    <2>1. a \in DOMAIN t /\ b \in DOMAIN t
      BY <1>9
    <2>2. \A i, j \in DOMAIN order : order[i] = t[a] /\ order[j] = t[b] => i < j
      BY <1>10, <2>1
    <2> QED
      BY <1>9, <2>2
  <1>13. \A b \in DOMAIN worker'[current'].queue : \A i, j \in DOMAIN order' :
           order'[i] = owner'[current'].op /\ order'[j] = worker'[current'].queue[b] => i < j
    BY <1>9, <1>11
  <1> QED
    BY <1>12, <1>13 DEF FifoInv

\* The newest row comes to the end of the queue.
LEMMA FifoPut ==
  ASSUME TypeInv, RowsInv, FifoInv, UNCHANGED <<order, current, owner>>,
         NEW k \in Keys, worker'[current].queue = Append(worker[current].queue, k),
         order # <<>>, order[Len(order)] = k, \A j \in Keys : Holds(current, j) => j # k
  PROVE  FifoInv'
  <1>1. worker[current].queue \in Seq(Keys) /\ order \in Seq(Keys) /\ current \in Workers
    BY DEF TypeInv, WorkersTyped, WorkerObject, StoreTypeOK
  <1>2. PICK p \in Seq(Keys) : p = worker[current].queue
    BY <1>1
  <1>3. /\ DOMAIN order = 1..Len(order) /\ Len(order) \in Nat /\ Len(order) \in DOMAIN order
        /\ \A i, j \in DOMAIN order : order[i] = order[j] => i = j
        /\ \A i \in DOMAIN order : order[i] \in Keys
    BY <1>1, LenProperties, EmptySeq DEF RowsInv
  <1>4. /\ DOMAIN Append(p, k) = 1..Len(p) + 1 /\ DOMAIN p = 1..Len(p) /\ Len(p) \in Nat
        /\ Append(p, k)[Len(p) + 1] = k
        /\ \A a \in 1..Len(p) : Append(p, k)[a] = p[a]
    BY AppendIndex
  <1>5. /\ \A a \in DOMAIN p : p[a] # k
        /\ \A i \in DOMAIN order : order[i] = owner[current].op => order[i] # k
    BY <1>1, <1>2, <1>3 DEF Holds
  <1>6. \A i, j \in DOMAIN order : order[j] = k /\ order[i] # k => i < j
    BY <1>3
  <1>7. \A a, b \in DOMAIN Append(p, k) : a < b =>
          \A i, j \in DOMAIN order : order[i] = Append(p, k)[a] /\ order[j] = Append(p, k)[b] => i < j
    <2> TAKE a, b \in DOMAIN Append(p, k)
    <2> HAVE a < b
    <2>1. a \in DOMAIN p /\ Append(p, k)[a] = p[a]
      BY <1>4
    <2>2. CASE b = Len(p) + 1
      BY <1>4, <1>5, <1>6, <2>1, <2>2
    <2>3. CASE b # Len(p) + 1
      <3>1. b \in DOMAIN p /\ Append(p, k)[b] = p[b]
        BY <1>4, <2>3
      <3> QED
        BY <1>2, <2>1, <3>1 DEF FifoInv
    <2> QED
      BY <2>2, <2>3
  <1>8. \A b \in DOMAIN Append(p, k) : \A i, j \in DOMAIN order :
          order[i] = owner[current].op /\ order[j] = Append(p, k)[b] => i < j
    <2> TAKE b \in DOMAIN Append(p, k)
    <2>1. CASE b = Len(p) + 1
      BY <1>4, <1>5, <1>6, <2>1
    <2>2. CASE b # Len(p) + 1
      <3>1. b \in DOMAIN p /\ Append(p, k)[b] = p[b]
        BY <1>4, <2>2
      <3> QED
        BY <1>2, <3>1 DEF FifoInv
    <2> QED
      BY <2>1, <2>2
  <1> QED
    BY <1>2, <1>7, <1>8 DEF FifoInv

\* Steps that queue no row, and bring no owner nearer to its handler, keep TurnInv.
LEMMA TurnKept ==
  ASSUME TypeInv, TurnInv, NoAdmission, UNCHANGED calls,
         \A w \in Workers : owner'[w].pc = "claimed" => owner'[w] = owner[w]
  PROVE  TurnInv'
  <1>1. \A i \in DOMAIN order : order[i] \in Keys /\ (rec'[order[i]].state = "QUEUED" => rec[order[i]].state = "QUEUED")
    <2>1. order \in Seq(Keys)
      BY DEF TypeInv, StoreTypeOK
    <2>2. \A i \in DOMAIN order : order[i] \in Keys
      BY <2>1
    <2> QED
      BY <2>2 DEF NoAdmission
  <1>2. UNCHANGED order
    BY DEF NoAdmission
  <1>3. \A w \in Workers : owner'[w].pc = "claimed" =>
          \A i, j \in DOMAIN order : i < j /\ order[j] = owner'[w].op => rec'[order[i]].state # "QUEUED"
    BY <1>1 DEF TurnInv
  <1>4. \A i, j \in DOMAIN order : i < j /\ rec'[order[i]].state = "QUEUED" => calls[order[j]] = 0
    BY <1>1 DEF TurnInv, NoOvertaking
  <1> QED
    BY <1>2, <1>3, <1>4 DEF TurnInv, NoOvertaking

LEMMA OwnerKeepsTurn ==
  ASSUME TypeInv, ThreadsInv, RowsInv, OrderInv, NEW w \in Workers,
         OwnerEffect(w), OwnerRows(w), OwnerFlight(w), OwnerHand(w)
  PROVE  TurnInv'
  <1>1. /\ \A i \in DOMAIN order : order[i] \in Keys /\ (rec'[order[i]].state = "QUEUED" => rec[order[i]].state = "QUEUED")
        /\ UNCHANGED order /\ calls \in [Keys -> Nat]
    <2>1. order \in Seq(Keys) /\ calls \in [Keys -> Nat]
      BY DEF TypeInv, StoreTypeOK
    <2>2. \A i \in DOMAIN order : order[i] \in Keys
      BY <2>1
    <2> QED
      BY <2>1, <2>2 DEF OwnerRows, NoAdmission
  <1>2. \A v \in Workers : v # w => owner'[v] = owner[v]
    BY DEF OwnerEffect
  <1>3. owner'[w].pc = "claimed" =>
          \A i, j \in DOMAIN order : i < j /\ order[j] = owner'[w].op => rec[order[i]].state # "QUEUED"
    BY StartsInTurn DEF OwnerFlight, OrderInv
  <1>4. \A v \in Workers : owner'[v].pc = "claimed" =>
          \A i, j \in DOMAIN order : i < j /\ order[j] = owner'[v].op => rec'[order[i]].state # "QUEUED"
    BY <1>1, <1>2, <1>3 DEF OrderInv, TurnInv
  <1>5. \A i, j \in DOMAIN order : i < j /\ rec'[order[i]].state = "QUEUED" => calls'[order[j]] = 0
    <2> SUFFICES ASSUME NEW i \in DOMAIN order, NEW j \in DOMAIN order, i < j, rec[order[i]].state = "QUEUED"
                 PROVE  calls'[order[j]] = 0
      BY <1>1
    <2>1. calls[order[j]] = 0 /\ order[j] \in Keys
      BY <1>1 DEF OrderInv, TurnInv, NoOvertaking
    <2>2. CASE UNCHANGED calls
      BY <2>1, <2>2
    <2>3. CASE owner[w].pc = "claimed" /\ calls' = [calls EXCEPT ![owner[w].op] = @ + 1]
      <3>1. order[j] # owner[w].op
        BY <2>3 DEF OrderInv, TurnInv
      <3> QED
        BY <1>1, <2>1, <2>3, <3>1
    <2> QED
      BY <2>2, <2>3 DEF OwnerHand
  <1> QED
    BY <1>1, <1>4, <1>5 DEF TurnInv, NoOvertaking

LEMMA OwnerKeepsOrder ==
  ASSUME TypeInv, ThreadsInv, RowsInv, OrderInv, NEW w \in Workers,
         OwnerEffect(w), OwnerRows(w), OwnerFlight(w), OwnerHand(w), faults > 0 => faults' > 0
  PROVE  OrderInv'
  <1>t. current \in Workers /\ UNCHANGED <<current, client>> /\ NoAdmission /\ UNCHANGED order /\ OwnerAlive(w)
        /\ worker[current].queue \in Seq(Keys)
    BY DEF TypeInv, OwnerEffect, OwnerRows, NoAdmission, WorkersTyped, WorkerObject
  <1>1. TurnInv'
    BY OwnerKeepsTurn
  <1>2. CASE w # current
    <2>1. owner'[current] = owner[current] /\ worker'[current] = worker[current]
      BY <1>t, <1>2 DEF OwnerEffect
    <2>2. FifoInv'
      BY <1>t, <2>1, FifoKept DEF OrderInv
    <2>3. HeldInv'
      BY <1>t, <2>1, HeldKept DEF OrderInv
    <2> QED
      BY <1>1, <2>2, <2>3 DEF OrderInv
  <1>3. CASE w = current /\ worker'[w].queue = worker[w].queue /\ owner'[w].op \in {owner[w].op, NoKey}
    <2>1. FifoInv'
      BY <1>t, <1>3, FifoKept DEF OrderInv
    <2>2. HeldInv'
      BY <1>t, <1>3, HeldKept DEF OrderInv, OwnerEffect, OwnerHand, OwnerAlive
    <2> QED
      BY <1>1, <2>1, <2>2 DEF OrderInv
  <1>4. CASE /\ w = current /\ worker[w].queue # <<>> /\ owner[w].pc = "idle" /\ owner'[w].pc = "taken"
             /\ worker'[w].queue = Tail(worker[w].queue) /\ owner'[w].op = Head(worker[w].queue)
    <2>1. FifoInv'
      BY <1>t, <1>4, FifoTaken DEF OrderInv
    <2>2. \A i \in DOMAIN worker[current].queue :
           \/ \E n \in DOMAIN worker'[current].queue : worker'[current].queue[n] = worker[current].queue[i]
           \/ owner'[current].op = worker[current].queue[i] /\ owner'[current].pc \in Hand
      <3>1. PICK q \in Seq(Keys) : q = worker[current].queue
        BY <1>t
      <3>2. /\ Tail(q) \in Seq(Keys) /\ Len(Tail(q)) = Len(q) - 1
            /\ \A n \in 1..Len(Tail(q)) : Tail(q)[n] = q[n + 1]
            /\ q # <<>>
        BY <1>4, <3>1, HeadTailProperties
      <3>3. DOMAIN q = 1..Len(q) /\ Len(q) \in Nat /\ DOMAIN Tail(q) = 1..Len(Tail(q)) /\ Head(q) = q[1]
        BY <3>2, LenProperties, HeadElement
      <3>4. \A i \in DOMAIN q : i = 1 \/ (i - 1 \in DOMAIN Tail(q) /\ Tail(q)[i - 1] = q[i])
        BY <3>2, <3>3
      <3>5. \A i \in DOMAIN q : (\E n \in DOMAIN Tail(q) : Tail(q)[n] = q[i]) \/ Head(q) = q[i]
        BY <3>3, <3>4
      <3> QED
        BY <1>4, <3>1, <3>5 DEF Hand
    <2>3. HeldInv'
      BY <1>t, <1>4, <2>2, HeldKept DEF OrderInv, OwnerEffect, Hand
    <2> QED
      BY <1>1, <2>1, <2>3 DEF OrderInv
  <1> QED
    BY <1>2, <1>3, <1>4 DEF OwnerEffect

\* Steps that neither admit nor put an operation, nor move an owner, keep the order.
LEMMA OthersKeepOrder ==
  ASSUME TypeInv, OrderInv, NoAdmission, UNCHANGED <<current, owner, calls>>,
         \A v \in Workers : worker'[v].queue = worker[v].queue /\ worker'[v].life = worker[v].life,
         \A c \in Clients : client[c].pc = "putting" => client'[c] = client[c],
         faults > 0 => faults' > 0
  PROVE  OrderInv'
  <1>1. current \in Workers /\ UNCHANGED order
    BY DEF TypeInv, NoAdmission
  <1>2. HeldInv'
    BY <1>1, HeldKept DEF OrderInv
  <1>3. FifoInv'
    BY <1>1, FifoKept DEF OrderInv
  <1>4. TurnInv'
    BY TurnKept DEF OrderInv
  <1> QED
    BY <1>2, <1>3, <1>4 DEF OrderInv

LEMMA AdmitKeepsOrder ==
  ASSUME TypeInv, CallsInv, RowsInv, OrderInv, NEW c \in Clients,
         client[c].pc = "admitting", client[c].key \in Keys, client[c].request \in Requests,
         Admit(client[c].key, client[c].request),
         client' = [client EXCEPT ![c].pc = "putting"],
         UNCHANGED <<current, worker, owner, calls, faults>>
  PROVE  OrderInv'
  <1>1. PICK k \in Keys : k = client[c].key
    OBVIOUS
  <1>2. /\ ~Exists(k) /\ order' = Append(order, k)
        /\ \A j \in Keys : j # k => rec'[j] = rec[j]
    BY <1>1 DEF Admit, TypeInv, StoreTypeOK
  <1>t. order \in Seq(Keys) /\ worker[current].queue \in Seq(Keys) /\ current \in Workers
    BY DEF TypeInv, StoreTypeOK, WorkersTyped, WorkerObject
  <1>3. /\ client'[c].pc = "putting" /\ client'[c].key = k
        /\ \A d \in Clients : d # c => client'[d] = client[d]
    BY <1>1 DEF TypeInv, ClientsTyped, ClientThread
  <1>a. /\ DOMAIN order' = 1..Len(order) + 1 /\ DOMAIN order = 1..Len(order) /\ Len(order) \in Nat
        /\ order'[Len(order) + 1] = k
        /\ \A i \in 1..Len(order) : order'[i] = order[i]
        /\ \A i \in DOMAIN order : order[i] \in Keys
    BY <1>2, <1>t, AppendIndex
  <1>o. /\ \A i, j \in DOMAIN order' : i < j => i \in DOMAIN order /\ order'[i] = order[i]
        /\ \A j \in DOMAIN order' : order'[j] # k => j \in DOMAIN order /\ order'[j] = order[j]
        /\ \A i \in DOMAIN order : order[i] \in Keys /\ order[i] # k
        /\ \A j \in DOMAIN order' : j \notin DOMAIN order => order'[j] = k
    <2>1. \A i \in DOMAIN order : order[i] # k
      BY <1>2 DEF RowsInv
    <2> QED
      BY <1>a, <2>1
  <1>4. HeldInv'
    <2> SUFFICES ASSUME worker[current].life = "running", NEW j \in Keys, rec'[j].state = "QUEUED"
                 PROVE  \/ \E d \in Clients : client'[d].pc = "putting" /\ client'[d].key = j
                        \/ \E i \in DOMAIN worker[current].queue : worker[current].queue[i] = j
                        \/ owner[current].op = j /\ owner[current].pc \in Hand
                        \/ owner[current].pc = "dead" /\ faults > 0
      BY DEF HeldInv
    <2>1. CASE j = k
      BY <1>3, <2>1
    <2>2. CASE j # k
      <3>1. rec[j].state = "QUEUED"
        BY <1>2, <2>2
      <3>2. \A d \in Clients : client[d].pc = "putting" => client'[d] = client[d]
        BY <1>3
      <3> QED
        BY <3>1, <3>2 DEF OrderInv, HeldInv
    <2> QED
      BY <2>1, <2>2
  <1>5. \A b \in DOMAIN worker[current].queue : worker[current].queue[b] # k
    <2>1. \A b \in DOMAIN worker[current].queue : worker[current].queue[b] \in Keys
      BY <1>t
    <2> QED
      BY <1>2, <1>t, <2>1 DEF RowsInv, Holds
  <1>6. owner[current].op # k
    BY <1>2, <1>t DEF RowsInv, Holds
  <1>7. \A a, b \in DOMAIN worker[current].queue : a < b =>
          \A i, j \in DOMAIN order' :
            order'[i] = worker[current].queue[a] /\ order'[j] = worker[current].queue[b] => i < j
    <2> TAKE a, b \in DOMAIN worker[current].queue
    <2> HAVE a < b
    <2>1. \A i, j \in DOMAIN order :
            order[i] = worker[current].queue[a] /\ order[j] = worker[current].queue[b] => i < j
      BY DEF OrderInv, FifoInv
    <2> QED
      BY <1>o, <1>5, <2>1
  <1>8. \A b \in DOMAIN worker[current].queue : \A i, j \in DOMAIN order' :
          order'[i] = owner[current].op /\ order'[j] = worker[current].queue[b] => i < j
    <2> TAKE b \in DOMAIN worker[current].queue
    <2>1. \A i, j \in DOMAIN order :
            order[i] = owner[current].op /\ order[j] = worker[current].queue[b] => i < j
      BY DEF OrderInv, FifoInv
    <2> QED
      BY <1>o, <1>5, <1>6, <2>1
  <1>9. FifoInv'
    BY <1>7, <1>8 DEF FifoInv
  <1>10. \A w \in Workers : owner[w].pc = "claimed" => owner[w].op # k
    BY <1>2 DEF RowsInv, Holds
  <1>11. \A w \in Workers : owner[w].pc = "claimed" =>
           \A i, j \in DOMAIN order' : i < j /\ order'[j] = owner[w].op => rec'[order'[i]].state # "QUEUED"
    <2> TAKE w \in Workers
    <2> HAVE owner[w].pc = "claimed"
    <2>1. \A i, j \in DOMAIN order : i < j /\ order[j] = owner[w].op => rec[order[i]].state # "QUEUED"
      BY DEF OrderInv, TurnInv
    <2> QED
      BY <1>2, <1>o, <1>10, <2>1
  <1>12. calls[k] = 0
    BY <1>2 DEF CallsInv, RowsTellWhatRan, Exists
  <1>13. \A i, j \in DOMAIN order' : i < j /\ rec'[order'[i]].state = "QUEUED" => calls[order'[j]] = 0
    <2> TAKE i, j \in DOMAIN order'
    <2> HAVE i < j /\ rec'[order'[i]].state = "QUEUED"
    <2>1. i \in DOMAIN order /\ rec[order[i]].state = "QUEUED"
      BY <1>2, <1>o
    <2>2. CASE j \in DOMAIN order
      BY <1>a, <2>1, <2>2 DEF OrderInv, TurnInv, NoOvertaking
    <2>3. CASE j \notin DOMAIN order
      BY <1>o, <1>12, <2>3
    <2> QED
      BY <2>2, <2>3
  <1>14. TurnInv'
    BY <1>11, <1>13 DEF TurnInv, NoOvertaking
  <1> QED
    BY <1>4, <1>9, <1>14 DEF OrderInv

LEMMA PutKeepsOrder ==
  ASSUME TypeInv, RowsInv, OrderInv, NEW c \in Clients, SubmitPut(c)
  PROVE  OrderInv'
  <1>1. PICK k \in Keys : k = client[c].key
    BY DEF SubmitPut, TypeInv, ClientsTyped
  <1>t. /\ worker \in [Workers -> WorkerObject] /\ current \in Workers
        /\ worker[current].queue \in Seq(Keys)
    BY DEF TypeInv, WorkersTyped, WorkerObject
  <1>2. /\ worker'[current].queue = Append(worker[current].queue, k)
        /\ worker'[current].life = worker[current].life
        /\ UNCHANGED <<rec, order, current, owner, watchdog, calls, faults>>
        /\ \A d \in Clients : d # c => client'[d] = client[d]
    BY <1>1, <1>t DEF SubmitPut, WorkerObject, storeVars, TypeInv, ClientsTyped
  <1>3. NoAdmission
    BY <1>2, RowsStill
  <1>4. order # <<>> /\ order[Len(order)] = k /\ \A j \in Keys : Holds(current, j) => j # k
    BY <1>1, <1>t DEF SubmitPut, RowsInv
  <1>5. FifoInv'
    BY <1>2, <1>4, FifoPut DEF OrderInv
  <1>6. TurnInv'
    BY <1>2, <1>3, TurnKept DEF OrderInv
  <1>7. PICK p \in Seq(Keys) : p = worker[current].queue
    BY <1>t
  <1>8. /\ \A i \in DOMAIN p : i \in DOMAIN Append(p, k) /\ Append(p, k)[i] = p[i]
        /\ \E i \in DOMAIN Append(p, k) : Append(p, k)[i] = k
    BY AppendIndex
  <1>9. /\ \A i \in DOMAIN worker[current].queue :
             \E n \in DOMAIN worker'[current].queue : worker'[current].queue[n] = worker[current].queue[i]
        /\ \E n \in DOMAIN worker'[current].queue : worker'[current].queue[n] = k
    BY <1>2, <1>7, <1>8
  <1>10. HeldInv'
    <2> SUFFICES ASSUME worker[current].life = "running", NEW j \in Keys, rec[j].state = "QUEUED"
                 PROVE  \/ \E d \in Clients : client'[d].pc = "putting" /\ client'[d].key = j
                        \/ \E i \in DOMAIN worker'[current].queue : worker'[current].queue[i] = j
                        \/ owner[current].op = j /\ owner[current].pc \in Hand
                        \/ owner[current].pc = "dead" /\ faults > 0
      BY <1>2 DEF HeldInv
    <2>1. CASE j = k
      BY <1>9, <2>1
    <2>2. CASE j # k
      <3>1. \A d \in Clients : client[d].key = j => client'[d] = client[d]
        BY <1>1, <1>2, <2>2
      <3>2. \/ \E d \in Clients : client[d].pc = "putting" /\ client[d].key = j
            \/ \E i \in DOMAIN worker[current].queue : worker[current].queue[i] = j
            \/ owner[current].op = j /\ owner[current].pc \in Hand
            \/ owner[current].pc = "dead" /\ faults > 0
        BY DEF OrderInv, HeldInv
      <3> QED
        BY <1>9, <3>1, <3>2
    <2> QED
      BY <2>1, <2>2
  <1> QED
    BY <1>5, <1>6, <1>10 DEF OrderInv

LEMMA ClientKeepsOrder ==
  ASSUME TypeInv, CallsInv, RowsInv, OrderInv, NEW c \in Clients, ClientNext(c)
  PROVE  OrderInv'
  <1>t. worker \in [Workers -> WorkerObject] /\ current \in Workers
    BY DEF TypeInv, WorkersTyped
  <1>e. ClientEffect(c)
    BY ClientEffects
  <1>1. CASE SubmitPut(c)
    BY <1>1, PutKeepsOrder
  <1>2. CASE ~NoAdmission
    BY <1>2, <1>e, ClientRow, AdmitKeepsOrder DEF ClientEffect
  <1>3. CASE NoAdmission /\ ~SubmitPut(c)
    <2>1. client[c].pc # "putting"
      BY <1>3 DEF ClientNext, ClientStep, SubmitEnter, SubmitCheck, SubmitAdmit, SubmitReturn, WaitLook, WaitTimeOut
    <2>2. UNCHANGED worker \/ \E l : worker' = [worker EXCEPT ![current].lock = l]
      BY <1>3 DEF ClientNext, ClientStep, SubmitEnter, SubmitCheck, SubmitAdmit, SubmitReturn, WaitLook, WaitTimeOut
    <2>3. \A v \in Workers : worker'[v].queue = worker[v].queue /\ worker'[v].life = worker[v].life
      BY <1>t, <2>2 DEF WorkerObject
    <2>4. \A d \in Clients : client[d].pc = "putting" => client'[d] = client[d]
      BY <1>e, <2>1 DEF ClientEffect
    <2> QED
      BY <1>3, <1>e, <2>3, <2>4, OthersKeepOrder DEF ClientEffect
  <1> QED
    BY <1>1, <1>2, <1>3

\* A new worker begins with an empty queue and, when it runs, no queued row.
LEMMA NextWorkerKeepsOrder ==
  ASSUME TypeInv, ThreadsInv, OrderInv,
         \/ \E w \in Workers : ConstructReconcile(w) \/ ConstructCancel(w)
         \/ Reopen \/ Replace \/ Crash
  PROVE  OrderInv'
  <1>t. /\ worker \in [Workers -> WorkerObject] /\ current \in Workers /\ current \in Nat
        /\ owner \in [Workers -> OwnerThread] /\ StoreTypeOK
    BY DEF TypeInv, WorkersTyped, OwnersTyped, Workers
  <1>1. ASSUME NEW w \in Workers, ConstructReconcile(w) \/ ConstructCancel(w)
        PROVE  OrderInv'
    <2>1. w = current
      BY <1>t, <1>1, BlankFields DEF ConstructReconcile, ConstructCancel, ThreadsInv, LifeInv, Workers
    <2>2. NoAdmission
      BY <1>t, <1>1, CancelledRows, ReconciledRows DEF ConstructReconcile, ConstructCancel
    <2>3. UNCHANGED <<current, calls>> /\ \E l : worker' = [worker EXCEPT ![w].life = l]
      BY <1>1 DEF ConstructReconcile, ConstructCancel
    <2>4. worker'[current].queue = worker[current].queue
      BY <1>t, <2>3 DEF WorkerObject
    <2>5. /\ owner'[current].op \in {owner[current].op, NoKey}
          /\ \A v \in Workers : owner'[v].pc = "claimed" => owner'[v] = owner[v]
      BY <1>t, <1>1, <2>1 DEF ConstructReconcile, ConstructCancel, OwnerAt
    <2>6. worker'[current].life # "running" \/ \A k \in Keys : rec'[k].state # "QUEUED"
      <3>1. CASE ConstructReconcile(w)
        BY <1>t, <2>1, <3>1 DEF ConstructReconcile, WorkerObject
      <3>2. CASE ConstructCancel(w)
        BY <1>t, <3>2, CancelledRows DEF ConstructCancel
      <3> QED
        BY <1>1, <3>1, <3>2
    <2>7. HeldInv'
      BY <2>3, <2>6 DEF HeldInv
    <2>8. FifoInv'
      BY <2>2, <2>3, <2>4, <2>5, FifoKept DEF OrderInv, NoAdmission
    <2>9. TurnInv'
      BY <2>2, <2>3, <2>5, TurnKept DEF OrderInv
    <2> QED
      BY <2>7, <2>8, <2>9 DEF OrderInv
  <1>2. CASE Reopen \/ Replace \/ Crash
    <2>1. /\ UNCHANGED <<rec, order, calls>>
          /\ current' = current + 1 /\ current + 1 \in Workers
      BY <1>t, <1>2, WorkerAssumption DEF Reopen, Replace, Crash, Workers, storeVars
    <2>2. worker[current + 1] = Blank("unbuilt")
      BY <1>t, <2>1 DEF ThreadsInv, LifeInv
    <2>3. worker'[current + 1].life = "reconciling" /\ worker'[current + 1].queue = <<>>
      <3>1. CASE Reopen \/ Replace
        BY <1>t, <2>1, <2>2, <3>1, BlankFields DEF Reopen, Replace, WorkerObject
      <3>2. CASE Crash
        BY <1>t, <2>1, <2>2, <3>2, BlankFields DEF Crash
      <3> QED
        BY <1>2, <3>1, <3>2
    <2>4. \A v \in Workers : owner'[v].pc = "claimed" => owner'[v] = owner[v]
      BY <1>t, <1>2 DEF Reopen, Replace, Crash, OwnerAt
    <2>5. HeldInv'
      BY <2>1, <2>3 DEF HeldInv
    <2>6. FifoInv'
      BY <2>1, <2>3 DEF FifoInv
    <2>7. TurnInv'
      BY <2>1, <2>4, RowsStill, TurnKept DEF OrderInv
    <2> QED
      BY <2>5, <2>6, <2>7 DEF OrderInv
  <1> QED
    BY <1>1, <1>2

LEMMA RuntimeNextKeepsOrder ==
  TypeInv /\ CallsInv /\ ThreadsInv /\ RowsInv /\ OrderInv /\ [RuntimeNext]_vars => OrderInv'
  <1> SUFFICES ASSUME TypeInv, CallsInv, ThreadsInv, RowsInv, OrderInv, [RuntimeNext]_vars
               PROVE  OrderInv'
    OBVIOUS
  <1>1. ASSUME NEW w \in Workers,
               \/ OwnerStep(w) \/ OwnerFault(w)
               \/ \E result \in {"ok", "known_failure", "uncertain"} : HandlerReturns(w, result)
        PROVE  OrderInv'
    <2>1. faults > 0 => faults' > 0
      BY <1>1 DEF TypeInv, OwnerStep, OwnerFault, HandlerReturns, OwnerStops, OwnerTakes, OwnerInspects,
         OwnerCancels, OwnerStarts, OwnerCalls, OwnerRecords, OwnerReconciles, OwnerClears, OwnerFrame
    <2>2. OwnerEffect(w) /\ OwnerRows(w) /\ OwnerFlight(w) /\ OwnerHand(w)
      BY <1>1, OwnerEffects, OwnerRow, OwnerFlights, OwnerHands
    <2> QED
      BY <2>1, <2>2, OwnerKeepsOrder
  <1>2. ASSUME NEW w \in Workers, WatchdogStep(w) \/ WatchdogFault(w)
        PROVE  OrderInv'
    <2>1. WatchdogEffect(w) /\ NoAdmission
      BY <1>2, WatchdogEffects, WatchdogRow DEF WatchdogRows
    <2> QED
      BY <2>1, OthersKeepOrder DEF WatchdogEffect
  <1>3. ASSUME NEW w \in Workers, CloseEnter(w) \/ CloserStep(w)
        PROVE  OrderInv'
    <2>1. CloserEffect(w) /\ NoAdmission
      BY <1>3, CloserEffects, CloserRow DEF CloserRows
    <2> QED
      BY <2>1, OthersKeepOrder DEF CloserEffect
  <1>4. ASSUME NEW c \in Clients, ClientNext(c)
        PROVE  OrderInv'
    BY <1>4, ClientKeepsOrder
  <1>5. ASSUME (\E k \in Keys, d \in Deadlines : TimePasses(k, d)) \/ UNCHANGED vars
        PROVE  OrderInv'
    <2>1. UNCHANGED <<rec, order, current, worker, owner, client, calls, faults>>
      BY <1>5 DEF TimePasses, DeadlinePasses, threadVars, vars
    <2> QED
      BY <2>1, RowsStill, OthersKeepOrder
  <1> QED
    BY <1>1, <1>2, <1>3, <1>4, <1>5, NextWorkerKeepsOrder DEF RuntimeNext, Next, WorkerNext

LEMMA OrderInvAlways == RuntimeSpec => []OrderInv
  BY OrderAtInit, CallsInvAlways, ThreadsInvAlways, RowsInvAlways, RuntimeNextKeepsOrder, PTL DEF RuntimeSpec

-----------------------------------------------------------------------------
(* The theorems.                                                           *)

\* max_queue_size bounds every queue, although submit finds it not full in one step and
\* fills it in another.
THEOREM RuntimeQueueWithinBound == RuntimeSpec => []QueueWithinBound
  <1>1. AdmitInv => QueueWithinBound
    BY DEF AdmitInv
  <1> QED
    BY <1>1, AdmitInvAlways, PTL

\* The handlers are entered in the order in which the operations were admitted, whatever
\* was cancelled, recovered or replayed between (submit, _owner_main).
THEOREM RuntimeNoOvertaking == RuntimeSpec => []NoOvertaking
  <1>1. OrderInv => NoOvertaking
    BY DEF OrderInv, TurnInv
  <1> QED
    BY <1>1, OrderInvAlways, PTL

\* The owners that can be inside a native call are the current one and those that close()
\* gave up on.
THEOREM RuntimeOnlyAbandonedOwnersOverlap == RuntimeSpec => []OnlyAbandonedOwnersOverlap
  <1>1. TypeInv /\ ThreadsInv => OnlyAbandonedOwnersOverlap
    BY DEF TypeInv, Workers, ThreadsInv, LifeInv, OwnerAlive, OnlyAbandonedOwnersOverlap, Abandoned
  <1> QED
    BY <1>1, TypeInvAlways, ThreadsInvAlways, PTL

\* As long as no store call has raised an error that ends a thread, no queued row is lost
\* between the store and the queue.
THEOREM RuntimeQueuedRowsAreHeld == RuntimeSpec => [](faults = 0 => QueuedRowsAreHeld)
  <1>1. OrderInv => (faults = 0 => QueuedRowsAreHeld)
    BY DEF OrderInv, HeldInv, QueuedRowsAreHeld, Hand
  <1> QED
    BY <1>1, OrderInvAlways, PTL

\* As long as no store call has raised such an error, close() reports a clean stop only
\* when every operation is settled and the threads of the worker are gone.
THEOREM RuntimeCleanCloseSettlesAll == RuntimeSpec => [](faults = 0 => CleanCloseSettlesAll)
  <1>1. TypeInv /\ ThreadsInv /\ RowsInv /\ FlightInv => (faults = 0 => CleanCloseSettlesAll)
    <2> SUFFICES ASSUME TypeInv, ThreadsInv, RowsInv, FlightInv, faults = 0,
                        worker[current].closer = "closed"
                 PROVE  /\ \A k \in Keys : Exists(k) => Terminal(k)
                        /\ ~OwnerAlive(current)
                        /\ watchdog[current].pc = "dead"
      BY DEF CleanCloseSettlesAll
    <2>1. ~OwnerAlive(current) /\ worker[current].life = "running" /\ watchdog[current].pc = "dead"
      BY DEF TypeInv, ThreadsInv, LifeInv, FlightInv
    <2>2. \A k \in Keys : rec[k].state # "QUEUED"
      BY DEF RowsInv
    <2>3. \A k \in Keys : rec[k].state \notin InFlight
      BY <2>1 DEF FlightInv, OwnerAlive, Ending
    <2>4. \A k \in Keys : rec[k].state \in OperationState \cup {"ABSENT"}
      BY DEF TypeInv, StoreTypeOK, OperationRecord
    <2> QED
      BY <2>1, <2>2, <2>3, <2>4 DEF OperationState, Exists, Terminal
  <1> QED
    BY <1>1, TypeInvAlways, ThreadsInvAlways, RowsInvAlways, FlightInvAlways, PTL

\* A handler is entered only while its row says that it is in flight, except by an owner
\* that close() gave up on.
THEOREM RuntimeCallsAreInFlight == RuntimeSpec => CallsAreInFlight
  <1>1. TypeInv /\ ThreadsInv /\ FlightInv /\ [RuntimeNext]_vars =>
          [\A w \in Workers : OwnerCalls(w) => rec[owner[w].op].state \in InFlight \/ Abandoned(w)]_vars
    <2> SUFFICES ASSUME TypeInv, ThreadsInv, FlightInv, NEW w \in Workers, OwnerCalls(w)
                 PROVE  rec[owner[w].op].state \in InFlight \/ Abandoned(w)
      OBVIOUS
    <2>1. owner[w].pc = "claimed" /\ OwnerAlive(w)
      BY DEF OwnerCalls, OwnerAlive
    <2>2. w = current \/ w < current
      BY <2>1 DEF TypeInv, Workers, ThreadsInv, LifeInv
    <2> QED
      BY <2>1, <2>2 DEF FlightInv, ThreadsInv, LifeInv, Abandoned
  <1> QED
    BY <1>1, TypeInvAlways, ThreadsInvAlways, FlightInvAlways, PTL DEF RuntimeSpec, CallsAreInFlight

\* No operation is admitted by a worker that stops or is quarantined, nor while a row
\* says that the engine is unresponsive.
THEOREM RuntimeAdmissionIsFenced == RuntimeSpec => AdmissionIsFenced
  <1> DEFINE Fenced == /\ ~worker[current].stopping
                       /\ ~worker[current].quarantined
                       /\ \A j \in Keys : rec[j].state # "ENGINE_UNRESPONSIVE"
  <1>1. ASSUME TypeInv, ThreadsInv, AdmitInv, FlightInv, NEW c \in Clients, ClientNext(c), ~NoAdmission
        PROVE  Fenced
    <2>1. /\ client[c].pc = "admitting" /\ client[c].key \in Keys
          /\ Admit(client[c].key, client[c].request)
      BY <1>1, ClientRow
    <2>2. ~worker[current].stopping /\ ~worker[current].quarantined
      BY <1>1, <2>1 DEF Admit, AdmitInv, Admissible
    <2>3. worker[current].life = "running" /\ watchdog[current].pc # "marking"
      BY <1>1, <2>1 DEF TypeInv, ThreadsInv, LockInv, Submitting
    <2> QED
      BY <1>1, <2>2, <2>3 DEF FlightInv
  <1>2. ASSUME TypeInv, ThreadsInv, RuntimeNext, \A c \in Clients : ~ClientNext(c)
        PROVE  NoAdmission
    <2>1. ASSUME NEW w \in Workers, WorkerNext(w)
          PROVE  NoAdmission
      <3>t. TypeInv /\ StoreTypeOK
        BY <1>2 DEF TypeInv
      <3>1. CASE ConstructReconcile(w) \/ ConstructCancel(w)
        BY <3>t, <3>1, CancelledRows, ReconciledRows DEF ConstructReconcile, ConstructCancel
      <3>2. CASE \/ OwnerStep(w) \/ OwnerFault(w)
                 \/ \E result \in {"ok", "known_failure", "uncertain"} : HandlerReturns(w, result)
        BY <3>t, <3>2, OwnerRow DEF OwnerRows
      <3>3. CASE WatchdogStep(w) \/ WatchdogFault(w)
        BY <3>t, <3>3, WatchdogRow DEF WatchdogRows
      <3>4. CASE CloseEnter(w) \/ CloserStep(w)
        BY <3>t, <3>4, CloserRow DEF CloserRows
      <3> QED
        BY <2>1, <3>1, <3>2, <3>3, <3>4 DEF WorkerNext
    <2>2. CASE Reopen \/ Replace \/ Crash \/ \E k \in Keys, d \in Deadlines : TimePasses(k, d)
      BY <2>2, RowsStill DEF Reopen, Replace, Crash, TimePasses, DeadlinePasses, storeVars
    <2> QED
      BY <1>2, <2>1, <2>2 DEF RuntimeNext, Next
  <1>3. TypeInv /\ ThreadsInv /\ AdmitInv /\ FlightInv /\ [RuntimeNext]_vars =>
          [\A k \in Keys : ~Exists(k) /\ Exists(k)' => Fenced]_vars
    <2> SUFFICES ASSUME TypeInv, ThreadsInv, AdmitInv, FlightInv, RuntimeNext,
                        NEW k \in Keys, ~Exists(k), Exists(k)'
                 PROVE  Fenced
      OBVIOUS
    <2>1. ~NoAdmission
      BY DEF NoAdmission
    <2> QED
      BY <1>1, <1>2, <2>1
  <1> QED
    BY <1>3, TypeInvAlways, ThreadsInvAlways, AdmitInvAlways, FlightInvAlways, PTL
    DEF RuntimeSpec, AdmissionIsFenced
=============================================================================
