---------------------------- MODULE WorkerProofs -----------------------------
(***************************************************************************)
(* What the rows of the store tell of their handlers, proved for every     *)
(* number of keys, clients, workers and store errors, with replaced        *)
(* workers (RuntimeSpec).                                                  *)
(*                                                                         *)
(* First the types, thread by thread: they are inductive together with the *)
(* fact that a thread in the middle of its work holds the key it works on. *)
(*                                                                         *)
(* RowsTellWhatRan is not inductive: that a handler is entered once rests  *)
(* on what the owner between start() and the handler knows (its handler    *)
(* was not entered, and no other owner claimed the same row), that a row   *)
(* is reported rightly on what the owner after the handler knows.          *)
(***************************************************************************)
EXTENDS ReplacementOwner, TLAPS

\* Each kind of thread, with the key in its hands.
ClientsTyped ==
  /\ client \in [Clients -> ClientThread]
  /\ \A c \in Clients : client[c].pc # "idle" =>
       client[c].key \in Keys /\ client[c].request \in Requests
OwnersTyped ==
  /\ owner \in [Workers -> OwnerThread]
  /\ \A w \in Workers : owner[w].pc \notin {"unborn", "idle", "dead"} => owner[w].op \in Keys
WatchdogsTyped ==
  /\ watchdog \in [Workers -> WatchdogThread]
  /\ \A w \in Workers : watchdog[w].pc \in {"probing", "waiting_lock", "marking"} =>
       watchdog[w].active \in Keys
\* The object its threads share, with the key in the hands of the caller of close().
WorkersTyped ==
  /\ worker \in [Workers -> WorkerObject]
  /\ \A w \in Workers : worker[w].closer = "marking" => worker[w].drain \in Keys

TypeInv == /\ StoreTypeOK /\ current \in Workers
           /\ ClientsTyped /\ OwnersTyped /\ WatchdogsTyped /\ WorkersTyped
           /\ calls \in [Keys -> Nat] /\ faults \in 0..MaxFaults

LEMMA TypeInvIsTyped == TypeInv => TypeOK
  BY DEF TypeInv, TypeOK, ClientsTyped, OwnersTyped, WatchdogsTyped, WorkersTyped

-----------------------------------------------------------------------------
(* The store.                                                              *)

LEMMA TransitionTyped ==
  ASSUME StoreTypeOK, NEW k \in Keys, NEW expected, NEW target \in OperationState,
         Transition(k, expected, target)
  PROVE  StoreTypeOK'
  BY DEF StoreTypeOK, Transition, OperationRecord

LEMMA TransitionWithTyped ==
  ASSUME StoreTypeOK, NEW k \in Keys, NEW expected, NEW target \in OperationState,
         NEW outcome \in {"result", "error"}, TransitionWith(k, expected, target, outcome)
  PROVE  StoreTypeOK'
  BY DEF StoreTypeOK, TransitionWith, OperationRecord

LEMMA MoveAllTyped ==
  ASSUME StoreTypeOK, NEW keys, NEW from, NEW to \in OperationState, MoveAll(keys, from, to)
  PROVE  StoreTypeOK'
  BY DEF StoreTypeOK, MoveAll, OperationRecord

\* Every operation of the store that a thread calls.
StoreCall(k) ==
  \/ Start(k) \/ CancelBeforeStart(k) \/ MarkClientTimedOut(k) \/ MarkEngineUnresponsive(k)
  \/ Complete(k) \/ Fail(k) \/ RequireReconciliation(k)

LEMMA StoreCallTyped ==
  ASSUME StoreTypeOK, NEW k \in Keys, StoreCall(k)
  PROVE  StoreTypeOK'
  <1> USE DEF OperationState, InFlight, TERMINAL_STATES
  <1>1. CASE Start(k) \/ CancelBeforeStart(k) \/ MarkClientTimedOut(k) \/ MarkEngineUnresponsive(k)
    BY <1>1, TransitionTyped
    DEF Start, CancelBeforeStart, MarkClientTimedOut, MarkEngineUnresponsive
  <1>2. CASE Fail(k) \/ RequireReconciliation(k)
    BY <1>2, TransitionWithTyped DEF Fail, RequireReconciliation
  <1>3. CASE Complete(k)
    <2>1. CompletedState(k) \in OperationState
      BY DEF CompletedState
    <2> HIDE DEF OperationState
    <2> QED
      BY <1>3, <2>1, TransitionWithTyped DEF Complete
  <1> QED
    BY <1>1, <1>2, <1>3 DEF StoreCall

LEMMA RecoveryTyped ==
  ASSUME StoreTypeOK, ReconcileOrphans \/ CancelAllQueued \/ CancelExpiredQueued
  PROVE  StoreTypeOK'
  BY MoveAllTyped DEF ReconcileOrphans, CancelAllQueued, CancelExpiredQueued,
     OperationState, TERMINAL_STATES

LEMMA AdmitTyped ==
  ASSUME StoreTypeOK, NEW k \in Keys, NEW r \in Requests, Admit(k, r)
  PROVE  StoreTypeOK'
  BY DEF StoreTypeOK, Admit, OperationRecord, OperationState

LEMMA DeadlineTyped ==
  ASSUME StoreTypeOK, NEW k \in Keys, NEW d \in Deadlines, DeadlinePasses(k, d)
  PROVE  StoreTypeOK'
  BY DEF StoreTypeOK, DeadlinePasses

LEMMA StoreUnchanged == StoreTypeOK /\ UNCHANGED storeVars => StoreTypeOK'
  BY DEF StoreTypeOK, storeVars

-----------------------------------------------------------------------------
(* The threads.                                                            *)

LEMMA TypesAtInit == Init => TypeInv
  BY WorkerAssumption
  DEF Init, TypeInv, StoreInit, StoreTypeOK, NoRow, OperationRecord, Workers,
      WorkerObject, Blank, OwnerThread, OwnerAt, WatchdogThread, WatchdogAt, ClientThread,
      IdleClient, ClientsTyped, OwnersTyped, WatchdogsTyped, WorkersTyped

\* One worker object is replaced by another that is typed.
LEMMA WorkerSetTyped ==
  ASSUME WorkersTyped, NEW w \in Workers, NEW o \in WorkerObject,
         o.closer = "marking" => o.drain \in Keys,
         worker' = [worker EXCEPT ![w] = o]
  PROVE  WorkersTyped'
  BY DEF WorkersTyped

LEMMA LockSetTyped ==
  ASSUME WorkersTyped, NEW w \in Workers, NEW l \in {"free", "client", "closer", "watchdog"},
         worker' = [worker EXCEPT ![w].lock = l]
  PROVE  WorkersTyped'
  <1>1. PICK o : o = [worker[w] EXCEPT !.lock = l]
    OBVIOUS
  <1>2. worker' = [worker EXCEPT ![w] = o]
    BY <1>1
  <1>3. worker[w] \in WorkerObject /\ (worker[w].closer = "marking" => worker[w].drain \in Keys)
    BY DEF WorkersTyped
  <1>4. o \in WorkerObject /\ (o.closer = "marking" => o.drain \in Keys)
    BY <1>1, <1>3 DEF WorkerObject
  <1> QED
    BY <1>2, <1>4, WorkerSetTyped

LEMMA LifeSetTyped ==
  ASSUME WorkersTyped, NEW w \in Workers, NEW l \in {"reconciling", "cancelling", "running"},
         worker' = [worker EXCEPT ![w].life = l]
  PROVE  WorkersTyped'
  <1>1. PICK o : o = [worker[w] EXCEPT !.life = l]
    OBVIOUS
  <1>2. worker' = [worker EXCEPT ![w] = o]
    BY <1>1
  <1>3. worker[w] \in WorkerObject /\ (worker[w].closer = "marking" => worker[w].drain \in Keys)
    BY DEF WorkersTyped
  <1>4. o \in WorkerObject /\ (o.closer = "marking" => o.drain \in Keys)
    BY <1>1, <1>3 DEF WorkerObject
  <1> QED
    BY <1>2, <1>4, WorkerSetTyped

LEMMA QueueSetTyped ==
  ASSUME WorkersTyped, NEW w \in Workers, NEW q \in Seq(Keys),
         \/ worker' = [worker EXCEPT ![w].queue = q, ![w].lock = "free"]
         \/ worker' = [worker EXCEPT ![w].queue = q]
  PROVE  WorkersTyped'
  <1>1. PICK o : /\ worker' = [worker EXCEPT ![w] = o]
                 /\ \/ o = [worker[w] EXCEPT !.queue = q, !.lock = "free"]
                    \/ o = [worker[w] EXCEPT !.queue = q]
    OBVIOUS
  <1>2. worker[w] \in WorkerObject /\ (worker[w].closer = "marking" => worker[w].drain \in Keys)
    BY DEF WorkersTyped
  <1>3. o \in WorkerObject /\ (o.closer = "marking" => o.drain \in Keys)
    BY <1>1, <1>2 DEF WorkerObject
  <1> QED
    BY <1>1, <1>3, WorkerSetTyped

LEMMA ActiveSetTyped ==
  ASSUME WorkersTyped, NEW w \in Workers, NEW k \in Keys \cup {NoKey},
         worker' = [worker EXCEPT ![w].active = k]
  PROVE  WorkersTyped'
  <1>1. PICK o : o = [worker[w] EXCEPT !.active = k]
    OBVIOUS
  <1>2. worker' = [worker EXCEPT ![w] = o]
    BY <1>1
  <1>3. worker[w] \in WorkerObject /\ (worker[w].closer = "marking" => worker[w].drain \in Keys)
    BY DEF WorkersTyped
  <1>4. o \in WorkerObject /\ (o.closer = "marking" => o.drain \in Keys)
    BY <1>1, <1>3 DEF WorkerObject
  <1> QED
    BY <1>2, <1>4, WorkerSetTyped

\* One owner thread is replaced by another that is typed.
LEMMA OwnerSetTyped ==
  ASSUME OwnersTyped, NEW w \in Workers, NEW o \in OwnerThread,
         o.pc \notin {"unborn", "idle", "dead"} => o.op \in Keys,
         owner' = [owner EXCEPT ![w] = o]
  PROVE  OwnersTyped'
  BY DEF OwnersTyped

LEMMA OwnerAtTyped ==
  ASSUME OwnersTyped, NEW w \in Workers, NEW pc \in {"idle", "dead"},
         owner' = [owner EXCEPT ![w] = OwnerAt(pc)]
  PROVE  OwnersTyped'
  <1>1. OwnerAt(pc) \in OwnerThread /\ OwnerAt(pc).pc = pc
    BY DEF OwnerAt, OwnerThread
  <1> QED
    BY <1>1, OwnerSetTyped

Busy == {"taken", "expiring", "starting", "claimed", "native", "returned", "reconciling", "clearing"}

LEMMA OwnerGoesTyped ==
  ASSUME OwnersTyped, NEW w \in Workers, owner[w].pc \in Busy, NEW pc \in Busy,
         OwnerGoes(w, pc)
  PROVE  OwnersTyped'
  <1>1. PICK o : o = [owner[w] EXCEPT !.pc = pc]
    OBVIOUS
  <1>2. owner' = [owner EXCEPT ![w] = o]
    BY <1>1 DEF OwnerGoes
  <1>3. owner[w] \in OwnerThread /\ owner[w].op \in Keys
    BY DEF OwnersTyped, Busy
  <1>4. o \in OwnerThread /\ o.op \in Keys
    BY <1>1, <1>3 DEF OwnerThread, Busy
  <1> QED
    BY <1>2, <1>4, OwnerSetTyped

\* One watchdog thread is replaced by another that is typed.
LEMMA WatchdogSetTyped ==
  ASSUME WatchdogsTyped, NEW w \in Workers, NEW d \in WatchdogThread,
         d.pc \in {"probing", "waiting_lock", "marking"} => d.active \in Keys,
         watchdog' = [watchdog EXCEPT ![w] = d]
  PROVE  WatchdogsTyped'
  BY DEF WatchdogsTyped

LEMMA WatchdogAtTyped ==
  ASSUME WatchdogsTyped, NEW w \in Workers, NEW pc \in {"sweeping", "dead"},
         watchdog' = [watchdog EXCEPT ![w] = WatchdogAt(pc)]
  PROVE  WatchdogsTyped'
  <1>1. WatchdogAt(pc) \in WatchdogThread /\ WatchdogAt(pc).pc = pc
    BY DEF WatchdogAt, WatchdogThread
  <1> QED
    BY <1>1, WatchdogSetTyped

-----------------------------------------------------------------------------
(* The actions.                                                            *)

LEMMA ConstructTyped ==
  ASSUME TypeInv, NEW w \in Workers, ConstructReconcile(w) \/ ConstructCancel(w)
  PROVE  TypeInv'
  <1> USE DEF ConstructReconcile, ConstructCancel
  <1>1. StoreTypeOK'
    BY RecoveryTyped DEF TypeInv
  <1>2. WorkersTyped'
    BY LifeSetTyped DEF TypeInv
  <1>3. OwnersTyped'
    BY OwnerAtTyped DEF TypeInv, OwnersTyped
  <1>4. WatchdogsTyped'
    BY WatchdogAtTyped DEF TypeInv, WatchdogsTyped
  <1> QED
    BY <1>1, <1>2, <1>3, <1>4 DEF TypeInv, ClientsTyped

LEMMA ClientTyped ==
  ASSUME TypeInv, NEW c \in Clients, ClientNext(c)
  PROVE  TypeInv'
  <1>t. /\ StoreTypeOK /\ current \in Workers
        /\ ClientsTyped /\ OwnersTyped /\ WatchdogsTyped /\ WorkersTyped
        /\ calls \in [Keys -> Nat] /\ faults \in 0..MaxFaults
    BY DEF TypeInv
  <1>1. CASE \E k \in Keys, r \in Requests : SubmitEnter(c, k, r)
    <2>1. ClientsTyped'
      BY <1>t, <1>1 DEF SubmitEnter, ClientsTyped, ClientThread
    <2>2. WorkersTyped'
      BY <1>t, <1>1, LockSetTyped DEF SubmitEnter
    <2> QED
      BY <1>t, <1>1, <2>1, <2>2, StoreUnchanged DEF SubmitEnter, TypeInv, OwnersTyped, WatchdogsTyped
  <1>2. CASE SubmitCheck(c)
    <2>1. ClientsTyped'
      BY <1>t, <1>2 DEF SubmitCheck, ClientsTyped, ClientThread, IdleClient
    <2>2. WorkersTyped'
      <3>1. worker' = [worker EXCEPT ![current].lock = "free"] \/ UNCHANGED worker
        BY <1>2 DEF SubmitCheck
      <3> QED
        BY <1>t, <3>1, LockSetTyped DEF WorkersTyped
    <2> QED
      BY <1>t, <1>2, <2>1, <2>2, StoreUnchanged DEF SubmitCheck, TypeInv, OwnersTyped, WatchdogsTyped
  <1>3. CASE SubmitAdmit(c)
    <2>1. ClientsTyped'
      BY <1>t, <1>3 DEF SubmitAdmit, ClientsTyped, ClientThread, IdleClient
    <2>2. WorkersTyped'
      <3>1. worker' = [worker EXCEPT ![current].lock = "free"] \/ UNCHANGED worker
        BY <1>3 DEF SubmitAdmit
      <3> QED
        BY <1>t, <3>1, LockSetTyped DEF WorkersTyped
    <2>3. StoreTypeOK'
      BY <1>t, <1>3, AdmitTyped, StoreUnchanged DEF SubmitAdmit, ClientsTyped
    <2> QED
      BY <1>t, <1>3, <2>1, <2>2, <2>3 DEF SubmitAdmit, TypeInv, OwnersTyped, WatchdogsTyped
  <1>4. CASE SubmitPut(c)
    <2>1. ClientsTyped'
      BY <1>t, <1>4 DEF SubmitPut, ClientsTyped, ClientThread
    <2>2. WorkersTyped'
      <3>1. PICK q : q = Append(worker[current].queue, client[c].key)
        OBVIOUS
      <3>2. worker' = [worker EXCEPT ![current].queue = q, ![current].lock = "free"]
        BY <1>4, <3>1 DEF SubmitPut
      <3>3. q \in Seq(Keys)
        BY <1>t, <1>4, <3>1 DEF SubmitPut, WorkersTyped, WorkerObject, ClientsTyped
      <3> QED
        BY <1>t, <3>2, <3>3, QueueSetTyped
    <2> QED
      BY <1>t, <1>4, <2>1, <2>2, StoreUnchanged DEF SubmitPut, TypeInv, OwnersTyped, WatchdogsTyped
  <1>5. CASE SubmitReturn(c) \/ WaitLook(c)
    <2>1. ClientsTyped'
      BY <1>t, <1>5 DEF SubmitReturn, WaitLook, ClientsTyped, ClientThread, IdleClient
    <2> QED
      BY <1>t, <1>5, <2>1, StoreUnchanged
      DEF TypeInv, SubmitReturn, WaitLook, OwnersTyped, WatchdogsTyped, WorkersTyped
  <1>6. CASE WaitTimeOut(c)
    <2>1. ClientsTyped'
      BY <1>t, <1>6 DEF WaitTimeOut, ClientsTyped, ClientThread, IdleClient
    <2>2. StoreTypeOK'
      BY <1>t, <1>6, StoreCallTyped, StoreUnchanged DEF WaitTimeOut, ClientsTyped, StoreCall, Refused
    <2> QED
      BY <1>t, <1>6, <2>1, <2>2 DEF WaitTimeOut, TypeInv, OwnersTyped, WatchdogsTyped, WorkersTyped
  <1> QED
    BY <1>1, <1>2, <1>3, <1>4, <1>5, <1>6 DEF ClientNext, ClientStep

LEMMA OwnerTyped ==
  ASSUME TypeInv, NEW w \in Workers,
         \/ OwnerStep(w) \/ OwnerFault(w)
         \/ \E result \in {"ok", "known_failure", "uncertain"} : HandlerReturns(w, result)
  PROVE  TypeInv'
  <1>t. /\ StoreTypeOK /\ current \in Workers
        /\ ClientsTyped /\ OwnersTyped /\ WatchdogsTyped /\ WorkersTyped
        /\ calls \in [Keys -> Nat] /\ faults \in 0..MaxFaults
    BY DEF TypeInv
  <1>b. owner[w].pc \in Busy => owner[w].op \in Keys
    BY <1>t DEF OwnersTyped, Busy
  <1>1. CASE OwnerStops(w)
    <2>1. OwnersTyped'
      BY <1>t, <1>1, OwnerAtTyped DEF OwnerStops
    <2> QED
      BY <1>t, <1>1, <2>1, StoreUnchanged
      DEF OwnerStops, OwnerFrame, TypeInv, ClientsTyped, WatchdogsTyped, WorkersTyped
  <1>2. CASE OwnerTakes(w)
    <2>1. PICK q, k : /\ q = Tail(worker[w].queue) /\ k = Head(worker[w].queue)
      OBVIOUS
    <2>2. q \in Seq(Keys) /\ k \in Keys
      BY <1>t, <1>2, <2>1 DEF OwnerTakes, WorkersTyped, WorkerObject
    <2>3. worker' = [worker EXCEPT ![w].queue = q]
      BY <1>2, <2>1 DEF OwnerTakes
    <2>4. WorkersTyped'
      BY <1>t, <2>2, <2>3, QueueSetTyped
    <2>5. PICK o : o = [owner[w] EXCEPT !.pc = "taken", !.op = k]
      OBVIOUS
    <2>6. owner' = [owner EXCEPT ![w] = o]
      BY <1>2, <2>1, <2>5 DEF OwnerTakes
    <2>7. o \in OwnerThread /\ o.op \in Keys
      BY <1>t, <2>2, <2>5 DEF OwnersTyped, OwnerThread
    <2>8. OwnersTyped'
      BY <1>t, <2>6, <2>7, OwnerSetTyped
    <2> QED
      BY <1>t, <1>2, <2>4, <2>8, StoreUnchanged
      DEF OwnerTakes, OwnerFrame, TypeInv, ClientsTyped, WatchdogsTyped
  <1>3. CASE OwnerInspects(w)
    <2>1. \/ owner' = [owner EXCEPT ![w] = OwnerAt("idle")]
          \/ OwnerGoes(w, "expiring")
          \/ OwnerGoes(w, "starting")
      BY <1>3 DEF OwnerInspects, OwnerGoes
    <2>2. OwnersTyped'
      BY <1>t, <1>3, <2>1, OwnerAtTyped, OwnerGoesTyped DEF OwnerInspects, Busy
    <2> QED
      BY <1>t, <1>3, <2>2, StoreUnchanged
      DEF OwnerInspects, OwnerFrame, TypeInv, ClientsTyped, WatchdogsTyped, WorkersTyped
  <1>4. CASE OwnerCancels(w)
    <2>1. OwnersTyped'
      BY <1>t, <1>4, OwnerAtTyped DEF OwnerCancels, OwnerIdles
    <2>2. StoreTypeOK'
      BY <1>t, <1>b, <1>4, StoreCallTyped, StoreUnchanged DEF OwnerCancels, StoreCall, Refused, Busy
    <2> QED
      BY <1>t, <1>4, <2>1, <2>2
      DEF OwnerCancels, OwnerFrame, TypeInv, ClientsTyped, WatchdogsTyped, WorkersTyped
  <1>5. CASE OwnerStarts(w)
    <2>1. OwnersTyped'
      BY <1>t, <1>5, OwnerAtTyped, OwnerGoesTyped DEF OwnerStarts, OwnerIdles, Busy
    <2>2. StoreTypeOK'
      BY <1>t, <1>b, <1>5, StoreCallTyped, StoreUnchanged DEF OwnerStarts, StoreCall, Refused, Busy
    <2> QED
      BY <1>t, <1>5, <2>1, <2>2
      DEF OwnerStarts, OwnerFrame, TypeInv, ClientsTyped, WatchdogsTyped, WorkersTyped
  <1>6. CASE OwnerCalls(w)
    <2>1. OwnersTyped'
      BY <1>t, <1>6, OwnerGoesTyped DEF OwnerCalls, Busy
    <2>2. WorkersTyped'
      BY <1>t, <1>b, <1>6, ActiveSetTyped DEF OwnerCalls, Busy
    <2>3. calls' \in [Keys -> Nat]
      <3>1. PICK k : k = owner[w].op
        OBVIOUS
      <3>2. k \in Keys /\ calls' = [calls EXCEPT ![k] = calls[k] + 1]
        BY <1>b, <1>6, <3>1 DEF OwnerCalls, Busy
      <3> QED
        BY <1>t, <3>2
    <2> QED
      BY <1>t, <1>6, <2>1, <2>2, <2>3, StoreUnchanged
      DEF OwnerCalls, OwnerFrame, TypeInv, ClientsTyped, WatchdogsTyped
  <1>7. CASE OwnerRecords(w)
    <2>1. OwnersTyped'
      BY <1>t, <1>7, OwnerGoesTyped DEF OwnerRecords, Busy
    <2>2. StoreTypeOK'
      BY <1>t, <1>b, <1>7, StoreCallTyped, StoreUnchanged DEF OwnerRecords, StoreCall, Refused, Busy
    <2> QED
      BY <1>t, <1>7, <2>1, <2>2
      DEF OwnerRecords, OwnerFrame, TypeInv, ClientsTyped, WatchdogsTyped, WorkersTyped
  <1>8. CASE OwnerReconciles(w)
    <2>1. OwnersTyped'
      BY <1>t, <1>8, OwnerGoesTyped DEF OwnerReconciles, Busy
    <2>2. StoreTypeOK'
      BY <1>t, <1>b, <1>8, StoreCallTyped, StoreUnchanged DEF OwnerReconciles, StoreCall, Refused, Busy
    <2> QED
      BY <1>t, <1>8, <2>1, <2>2
      DEF OwnerReconciles, OwnerFrame, TypeInv, ClientsTyped, WatchdogsTyped, WorkersTyped
  <1>9. CASE OwnerClears(w) \/ OwnerFault(w)
    <2>1. OwnersTyped'
      BY <1>t, <1>9, OwnerAtTyped DEF OwnerClears, OwnerIdles, OwnerFault
    <2>2. PICK k : /\ k = IF worker[w].active = owner[w].op THEN NoKey ELSE worker[w].active
      OBVIOUS
    <2>3. k \in Keys \cup {NoKey}
      BY <1>t, <2>2 DEF WorkersTyped, WorkerObject
    <2>4. worker' = [worker EXCEPT ![w].active = k]
      BY <1>9, <2>2 DEF OwnerClears, OwnerFault, ActiveCleared
    <2>5. WorkersTyped'
      BY <1>t, <2>3, <2>4, ActiveSetTyped
    <2>6. faults' \in 0..MaxFaults
      BY <1>t, <1>9, WorkerAssumption DEF OwnerClears, OwnerFrame, OwnerFault
    <2> QED
      BY <1>t, <1>9, <2>1, <2>5, <2>6, StoreUnchanged
      DEF OwnerClears, OwnerFault, OwnerFrame, TypeInv, ClientsTyped, WatchdogsTyped
  <1>10. CASE \E result \in {"ok", "known_failure", "uncertain"} : HandlerReturns(w, result)
    <2>1. PICK result \in {"ok", "known_failure", "uncertain"} : HandlerReturns(w, result)
      BY <1>10
    <2>2. PICK pc : pc = IF result = "uncertain" THEN "reconciling" ELSE "returned"
      OBVIOUS
    <2>3. PICK o : o = [owner[w] EXCEPT !.result = result, !.pc = pc]
      OBVIOUS
    <2>4. owner' = [owner EXCEPT ![w] = o]
      BY <2>1, <2>2, <2>3 DEF HandlerReturns
    <2>5. owner[w] \in OwnerThread /\ owner[w].op \in Keys
      BY <1>t, <1>b, <2>1 DEF HandlerReturns, Busy, OwnersTyped
    <2>6. o \in OwnerThread /\ o.op \in Keys
      BY <2>2, <2>3, <2>5 DEF OwnerThread
    <2>7. OwnersTyped'
      BY <1>t, <2>4, <2>6, OwnerSetTyped
    <2> QED
      BY <1>t, <2>1, <2>7, StoreUnchanged
      DEF HandlerReturns, OwnerFrame, TypeInv, ClientsTyped, WatchdogsTyped, WorkersTyped
  <1> QED
    BY <1>1, <1>2, <1>3, <1>4, <1>5, <1>6, <1>7, <1>8, <1>9, <1>10 DEF OwnerStep

LEMMA WatchdogGoesTyped ==
  ASSUME WatchdogsTyped, NEW w \in Workers, watchdog[w].active \in Keys,
         \/ WatchdogGoes(w, "waiting_lock") \/ WatchdogGoes(w, "marking") \/ RoundEnds(w)
  PROVE  WatchdogsTyped'
  <1>1. watchdog[w] \in WatchdogThread
    BY DEF WatchdogsTyped
  <1>2. CASE WatchdogGoes(w, "waiting_lock") \/ WatchdogGoes(w, "marking")
    <2>1. PICK pc \in {"waiting_lock", "marking"} : watchdog' = [watchdog EXCEPT ![w].pc = pc]
      BY <1>2 DEF WatchdogGoes
    <2>2. PICK d : d = [watchdog[w] EXCEPT !.pc = pc]
      OBVIOUS
    <2>3. watchdog' = [watchdog EXCEPT ![w] = d]
      BY <2>1, <2>2
    <2>4. d \in WatchdogThread /\ d.active \in Keys
      BY <1>1, <2>2 DEF WatchdogThread
    <2> QED
      BY <2>3, <2>4, WatchdogSetTyped
  <1>3. CASE RoundEnds(w)
    <2>2. PICK d : d = [watchdog[w] EXCEPT !.pc = "sweeping", !.active = NoKey]
      OBVIOUS
    <2>3. watchdog' = [watchdog EXCEPT ![w] = d]
      BY <1>3, <2>2 DEF RoundEnds
    <2>4. d \in WatchdogThread /\ d.pc = "sweeping"
      BY <1>1, <2>2 DEF WatchdogThread
    <2> QED
      BY <2>3, <2>4, WatchdogSetTyped
  <1> QED
    BY <1>2, <1>3

LEMMA WatchdogTyped ==
  ASSUME TypeInv, NEW w \in Workers, WatchdogStep(w) \/ WatchdogFault(w)
  PROVE  TypeInv'
  <1>t. /\ StoreTypeOK /\ current \in Workers
        /\ ClientsTyped /\ OwnersTyped /\ WatchdogsTyped /\ WorkersTyped
        /\ calls \in [Keys -> Nat] /\ faults \in 0..MaxFaults
    BY DEF TypeInv
  <1>b. watchdog[w].pc \in {"probing", "waiting_lock", "marking"} => watchdog[w].active \in Keys
    BY <1>t DEF WatchdogsTyped
  <1>1. CASE WatchdogSweeps(w)
    <2>1. PICK d : d = [pc |-> IF worker[w].active = NoKey THEN "sweeping" ELSE "probing",
                        stopping |-> worker[w].stopping,
                        active |-> worker[w].active]
      OBVIOUS
    <2>2. watchdog' = [watchdog EXCEPT ![w] = d]
      BY <1>1, <2>1 DEF WatchdogSweeps
    <2>3. worker[w].active \in Keys \cup {NoKey} /\ worker[w].stopping \in BOOLEAN
      BY <1>t DEF WorkersTyped, WorkerObject
    <2>4. d \in WatchdogThread
      BY <2>1, <2>3 DEF WatchdogThread
    <2>5. d.pc \in {"probing", "waiting_lock", "marking"} => d.active \in Keys
      BY <2>1, <2>3
    <2>6. WatchdogsTyped'
      BY <1>t, <2>2, <2>4, <2>5, WatchdogSetTyped
    <2> QED
      BY <1>t, <1>1, <2>6, RecoveryTyped
      DEF WatchdogSweeps, WatchdogFrame, TypeInv, ClientsTyped, OwnersTyped, WorkersTyped
  <1>2. CASE WatchdogProbes(w)
    <2>1. WatchdogsTyped'
      BY <1>t, <1>b, <1>2, WatchdogGoesTyped DEF WatchdogProbes
    <2> QED
      BY <1>t, <1>2, <2>1, StoreUnchanged
      DEF WatchdogProbes, WatchdogFrame, TypeInv, ClientsTyped, OwnersTyped, WorkersTyped
  <1>3. CASE WatchdogMarks(w)
    <2>1. WatchdogsTyped'
      BY <1>t, <1>b, <1>3, WatchdogGoesTyped DEF WatchdogMarks
    <2>2. StoreTypeOK'
      BY <1>t, <1>b, <1>3, StoreCallTyped, StoreUnchanged DEF WatchdogMarks, StoreCall, Refused
    <2>3. worker' = [worker EXCEPT ![w].lock = "watchdog"] \/ UNCHANGED worker
      BY <1>3 DEF WatchdogMarks
    <2>4. WorkersTyped'
      BY <1>t, <2>3, LockSetTyped DEF WorkersTyped
    <2> QED
      BY <1>t, <1>3, <2>1, <2>2, <2>4
      DEF WatchdogMarks, WatchdogFrame, TypeInv, ClientsTyped, OwnersTyped
  <1>4. CASE WatchdogQuarantines(w)
    <2>1. WatchdogsTyped'
      BY <1>t, <1>b, <1>4, WatchdogGoesTyped DEF WatchdogQuarantines
    <2>2. PICK o : o = [worker[w] EXCEPT !.quarantined = TRUE, !.lock = "free"]
      OBVIOUS
    <2>3. worker' = [worker EXCEPT ![w] = o]
      BY <1>4, <2>2 DEF WatchdogQuarantines
    <2>4. worker[w] \in WorkerObject /\ (worker[w].closer = "marking" => worker[w].drain \in Keys)
      BY <1>t DEF WorkersTyped
    <2>5. o \in WorkerObject /\ (o.closer = "marking" => o.drain \in Keys)
      BY <2>2, <2>4 DEF WorkerObject
    <2>6. WorkersTyped'
      BY <1>t, <2>3, <2>5, WorkerSetTyped
    <2> QED
      BY <1>t, <1>4, <2>1, <2>6, StoreUnchanged
      DEF WatchdogQuarantines, WatchdogFrame, TypeInv, ClientsTyped, OwnersTyped
  <1>5. CASE WatchdogStops(w) \/ WatchdogFault(w)
    <2>1. WatchdogsTyped'
      BY <1>t, <1>5, WatchdogAtTyped DEF WatchdogStops, WatchdogFault
    <2>2. faults' \in 0..MaxFaults
      BY <1>t, <1>5, WorkerAssumption DEF WatchdogStops, WatchdogFrame, WatchdogFault
    <2> QED
      BY <1>t, <1>5, <2>1, <2>2, StoreUnchanged
      DEF WatchdogStops, WatchdogFault, WatchdogFrame, TypeInv, ClientsTyped, OwnersTyped, WorkersTyped
  <1> QED
    BY <1>1, <1>2, <1>3, <1>4, <1>5 DEF WatchdogStep

\* What close() writes into its worker.
LEMMA CloserSetTyped ==
  ASSUME WorkersTyped, NEW w \in Workers, CloseEnter(w) \/ CloserStep(w)
  PROVE  WorkersTyped'
  <1>1. worker[w] \in WorkerObject
    BY DEF WorkersTyped
  <1>2. CASE CloseEnter(w)
    <2>1. PICK o : o = [worker[w] EXCEPT !.stopping = TRUE, !.lock = "closer", !.closer = "stopping"]
      OBVIOUS
    <2>2. worker' = [worker EXCEPT ![w] = o]
      BY <1>2, <2>1 DEF CloseEnter
    <2>3. o \in WorkerObject /\ o.closer = "stopping"
      BY <1>1, <2>1 DEF WorkerObject
    <2> QED
      BY <2>2, <2>3, WorkerSetTyped
  <1>3. CASE CloseCancels(w)
    <2>1. PICK o : o = [worker[w] EXCEPT !.lock = "free", !.closer = "joining"]
      OBVIOUS
    <2>2. worker' = [worker EXCEPT ![w] = o]
      BY <1>3, <2>1 DEF CloseCancels
    <2>3. o \in WorkerObject /\ o.closer = "joining"
      BY <1>1, <2>1 DEF WorkerObject
    <2> QED
      BY <2>2, <2>3, WorkerSetTyped
  <1>4. CASE CloseJoinsOwner(w) \/ CloseMarks(w) \/ CloseSucceeds(w)
    <2>1. PICK c \in {"joining_watchdog", "failing", "closed"} :
            worker' = [worker EXCEPT ![w].closer = c]
      BY <1>4 DEF CloseJoinsOwner, CloseMarks, CloseSucceeds
    <2>2. PICK o : o = [worker[w] EXCEPT !.closer = c]
      OBVIOUS
    <2>3. worker' = [worker EXCEPT ![w] = o]
      BY <2>1, <2>2
    <2>4. o \in WorkerObject /\ o.closer = c
      BY <1>1, <2>2 DEF WorkerObject
    <2> QED
      BY <2>3, <2>4, WorkerSetTyped
  <1>5. CASE CloseTimesOut(w)
    <2>1. PICK k, c : /\ k = worker[w].active
                      /\ c = IF worker[w].active = NoKey THEN "failing" ELSE "marking"
      OBVIOUS
    <2>2. PICK o : o = [worker[w] EXCEPT !.drain = k, !.closer = c]
      OBVIOUS
    <2>3. worker' = [worker EXCEPT ![w] = o]
      BY <1>5, <2>1, <2>2 DEF CloseTimesOut
    <2>4. k \in Keys \cup {NoKey} /\ (c = "marking" => k \in Keys)
      BY <1>1, <2>1 DEF WorkerObject
    <2>5. o \in WorkerObject /\ (o.closer = "marking" => o.drain \in Keys)
      BY <1>1, <2>1, <2>2, <2>4 DEF WorkerObject
    <2> QED
      BY <2>3, <2>5, WorkerSetTyped
  <1>6. CASE CloseFails(w)
    <2>1. PICK o : o = [worker[w] EXCEPT !.closer = "failed", !.quarantined = TRUE, !.drain = NoKey]
      OBVIOUS
    <2>2. worker' = [worker EXCEPT ![w] = o]
      BY <1>6, <2>1 DEF CloseFails
    <2>3. o \in WorkerObject /\ o.closer = "failed"
      BY <1>1, <2>1 DEF WorkerObject
    <2> QED
      BY <2>2, <2>3, WorkerSetTyped
  <1> QED
    BY <1>2, <1>3, <1>4, <1>5, <1>6 DEF CloserStep

LEMMA CloserTyped ==
  ASSUME TypeInv, NEW w \in Workers, CloseEnter(w) \/ CloserStep(w)
  PROVE  TypeInv'
  <1>t. /\ StoreTypeOK /\ current \in Workers
        /\ ClientsTyped /\ OwnersTyped /\ WatchdogsTyped /\ WorkersTyped
        /\ calls \in [Keys -> Nat] /\ faults \in 0..MaxFaults
    BY DEF TypeInv
  <1>1. WorkersTyped'
    BY <1>t, CloserSetTyped
  <1>2. CloserFrame
    BY DEF CloseEnter, CloserStep, CloseCancels, CloseJoinsOwner, CloseTimesOut, CloseMarks,
           CloseFails, CloseSucceeds
  <1>3. StoreTypeOK'
    <2>1. CASE CloseMarks(w)
      <3>1. worker[w].drain \in Keys
        BY <1>t, <2>1 DEF CloseMarks, WorkersTyped
      <3> QED
        BY <1>t, <2>1, <3>1, StoreCallTyped, StoreUnchanged DEF CloseMarks, StoreCall, Refused
    <2>2. CASE CloseCancels(w)
      BY <1>t, <2>2, RecoveryTyped DEF CloseCancels
    <2>3. CASE CloseEnter(w) \/ CloseJoinsOwner(w) \/ CloseTimesOut(w) \/ CloseFails(w) \/ CloseSucceeds(w)
      BY <1>t, <2>3, StoreUnchanged
      DEF CloseEnter, CloseJoinsOwner, CloseTimesOut, CloseFails, CloseSucceeds
    <2> QED
      BY <2>1, <2>2, <2>3 DEF CloserStep
  <1> QED
    BY <1>t, <1>1, <1>2, <1>3 DEF CloserFrame, TypeInv, ClientsTyped, OwnersTyped, WatchdogsTyped

LEMMA NextWorkerTyped ==
  ASSUME TypeInv, Reopen \/ Replace
  PROVE  TypeInv'
  <1>t. /\ StoreTypeOK /\ current \in Workers
        /\ ClientsTyped /\ OwnersTyped /\ WatchdogsTyped /\ WorkersTyped
        /\ calls \in [Keys -> Nat] /\ faults \in 0..MaxFaults
    BY DEF TypeInv
  <1>1. current + 1 \in Workers /\ current' = current + 1
    BY <1>t, WorkerAssumption DEF Reopen, Replace, Workers
  <1>2. WorkersTyped'
    BY <1>t, <1>1, LifeSetTyped DEF Reopen, Replace
  <1> QED
    BY <1>t, <1>1, <1>2, StoreUnchanged
    DEF Reopen, Replace, TypeInv, ClientsTyped, OwnersTyped, WatchdogsTyped, Workers

LEMMA CrashTyped ==
  ASSUME TypeInv, Crash
  PROVE  TypeInv'
  <1>t. /\ StoreTypeOK /\ current \in Workers
        /\ ClientsTyped /\ OwnersTyped /\ WatchdogsTyped /\ WorkersTyped
        /\ calls \in [Keys -> Nat] /\ faults \in 0..MaxFaults
    BY DEF TypeInv
  <1>1. current' \in Workers
    BY <1>t, WorkerAssumption DEF Crash, Workers
  <1>2. WorkersTyped'
    <2>1. Blank("crashed") \in WorkerObject /\ Blank("crashed").closer = "none"
      BY DEF Blank, WorkerObject
    <2>2. Blank("reconciling") \in WorkerObject /\ Blank("reconciling").closer = "none"
      BY DEF Blank, WorkerObject
    <2>3. /\ worker' = [w \in Workers |-> worker'[w]]
          /\ \A w \in Workers : worker'[w] \in {Blank("crashed"), Blank("reconciling"), worker[w]}
      BY DEF Crash
    <2> QED
      BY <1>t, <2>1, <2>2, <2>3 DEF WorkersTyped
  <1>3. OwnersTyped'
    <2>1. OwnerAt("dead") \in OwnerThread /\ OwnerAt("dead").pc = "dead"
      BY DEF OwnerAt, OwnerThread
    <2>2. owner' = [w \in Workers |-> IF w <= current THEN OwnerAt("dead") ELSE owner[w]]
      BY DEF Crash
    <2> QED
      BY <1>t, <2>1, <2>2 DEF OwnersTyped
  <1>4. WatchdogsTyped'
    <2>1. WatchdogAt("dead") \in WatchdogThread /\ WatchdogAt("dead").pc = "dead"
      BY DEF WatchdogAt, WatchdogThread
    <2>2. watchdog' = [w \in Workers |-> IF w <= current THEN WatchdogAt("dead") ELSE watchdog[w]]
      BY DEF Crash
    <2> QED
      BY <1>t, <2>1, <2>2 DEF WatchdogsTyped
  <1>5. ClientsTyped'
    BY DEF Crash, ClientsTyped, ClientThread, IdleClient
  <1> QED
    BY <1>t, <1>1, <1>2, <1>3, <1>4, <1>5, StoreUnchanged DEF Crash, TypeInv

LEMMA RuntimeNextTyped == TypeInv /\ [RuntimeNext]_vars => TypeInv'
  <1> SUFFICES ASSUME TypeInv, [RuntimeNext]_vars
               PROVE  TypeInv'
    OBVIOUS
  <1>t. /\ StoreTypeOK /\ current \in Workers
        /\ ClientsTyped /\ OwnersTyped /\ WatchdogsTyped /\ WorkersTyped
        /\ calls \in [Keys -> Nat] /\ faults \in 0..MaxFaults
    BY DEF TypeInv
  <1>1. ASSUME NEW w \in Workers, WorkerNext(w)
        PROVE  TypeInv'
    BY <1>1, ConstructTyped, OwnerTyped, WatchdogTyped, CloserTyped DEF WorkerNext
  <1>2. ASSUME NEW c \in Clients, ClientNext(c)
        PROVE  TypeInv'
    BY <1>2, ClientTyped
  <1>3. ASSUME NEW k \in Keys, NEW d \in Deadlines, TimePasses(k, d)
        PROVE  TypeInv'
    BY <1>t, <1>3, DeadlineTyped
    DEF TimePasses, threadVars, TypeInv, ClientsTyped, OwnersTyped, WatchdogsTyped, WorkersTyped
  <1>4. CASE UNCHANGED vars
    BY <1>t, <1>4, StoreUnchanged
    DEF vars, storeVars, TypeInv, ClientsTyped, OwnersTyped, WatchdogsTyped, WorkersTyped
  <1> QED
    BY <1>1, <1>2, <1>3, <1>4, CrashTyped, NextWorkerTyped DEF RuntimeNext, Next

LEMMA TypeInvAlways == RuntimeSpec => []TypeInv
  BY TypesAtInit, RuntimeNextTyped, PTL DEF RuntimeSpec

-----------------------------------------------------------------------------

\* A worker alone takes only steps that the runtime may take as well.
LEMMA SpecIsRuntimeSpec == Spec => RuntimeSpec
  <1>1. [Next]_vars => [RuntimeNext]_vars
    BY DEF RuntimeNext
  <1> QED
    BY <1>1, PTL DEF Spec, RuntimeSpec

\* Every value a thread writes, in the store or in the fields the threads share, is of its
\* type, and every key a thread works on is a key: whatever the runtime, the clients, the
\* deadlines and the crashes do to a worker.
THEOREM RuntimeTypeCorrect == RuntimeSpec => []TypeOK
  BY TypeInvAlways, TypeInvIsTyped, PTL

\* The same for the workers of Spec, none of which is replaced while it still runs.
THEOREM WorkerTypeCorrect == Spec => []TypeOK
  BY RuntimeTypeCorrect, SpecIsRuntimeSpec, PTL

-----------------------------------------------------------------------------

\* The rows whose operation was not begun, and those that report a call.
Early(k) == rec[k].state \in {"ABSENT", "QUEUED", "CANCELLED_BEFORE_START"}
Reported(k) == rec[k].state \in {"COMPLETED", "COMPLETED_AFTER_CLIENT_TIMEOUT", "FAILED"}

\* The owner has begun its operation and not entered the handler, and has entered it.
Claimed(w) == owner[w].pc = "claimed"
Entered(w) == owner[w].pc \in {"native", "returned", "reconciling", "clearing"}

OwnersKnow ==
  /\ \A w \in Workers : Claimed(w) => calls[owner[w].op] = 0 /\ ~Early(owner[w].op)
  /\ \A w \in Workers : Entered(w) => calls[owner[w].op] = 1 /\ ~Early(owner[w].op)
  /\ \A v, w \in Workers : Claimed(v) /\ Claimed(w) /\ owner[v].op = owner[w].op => v = w

CallsInv == RowsTellWhatRan /\ OwnersKnow

-----------------------------------------------------------------------------
(* The store: a row never returns to before its start, a final row never   *)
(* changes, a bound request stays, and only complete() and fail() report.  *)

RowsGoOn == \A k \in Keys : /\ Early(k)' => Early(k)
                            /\ Terminal(k) => rec'[k] = rec[k]
                            /\ Exists(k) => Exists(k)' /\ rec'[k].request = rec[k].request

ReportsNothing == \A k \in Keys : Reported(k)' => Reported(k)

LEMMA TransitionGoesOn ==
  ASSUME StoreTypeOK, NEW k \in Keys, NEW expected, NEW target \in OperationState,
         expected \cap TERMINAL_STATES = {}, "ABSENT" \notin expected,
         target \in {"ABSENT", "QUEUED", "CANCELLED_BEFORE_START"} => expected = {"QUEUED"},
         \/ Transition(k, expected, target)
         \/ \E outcome \in {"result", "error"} : TransitionWith(k, expected, target, outcome)
  PROVE  /\ RowsGoOn
         /\ target \notin {"COMPLETED", "COMPLETED_AFTER_CLIENT_TIMEOUT", "FAILED"} => ReportsNothing
  <1>1. /\ rec \in [Keys -> OperationRecord]
        /\ rec[k].state \in expected
    BY DEF StoreTypeOK, Transition, TransitionWith
  <1>2. /\ rec' = [rec EXCEPT ![k] = rec'[k]]
        /\ rec'[k].state = target /\ rec'[k].request = rec[k].request
    BY <1>1 DEF Transition, TransitionWith, OperationRecord
  <1>3. \A j \in Keys : j # k => rec'[j] = rec[j]
    BY <1>1, <1>2
  <1>4. ~Terminal(k) /\ Exists(k) /\ target # "ABSENT"
    BY <1>1 DEF Terminal, Exists, OperationState, InFlight, TERMINAL_STATES
  <1>5. Early(k)' => Early(k)
    BY <1>1, <1>2 DEF Early
  <1>6. RowsGoOn
    BY <1>2, <1>3, <1>4, <1>5 DEF RowsGoOn, Early, Terminal, Exists
  <1>7. ASSUME target \notin {"COMPLETED", "COMPLETED_AFTER_CLIENT_TIMEOUT", "FAILED"}
        PROVE  ReportsNothing
    BY <1>2, <1>3, <1>7 DEF ReportsNothing, Reported
  <1> QED
    BY <1>6, <1>7

LEMMA MoveAllGoesOn ==
  ASSUME StoreTypeOK, NEW keys, NEW from, NEW to \in OperationState, MoveAll(keys, from, to),
         \/ from = InFlight /\ to = "RECONCILIATION_REQUIRED"
         \/ from = {"QUEUED"} /\ to = "CANCELLED_BEFORE_START"
  PROVE  RowsGoOn /\ ReportsNothing
  BY DEF StoreTypeOK, MoveAll, OperationRecord, RowsGoOn, ReportsNothing, Early, Reported,
     Terminal, Exists, InFlight, TERMINAL_STATES

LEMMA RecoveryGoesOn ==
  ASSUME StoreTypeOK, ReconcileOrphans \/ CancelAllQueued \/ CancelExpiredQueued
  PROVE  RowsGoOn /\ ReportsNothing
  BY MoveAllGoesOn DEF ReconcileOrphans, CancelAllQueued, CancelExpiredQueued,
     OperationState, TERMINAL_STATES

\* Every call of the store by a thread that reports nothing.
QuietCall(k) ==
  \/ Start(k) \/ CancelBeforeStart(k) \/ MarkClientTimedOut(k) \/ MarkEngineUnresponsive(k)
  \/ RequireReconciliation(k)

LEMMA QuietCallGoesOn ==
  ASSUME StoreTypeOK, NEW k \in Keys, QuietCall(k)
  PROVE  RowsGoOn /\ ReportsNothing
  <1> USE DEF OperationState, InFlight, TERMINAL_STATES, Responsive
  <1>1. CASE Start(k) \/ CancelBeforeStart(k)
    BY <1>1, TransitionGoesOn DEF Start, CancelBeforeStart
  <1>2. CASE MarkClientTimedOut(k) \/ MarkEngineUnresponsive(k)
    BY <1>2, TransitionGoesOn DEF MarkClientTimedOut, MarkEngineUnresponsive
  <1>3. CASE RequireReconciliation(k)
    BY <1>3, TransitionGoesOn DEF RequireReconciliation
  <1> QED
    BY <1>1, <1>2, <1>3 DEF QuietCall

LEMMA ReportGoesOn ==
  ASSUME StoreTypeOK, NEW k \in Keys, Complete(k) \/ Fail(k)
  PROVE  /\ RowsGoOn /\ rec[k].state \in InFlight
         /\ \A j \in Keys : Reported(j)' => Reported(j) \/ j = k
  <1>1. rec[k].state \in InFlight
    BY DEF Complete, Fail, TransitionWith, InFlight, Responsive
  <1>2. RowsGoOn
    <2>1. CASE Complete(k)
      <3>1. PICK target : target = CompletedState(k)
        OBVIOUS
      <3>2. target \in {"RECONCILIATION_REQUIRED", "COMPLETED_AFTER_CLIENT_TIMEOUT", "COMPLETED"}
        BY <3>1 DEF CompletedState
      <3>3. TransitionWith(k, InFlight, target, "result")
        BY <2>1, <3>1 DEF Complete
      <3> QED
        BY <3>2, <3>3, TransitionGoesOn DEF OperationState, InFlight, TERMINAL_STATES
    <2>2. CASE Fail(k)
      BY <2>2, TransitionGoesOn DEF Fail, OperationState, InFlight, TERMINAL_STATES, Responsive
    <2> QED
      BY <2>1, <2>2
  <1>3. \A j \in Keys : j # k => rec'[j] = rec[j]
    BY DEF Complete, Fail, TransitionWith, StoreTypeOK
  <1> QED
    BY <1>1, <1>2, <1>3 DEF Reported

LEMMA AdmitGoesOn ==
  ASSUME StoreTypeOK, NEW k \in Keys, NEW r \in Requests, Admit(k, r)
  PROVE  RowsGoOn /\ ReportsNothing
  BY DEF StoreTypeOK, Admit, OperationRecord, RowsGoOn, ReportsNothing, Early, Reported,
     Terminal, Exists, TERMINAL_STATES

LEMMA NothingGoesOn == UNCHANGED rec => RowsGoOn /\ ReportsNothing
  BY DEF RowsGoOn, ReportsNothing, Early, Reported, Terminal, Exists

-----------------------------------------------------------------------------
(* The owners.                                                             *)

\* No owner comes nearer to its handler, and no row reports more.
LEMMA QuietStep ==
  ASSUME TypeInv, CallsInv, RowsGoOn, ReportsNothing, UNCHANGED calls,
         \A v \in Workers : /\ Claimed(v)' => Claimed(v) /\ owner'[v].op = owner[v].op
                            /\ Entered(v)' => Entered(v) /\ owner'[v].op = owner[v].op
  PROVE  CallsInv'
  <1>1. \A v \in Workers : Claimed(v) \/ Entered(v) => owner[v].op \in Keys
    BY DEF TypeInv, OwnersTyped, Claimed, Entered
  <1>2. RowsTellWhatRan'
    BY DEF CallsInv, RowsTellWhatRan, RowsGoOn, ReportsNothing, Early, Reported
  <1>3. \A v \in Workers : Claimed(v)' \/ Entered(v)' => (~Early(owner[v].op) => ~Early(owner[v].op)')
    BY <1>1 DEF RowsGoOn, Early
  <1>4. \A v \in Workers : Claimed(v)' => calls'[owner'[v].op] = 0 /\ ~(Early(owner[v].op)') /\ owner'[v].op = owner[v].op
    BY <1>3 DEF CallsInv, OwnersKnow
  <1>5. \A v \in Workers : Entered(v)' => calls'[owner'[v].op] = 1 /\ ~(Early(owner[v].op)') /\ owner'[v].op = owner[v].op
    BY <1>3 DEF CallsInv, OwnersKnow
  <1>6. OwnersKnow'
    BY <1>4, <1>5 DEF CallsInv, OwnersKnow, Early
  <1> QED
    BY <1>2, <1>6 DEF CallsInv

\* Nothing but the thread of one owner moves, and it stays away from the handler.
LEMMA OwnerAwayStep ==
  ASSUME TypeInv, CallsInv, RowsGoOn, ReportsNothing, UNCHANGED calls, NEW w \in Workers, NEW o,
         owner' = [owner EXCEPT ![w] = o] \/ UNCHANGED owner,
         o.pc \notin {"claimed", "native", "returned", "reconciling", "clearing"}
  PROVE  CallsInv'
  <1>1. \A v \in Workers : owner'[v] = owner[v] \/ owner'[v] = o
    BY DEF TypeInv, OwnersTyped
  <1> QED
    BY <1>1, QuietStep DEF Claimed, Entered

\* The owner's thread moves on after its handler was entered.
LEMMA OwnerAfterStep ==
  ASSUME TypeInv, CallsInv, RowsGoOn, ReportsNothing, UNCHANGED calls, NEW w \in Workers,
         Entered(w), NEW o, o.pc # "claimed", o.op = owner[w].op,
         owner' = [owner EXCEPT ![w] = o]
  PROVE  CallsInv'
  <1>1. \A v \in Workers : owner'[v] = IF v = w THEN o ELSE owner[v]
    BY DEF TypeInv, OwnersTyped
  <1> QED
    BY <1>1, QuietStep DEF Claimed, Entered

\* start() succeeds: the row was queued, so no owner claimed it and no handler was entered.
LEMMA StartsStep ==
  ASSUME TypeInv, CallsInv, NEW w \in Workers, owner[w].pc = "starting",
         Start(owner[w].op), OwnerGoes(w, "claimed"), UNCHANGED calls
  PROVE  CallsInv'
  <1>1. PICK k : k = owner[w].op
    OBVIOUS
  <1>2. k \in Keys
    BY <1>1 DEF TypeInv, OwnersTyped
  <1>3. RowsGoOn /\ ReportsNothing
    BY <1>1, <1>2, QuietCallGoesOn DEF TypeInv, QuietCall
  <1>4. rec[k].state = "QUEUED" /\ rec'[k].state = "IN_FLIGHT"
    BY <1>1, <1>2 DEF Start, Transition, TypeInv, StoreTypeOK, OperationRecord
  <1>5. calls[k] = 0 /\ Early(k) /\ ~(Early(k)')
    BY <1>2, <1>4 DEF CallsInv, RowsTellWhatRan, Early
  <1>6. \A v \in Workers : Claimed(v) \/ Entered(v) => owner[v].op # k
    BY <1>5 DEF CallsInv, OwnersKnow, Early
  <1>7. RowsTellWhatRan'
    BY <1>3 DEF CallsInv, RowsTellWhatRan, RowsGoOn, ReportsNothing, Early, Reported
  <1>8. /\ \A v \in Workers : v # w => owner'[v] = owner[v]
        /\ owner'[w].pc = "claimed" /\ owner'[w].op = k
    BY <1>1 DEF OwnerGoes, TypeInv, OwnersTyped, OwnerThread
  <1>9. \A v \in Workers : Claimed(v) \/ Entered(v) => owner[v].op \in Keys
    BY DEF TypeInv, OwnersTyped, Claimed, Entered
  <1>10. \A j \in Keys : ~Early(j) => ~(Early(j)')
    BY <1>3 DEF RowsGoOn
  <1>11. \A v \in Workers : Claimed(v)' =>
           /\ calls'[owner'[v].op] = 0 /\ ~(rec'[owner'[v].op].state \in {"ABSENT", "QUEUED", "CANCELLED_BEFORE_START"})
    BY <1>5, <1>8, <1>9, <1>10 DEF CallsInv, OwnersKnow, Claimed, Early
  <1>12. \A v \in Workers : Entered(v)' =>
           /\ calls'[owner'[v].op] = 1 /\ ~(rec'[owner'[v].op].state \in {"ABSENT", "QUEUED", "CANCELLED_BEFORE_START"})
    BY <1>5, <1>8, <1>9, <1>10 DEF CallsInv, OwnersKnow, Entered, Early
  <1>13. \A u, v \in Workers : Claimed(u)' /\ Claimed(v)' /\ owner'[u].op = owner'[v].op => u = v
    BY <1>6, <1>8 DEF CallsInv, OwnersKnow, Claimed
  <1>14. OwnersKnow'
    BY <1>11, <1>12, <1>13 DEF OwnersKnow, Early
  <1> QED
    BY <1>7, <1>14 DEF CallsInv

\* The handler is entered: its row is begun, and by the count not yet reported.
LEMMA CallsStep ==
  ASSUME TypeInv, CallsInv, NEW w \in Workers, OwnerCalls(w)
  PROVE  CallsInv'
  <1>1. PICK k : k = owner[w].op
    OBVIOUS
  <1>2. k \in Keys /\ Claimed(w)
    BY <1>1 DEF OwnerCalls, TypeInv, OwnersTyped, Claimed
  <1>3. calls' = [calls EXCEPT ![k] = calls[k] + 1] /\ calls[k] = 0 /\ ~Early(k)
    BY <1>1, <1>2 DEF OwnerCalls, CallsInv, OwnersKnow
  <1>4. calls'[k] = 1 /\ \A j \in Keys : j # k => calls'[j] = calls[j]
    BY <1>2, <1>3 DEF TypeInv
  <1>5. UNCHANGED rec
    BY DEF OwnerCalls, storeVars
  <1>6. /\ \A v \in Workers : v # w => owner'[v] = owner[v]
        /\ owner'[w].pc = "native" /\ owner'[w].op = k
    BY <1>1 DEF OwnerCalls, OwnerGoes, TypeInv, OwnersTyped, OwnerThread
  <1>7. RowsTellWhatRan'
    BY <1>2, <1>3, <1>4, <1>5 DEF CallsInv, RowsTellWhatRan, Early
  <1>8. \A v \in Workers : v # w /\ (Claimed(v) \/ Entered(v)) => owner[v].op \in Keys /\ (Claimed(v) => owner[v].op # k)
    BY <1>1, <1>2 DEF TypeInv, OwnersTyped, Claimed, Entered, CallsInv, OwnersKnow
  <1>9. \A v \in Workers : Entered(v) => owner[v].op # k
    BY <1>3 DEF CallsInv, OwnersKnow
  <1>10. \A v \in Workers : Claimed(v)' => /\ v # w /\ owner'[v] = owner[v] /\ Claimed(v)
                                          /\ calls'[owner'[v].op] = 0
    BY <1>4, <1>6, <1>8 DEF CallsInv, OwnersKnow, Claimed
  <1>11. \A v \in Workers : Entered(v)' => calls'[owner'[v].op] = 1 /\ ~Early(owner'[v].op)
    BY <1>3, <1>4, <1>6, <1>8, <1>9 DEF CallsInv, OwnersKnow, Entered
  <1>12. OwnersKnow'
    BY <1>5, <1>10, <1>11 DEF CallsInv, OwnersKnow, Early
  <1> QED
    BY <1>7, <1>12 DEF CallsInv

\* The outcome of an entered handler is recorded.
LEMMA ReportStep ==
  ASSUME TypeInv, CallsInv, NEW w \in Workers, Entered(w),
         Complete(owner[w].op) \/ Fail(owner[w].op), OwnerGoes(w, "clearing"), UNCHANGED calls
  PROVE  CallsInv'
  <1>1. PICK k : k = owner[w].op
    OBVIOUS
  <1>2. k \in Keys
    BY <1>1 DEF TypeInv, OwnersTyped, Entered
  <1>3. calls[k] = 1
    BY <1>1 DEF CallsInv, OwnersKnow
  <1>4. RowsGoOn /\ \A j \in Keys : Reported(j)' => Reported(j) \/ j = k
    BY <1>1, <1>2, ReportGoesOn DEF TypeInv
  <1>5. RowsTellWhatRan'
    BY <1>3, <1>4 DEF CallsInv, RowsTellWhatRan, RowsGoOn, Early, Reported
  <1>6. \A v \in Workers : v # w => owner'[v] = owner[v]
    BY DEF OwnerGoes, TypeInv, OwnersTyped
  <1>7. owner'[w].pc = "clearing" /\ owner'[w].op = k
    BY <1>1 DEF OwnerGoes, TypeInv, OwnersTyped, OwnerThread
  <1>8. \A v \in Workers : Claimed(v) \/ Entered(v) => owner[v].op \in Keys
    BY DEF TypeInv, OwnersTyped, Claimed, Entered
  <1>9. \A v \in Workers : /\ Claimed(v)' => Claimed(v) /\ owner'[v].op = owner[v].op
                           /\ Entered(v)' => Entered(v) /\ owner'[v].op = owner[v].op
    BY <1>1, <1>6, <1>7 DEF Claimed, Entered
  <1>10. \A j \in Keys : ~Early(j) => ~(rec'[j].state \in {"ABSENT", "QUEUED", "CANCELLED_BEFORE_START"})
    BY <1>4 DEF RowsGoOn, Early
  <1>11. OwnersKnow'
    BY <1>8, <1>9, <1>10 DEF CallsInv, OwnersKnow, Early
  <1> QED
    BY <1>5, <1>11 DEF CallsInv

LEMMA CallsAtInit == Init => CallsInv
  BY DEF Init, StoreInit, NoRow, OwnerAt, CallsInv, RowsTellWhatRan, OwnersKnow, Claimed, Entered

LEMMA OwnerKeepsCalls ==
  ASSUME TypeInv, CallsInv, NEW w \in Workers,
         \/ OwnerStep(w) \/ OwnerFault(w)
         \/ \E result \in {"ok", "known_failure", "uncertain"} : HandlerReturns(w, result)
  PROVE  CallsInv'
  <1>t. StoreTypeOK /\ (owner[w].pc \in Busy => owner[w].op \in Keys)
    BY DEF TypeInv, OwnersTyped, Busy
  <1>a. OwnerAt("idle").pc = "idle" /\ OwnerAt("dead").pc = "dead"
    BY DEF OwnerAt
  <1>1. CASE OwnerStops(w) \/ OwnerClears(w) \/ OwnerFault(w)
    BY <1>1, <1>a, OwnerAwayStep, NothingGoesOn
    DEF OwnerStops, OwnerClears, OwnerFault, OwnerFrame, OwnerIdles, storeVars
  <1>2. CASE OwnerTakes(w)
    <2>1. PICK o : o = [owner[w] EXCEPT !.pc = "taken", !.op = Head(worker[w].queue)]
      OBVIOUS
    <2>2. o.pc = "taken" /\ owner' = [owner EXCEPT ![w] = o]
      BY <1>2, <2>1 DEF OwnerTakes, TypeInv, OwnersTyped, OwnerThread
    <2> QED
      BY <1>2, <2>2, OwnerAwayStep, NothingGoesOn DEF OwnerTakes, storeVars
  <1>3. CASE OwnerInspects(w)
    <2>1. PICK o : /\ owner' = [owner EXCEPT ![w] = o]
                   /\ \/ o = OwnerAt("idle")
                      \/ o = [owner[w] EXCEPT !.pc = "expiring"]
                      \/ o = [owner[w] EXCEPT !.pc = "starting"]
      BY <1>3 DEF OwnerInspects
    <2>2. o.pc \in {"idle", "expiring", "starting"}
      BY <1>a, <2>1 DEF TypeInv, OwnersTyped, OwnerThread
    <2> QED
      BY <1>3, <2>1, <2>2, OwnerAwayStep, NothingGoesOn DEF OwnerInspects, storeVars
  <1>4. CASE OwnerCancels(w)
    <2>1. RowsGoOn /\ ReportsNothing
      BY <1>t, <1>4, QuietCallGoesOn, NothingGoesOn DEF OwnerCancels, QuietCall, Refused, storeVars, Busy
    <2> QED
      BY <1>4, <1>a, <2>1, OwnerAwayStep DEF OwnerCancels, OwnerIdles
  <1>5. CASE OwnerStarts(w)
    <2>1. CASE Start(owner[w].op) /\ OwnerGoes(w, "claimed")
      BY <1>5, <2>1, StartsStep DEF OwnerStarts
    <2>2. CASE Refused(owner[w].op, {"QUEUED"}) /\ OwnerIdles(w)
      BY <1>5, <1>a, <2>2, OwnerAwayStep, NothingGoesOn DEF OwnerStarts, OwnerIdles, Refused, storeVars
    <2> QED
      BY <1>5, <2>1, <2>2 DEF OwnerStarts
  <1>6. CASE OwnerCalls(w)
    BY <1>6, CallsStep
  <1>7. CASE OwnerRecords(w)
    <2>1. Entered(w) /\ UNCHANGED calls
      BY <1>7 DEF OwnerRecords, Entered
    <2>2. CASE Complete(owner[w].op) /\ OwnerGoes(w, "clearing")
      BY <2>1, <2>2, ReportStep
    <2>3. CASE Fail(owner[w].op) /\ OwnerGoes(w, "clearing")
      BY <2>1, <2>3, ReportStep
    <2>4. CASE UNCHANGED rec /\ (OwnerGoes(w, "clearing") \/ OwnerGoes(w, "reconciling"))
      <3>1. PICK o : /\ owner' = [owner EXCEPT ![w] = o]
                     /\ \/ o = [owner[w] EXCEPT !.pc = "clearing"]
                        \/ o = [owner[w] EXCEPT !.pc = "reconciling"]
        BY <2>4 DEF OwnerGoes
      <3>2. o.pc # "claimed" /\ o.op = owner[w].op
        BY <3>1 DEF TypeInv, OwnersTyped, OwnerThread
      <3> QED
        BY <2>1, <2>4, <3>1, <3>2, OwnerAfterStep, NothingGoesOn
    <2> QED
      BY <1>7, <2>2, <2>3, <2>4 DEF OwnerRecords, Refused, storeVars
  <1>8. CASE OwnerReconciles(w)
    <2>1. RowsGoOn /\ ReportsNothing
      BY <1>t, <1>8, QuietCallGoesOn, NothingGoesOn DEF OwnerReconciles, QuietCall, Refused, storeVars, Busy
    <2>2. PICK o : o = [owner[w] EXCEPT !.pc = "clearing"] /\ owner' = [owner EXCEPT ![w] = o]
      BY <1>8 DEF OwnerReconciles, OwnerGoes
    <2>3. o.pc = "clearing" /\ o.op = owner[w].op
      BY <2>2 DEF TypeInv, OwnersTyped, OwnerThread
    <2> QED
      BY <1>8, <2>1, <2>2, <2>3, OwnerAfterStep DEF OwnerReconciles, Entered
  <1>9. CASE \E result \in {"ok", "known_failure", "uncertain"} : HandlerReturns(w, result)
    <2>1. PICK result \in {"ok", "known_failure", "uncertain"} : HandlerReturns(w, result)
      BY <1>9
    <2>2. PICK o : /\ owner' = [owner EXCEPT ![w] = o]
                   /\ \/ o = [owner[w] EXCEPT !.result = result, !.pc = "reconciling"]
                      \/ o = [owner[w] EXCEPT !.result = result, !.pc = "returned"]
      <3>1. owner' = [owner EXCEPT ![w] = [owner[w] EXCEPT !.result = result,
                        !.pc = IF result = "uncertain" THEN "reconciling" ELSE "returned"]]
        BY <2>1 DEF HandlerReturns
      <3> QED BY <3>1
    <2>3. o.pc # "claimed" /\ o.op = owner[w].op
      BY <2>2 DEF TypeInv, OwnersTyped, OwnerThread
    <2> QED
      BY <2>1, <2>2, <2>3, OwnerAfterStep, NothingGoesOn DEF HandlerReturns, Entered, storeVars
  <1> QED
    BY <1>1, <1>2, <1>3, <1>4, <1>5, <1>6, <1>7, <1>8, <1>9 DEF OwnerStep

\* The threads beside the owners: what they write, they write without a report.
LEMMA OthersGoOn ==
  ASSUME TypeInv,
         \/ \E w \in Workers : \/ ConstructReconcile(w) \/ ConstructCancel(w)
                               \/ WatchdogStep(w) \/ WatchdogFault(w)
                               \/ CloseEnter(w) \/ CloserStep(w)
         \/ \E c \in Clients : ClientNext(c)
         \/ \E k \in Keys, d \in Deadlines : TimePasses(k, d)
         \/ Reopen \/ Replace \/ Crash \/ UNCHANGED vars
  PROVE  RowsGoOn /\ ReportsNothing /\ UNCHANGED calls
  <1>t. StoreTypeOK
    BY DEF TypeInv
  <1>1. ASSUME NEW w \in Workers, ConstructReconcile(w) \/ ConstructCancel(w)
        PROVE  RowsGoOn /\ ReportsNothing /\ UNCHANGED calls
    BY <1>t, <1>1, RecoveryGoesOn DEF ConstructReconcile, ConstructCancel
  <1>2. ASSUME NEW w \in Workers, WatchdogStep(w) \/ WatchdogFault(w)
        PROVE  RowsGoOn /\ ReportsNothing /\ UNCHANGED calls
    <2>1. CASE WatchdogSweeps(w)
      BY <1>t, <2>1, RecoveryGoesOn DEF WatchdogSweeps, WatchdogFrame
    <2>2. CASE WatchdogMarks(w)
      <3>1. watchdog[w].active \in Keys
        BY <2>2 DEF WatchdogMarks, TypeInv, WatchdogsTyped
      <3> QED
        BY <1>t, <2>2, <3>1, QuietCallGoesOn, NothingGoesOn
        DEF WatchdogMarks, WatchdogFrame, QuietCall, Refused, storeVars
    <2>3. CASE WatchdogProbes(w) \/ WatchdogQuarantines(w) \/ WatchdogStops(w) \/ WatchdogFault(w)
      BY <2>3, NothingGoesOn
      DEF WatchdogProbes, WatchdogQuarantines, WatchdogStops, WatchdogFault, WatchdogFrame, storeVars
    <2> QED
      BY <1>2, <2>1, <2>2, <2>3 DEF WatchdogStep
  <1>3. ASSUME NEW w \in Workers, CloseEnter(w) \/ CloserStep(w)
        PROVE  RowsGoOn /\ ReportsNothing /\ UNCHANGED calls
    <2>1. CASE CloseCancels(w)
      BY <1>t, <2>1, RecoveryGoesOn DEF CloseCancels, CloserFrame
    <2>2. CASE CloseMarks(w)
      <3>1. worker[w].drain \in Keys
        BY <2>2 DEF CloseMarks, TypeInv, WorkersTyped
      <3> QED
        BY <1>t, <2>2, <3>1, QuietCallGoesOn, NothingGoesOn
        DEF CloseMarks, CloserFrame, QuietCall, Refused, storeVars
    <2>3. CASE CloseEnter(w) \/ CloseJoinsOwner(w) \/ CloseTimesOut(w) \/ CloseFails(w) \/ CloseSucceeds(w)
      BY <2>3, NothingGoesOn
      DEF CloseEnter, CloseJoinsOwner, CloseTimesOut, CloseFails, CloseSucceeds, CloserFrame, storeVars
    <2> QED
      BY <1>3, <2>1, <2>2, <2>3 DEF CloserStep
  <1>4. ASSUME NEW c \in Clients, ClientNext(c)
        PROVE  RowsGoOn /\ ReportsNothing /\ UNCHANGED calls
    <2>1. client[c].pc # "idle" => client[c].key \in Keys /\ client[c].request \in Requests
      BY DEF TypeInv, ClientsTyped
    <2>2. CASE SubmitAdmit(c)
      BY <1>t, <2>1, <2>2, AdmitGoesOn, NothingGoesOn DEF SubmitAdmit, storeVars
    <2>3. CASE WaitTimeOut(c)
      BY <1>t, <2>1, <2>3, QuietCallGoesOn, NothingGoesOn DEF WaitTimeOut, QuietCall, Refused, storeVars
    <2>4. CASE \/ \E k \in Keys, r \in Requests : SubmitEnter(c, k, r)
               \/ SubmitCheck(c) \/ SubmitPut(c) \/ SubmitReturn(c) \/ WaitLook(c)
      BY <2>4, NothingGoesOn DEF SubmitEnter, SubmitCheck, SubmitPut, SubmitReturn, WaitLook, storeVars
    <2> QED
      BY <1>4, <2>2, <2>3, <2>4 DEF ClientNext, ClientStep
  <1>5. ASSUME \/ \E k \in Keys, d \in Deadlines : TimePasses(k, d)
               \/ Reopen \/ Replace \/ Crash \/ UNCHANGED vars
        PROVE  RowsGoOn /\ ReportsNothing /\ UNCHANGED calls
    BY <1>5, NothingGoesOn DEF TimePasses, DeadlinePasses, Reopen, Replace, Crash, vars, storeVars
  <1> QED
    BY <1>1, <1>2, <1>3, <1>4, <1>5

LEMMA OthersKeepCalls ==
  ASSUME TypeInv, CallsInv,
         \/ \E w \in Workers : \/ ConstructReconcile(w) \/ ConstructCancel(w)
                               \/ WatchdogStep(w) \/ WatchdogFault(w)
                               \/ CloseEnter(w) \/ CloserStep(w)
         \/ \E c \in Clients : ClientNext(c)
         \/ \E k \in Keys, d \in Deadlines : TimePasses(k, d)
         \/ Reopen \/ Replace \/ Crash \/ UNCHANGED vars
  PROVE  CallsInv'
  <1>1. RowsGoOn /\ ReportsNothing /\ UNCHANGED calls
    BY OthersGoOn
  <1>a. OwnerAt("idle").pc = "idle" /\ OwnerAt("dead").pc = "dead"
    BY DEF OwnerAt
  <1>2. ASSUME NEW w \in Workers, ConstructCancel(w)
        PROVE  CallsInv'
    BY <1>1, <1>2, <1>a, OwnerAwayStep DEF ConstructCancel
  <1>3. CASE Crash
    <2>1. \A v \in Workers : owner'[v] = owner[v] \/ owner'[v].pc = "dead"
      BY <1>3, <1>a DEF Crash
    <2> QED
      BY <1>1, <2>1, QuietStep DEF Claimed, Entered
  <1>4. CASE UNCHANGED owner
    BY <1>1, <1>4, QuietStep DEF Claimed, Entered
  <1>5. ASSUME NEW w \in Workers,
               \/ ConstructReconcile(w)
               \/ WatchdogStep(w) \/ WatchdogFault(w) \/ CloseEnter(w) \/ CloserStep(w)
        PROVE  UNCHANGED owner
    BY <1>5 DEF ConstructReconcile, WatchdogStep, WatchdogFault, WatchdogSweeps, WatchdogProbes,
       WatchdogMarks, WatchdogQuarantines, WatchdogStops, WatchdogFrame, CloseEnter, CloserStep,
       CloseCancels, CloseJoinsOwner, CloseTimesOut, CloseMarks, CloseFails, CloseSucceeds, CloserFrame
  <1>6. ASSUME NEW c \in Clients, ClientNext(c)
        PROVE  UNCHANGED owner
    BY <1>6 DEF ClientNext, ClientStep, SubmitEnter, SubmitCheck, SubmitAdmit, SubmitPut,
       SubmitReturn, WaitLook, WaitTimeOut
  <1>7. ASSUME (\E k \in Keys, d \in Deadlines : TimePasses(k, d)) \/ Reopen \/ Replace \/ UNCHANGED vars
        PROVE  UNCHANGED owner
    BY <1>7 DEF TimePasses, threadVars, Reopen, Replace, vars
  <1> QED
    BY <1>2, <1>3, <1>4, <1>5, <1>6, <1>7

LEMMA RuntimeNextKeepsCalls == TypeInv /\ CallsInv /\ [RuntimeNext]_vars => CallsInv'
  BY OwnerKeepsCalls, OthersKeepCalls DEF RuntimeNext, Next, WorkerNext

LEMMA CallsInvAlways == RuntimeSpec => [](TypeInv /\ CallsInv)
  <1>1. Init => CallsInv
    BY CallsAtInit
  <1> QED
    BY <1>1, TypeInvAlways, RuntimeNextKeepsCalls, PTL DEF RuntimeSpec

LEMMA OwnerGoesOn ==
  ASSUME TypeInv, NEW w \in Workers,
         \/ OwnerStep(w) \/ OwnerFault(w)
         \/ \E result \in {"ok", "known_failure", "uncertain"} : HandlerReturns(w, result)
  PROVE  RowsGoOn
  <1>t. StoreTypeOK /\ (owner[w].pc \in Busy => owner[w].op \in Keys)
    BY DEF TypeInv, OwnersTyped, Busy
  <1>1. CASE OwnerCancels(w) \/ OwnerStarts(w) \/ OwnerReconciles(w)
    BY <1>t, <1>1, QuietCallGoesOn, NothingGoesOn
    DEF OwnerCancels, OwnerStarts, OwnerReconciles, QuietCall, Refused, storeVars, Busy
  <1>2. CASE OwnerRecords(w)
    BY <1>t, <1>2, ReportGoesOn, NothingGoesOn DEF OwnerRecords, Refused, storeVars, Busy
  <1>3. CASE \/ OwnerStops(w) \/ OwnerTakes(w) \/ OwnerInspects(w) \/ OwnerCalls(w) \/ OwnerClears(w)
             \/ OwnerFault(w)
             \/ \E result \in {"ok", "known_failure", "uncertain"} : HandlerReturns(w, result)
    BY <1>3, NothingGoesOn DEF OwnerStops, OwnerTakes, OwnerInspects, OwnerCalls, OwnerClears,
       OwnerFault, HandlerReturns, storeVars
  <1> QED
    BY <1>1, <1>2, <1>3 DEF OwnerStep

LEMMA RuntimeNextGoesOn == TypeInv /\ [RuntimeNext]_vars => RowsGoOn
  BY OwnerGoesOn, OthersGoOn DEF RuntimeNext, Next, WorkerNext

-----------------------------------------------------------------------------
(* The clients.                                                            *)

\* A client past admission works for the request that its key is bound to.
RequestInv ==
  \A c \in Clients : client[c].pc \in {"putting", "waiting", "timing_out"} =>
    /\ Exists(client[c].key)
    /\ rec[client[c].key].request = client[c].request

\* A client that moves without being admitted takes its request along.
LEMMA RequestStep ==
  ASSUME TypeInv, RequestInv, RowsGoOn,
         \A c \in Clients :
           client'[c].pc \in {"putting", "waiting", "timing_out"} =>
             /\ client[c].pc \in {"putting", "waiting", "timing_out"}
             /\ client'[c].key = client[c].key
             /\ client'[c].request = client[c].request
  PROVE  RequestInv'
  <1>1. \A c \in Clients : client[c].pc \in {"putting", "waiting", "timing_out"} => client[c].key \in Keys
    BY DEF TypeInv, ClientsTyped
  <1> QED
    BY <1>1 DEF RequestInv, RowsGoOn, Exists

LEMMA ClientKeepsRequest ==
  ASSUME TypeInv, RequestInv, NEW c \in Clients, ClientNext(c)
  PROVE  RequestInv'
  <1>t. /\ \A d \in Clients : client[d].pc # "idle" => client[d].key \in Keys /\ client[d].request \in Requests
        /\ client \in [Clients -> ClientThread] /\ StoreTypeOK
    BY DEF TypeInv, ClientsTyped
  <1>g. RowsGoOn
    BY OthersGoOn
  <1>1. CASE SubmitAdmit(c)
    <2>1. PICK k, r : k = client[c].key /\ r = client[c].request
      OBVIOUS
    <2>2. k \in Keys /\ r \in Requests
      BY <1>t, <1>1, <2>1 DEF SubmitAdmit
    <2>3. \/ client'[c].pc = "idle"
          \/ /\ client'[c].key = k /\ client'[c].request = r
             /\ Exists(k)' /\ rec'[k].request = r
      <3>1. CASE Admit(k, r) /\ client' = [client EXCEPT ![c].pc = "putting"]
        BY <1>t, <2>1, <2>2, <3>1 DEF Admit, Exists, StoreTypeOK, ClientThread
      <3>2. CASE Replays(k, r) /\ client' = [client EXCEPT ![c].pc = "waiting"] /\ UNCHANGED storeVars
        BY <1>t, <2>1, <2>2, <3>2 DEF Replays, Exists, storeVars, ClientThread
      <3>3. CASE client' = [client EXCEPT ![c] = IdleClient]
        BY <1>t, <3>3 DEF IdleClient
      <3> QED
        BY <1>1, <2>1, <3>1, <3>2, <3>3 DEF SubmitAdmit
    <2>4. \A d \in Clients : d # c => client'[d] = client[d]
      BY <1>t, <1>1 DEF SubmitAdmit
    <2>5. \A d \in Clients : d # c /\ client[d].pc \in {"putting", "waiting", "timing_out"} =>
            /\ client[d].key \in Keys
            /\ rec'[client[d].key].state # "ABSENT" /\ rec'[client[d].key].request = client[d].request
      BY <1>t, <1>g DEF RequestInv, RowsGoOn, Exists
    <2> QED
      BY <2>3, <2>4, <2>5 DEF RequestInv, Exists
  <1>2. CASE SubmitCheck(c) \/ \E k \in Keys, r \in Requests : SubmitEnter(c, k, r)
    <2>1. \A d \in Clients : d # c => client'[d] = client[d]
      BY <1>t, <1>2 DEF SubmitEnter, SubmitCheck
    <2>2. client'[c].pc \in {"idle", "checking", "admitting"}
      BY <1>t, <1>2 DEF SubmitEnter, SubmitCheck, ClientThread, IdleClient
    <2> QED
      BY <1>g, <2>1, <2>2, RequestStep
  <1>3. CASE SubmitPut(c) \/ SubmitReturn(c) \/ WaitLook(c) \/ WaitTimeOut(c)
    <2>1. \A d \in Clients : d # c => client'[d] = client[d]
      BY <1>t, <1>3 DEF SubmitPut, SubmitReturn, WaitLook, WaitTimeOut
    <2>2. client[c].pc \in {"putting", "waiting", "timing_out"}
      BY <1>3 DEF SubmitPut, SubmitReturn, WaitLook, WaitTimeOut
    <2>3. \/ client'[c].pc = "idle"
          \/ client'[c].key = client[c].key /\ client'[c].request = client[c].request
      BY <1>t, <1>3 DEF SubmitPut, SubmitReturn, WaitLook, WaitTimeOut, ClientThread, IdleClient
    <2> QED
      BY <1>g, <2>1, <2>2, <2>3, RequestStep
  <1> QED
    BY <1>1, <1>2, <1>3 DEF ClientNext, ClientStep

LEMMA RuntimeNextKeepsRequests == TypeInv /\ RequestInv /\ [RuntimeNext]_vars => RequestInv'
  <1> SUFFICES ASSUME TypeInv, RequestInv, [RuntimeNext]_vars
               PROVE  RequestInv'
    OBVIOUS
  <1>g. RowsGoOn
    BY RuntimeNextGoesOn
  <1>1. CASE UNCHANGED client
    BY <1>g, <1>1, RequestStep
  <1>2. CASE Crash
    BY <1>2 DEF Crash, IdleClient, RequestInv
  <1>3. CASE \E w \in Workers : WorkerNext(w)
    <2>1. PICK w \in Workers : WorkerNext(w)
      BY <1>3
    <2>2. CASE ConstructReconcile(w) \/ ConstructCancel(w)
      BY <1>1, <2>2 DEF ConstructReconcile, ConstructCancel
    <2>3. CASE OwnerStep(w) \/ OwnerFault(w)
      BY <1>1, <2>3 DEF OwnerStep, OwnerFault, OwnerStops, OwnerTakes, OwnerInspects, OwnerCancels,
         OwnerStarts, OwnerCalls, OwnerRecords, OwnerReconciles, OwnerClears, OwnerFrame
    <2>4. CASE \E result \in {"ok", "known_failure", "uncertain"} : HandlerReturns(w, result)
      BY <1>1, <2>4 DEF HandlerReturns, OwnerFrame
    <2>5. CASE WatchdogStep(w) \/ WatchdogFault(w)
      BY <1>1, <2>5 DEF WatchdogStep, WatchdogFault, WatchdogSweeps, WatchdogProbes, WatchdogMarks,
         WatchdogQuarantines, WatchdogStops, WatchdogFrame
    <2>6. CASE CloseEnter(w) \/ CloserStep(w)
      BY <1>1, <2>6 DEF CloseEnter, CloserStep, CloseCancels, CloseJoinsOwner, CloseTimesOut,
         CloseMarks, CloseFails, CloseSucceeds, CloserFrame
    <2> QED
      BY <2>1, <2>2, <2>3, <2>4, <2>5, <2>6 DEF WorkerNext
  <1>4. CASE \E c \in Clients : ClientNext(c)
    BY <1>4, ClientKeepsRequest
  <1>5. CASE (\E k \in Keys, d \in Deadlines : TimePasses(k, d)) \/ Reopen \/ Replace \/ UNCHANGED vars
    BY <1>1, <1>5 DEF TimePasses, threadVars, Reopen, Replace, vars
  <1> QED
    BY <1>2, <1>3, <1>4, <1>5 DEF RuntimeNext, Next

-----------------------------------------------------------------------------

\* What a row says about its handler is true, whatever is replayed, cancelled, timed out, left
\* behind by a crash or still run by the owner of a replaced worker: no handler is entered
\* twice, none for a row that is queued or cancelled, and one exactly for a reported row.
THEOREM RuntimeRowsTellWhatRan == RuntimeSpec => []RowsTellWhatRan
  BY CallsInvAlways, PTL DEF CallsInv

\* A final state and its outcome never change: whoever comes late, the owner, the watchdog, the
\* client, close() or the recovery of the next worker, finds its transition refused.
THEOREM RuntimeTerminalIsFinal == RuntimeSpec => TerminalIsFinal
  <1>1. TypeInv /\ [RuntimeNext]_vars =>
          [\A k \in Keys : Terminal(k) => rec'[k] = rec[k]]_vars
    BY RuntimeNextGoesOn DEF RowsGoOn
  <1> QED
    BY <1>1, TypeInvAlways, PTL DEF RuntimeSpec, TerminalIsFinal

\* A client past admission waits for an operation with its own request, whatever other clients
\* bind to the key between its check and its admission, and between two of its looks at the row.
THEOREM RuntimeAnsweredForOwnRequest == RuntimeSpec => []AnsweredForOwnRequest
  <1>1. Init => RequestInv
    BY DEF Init, IdleClient, RequestInv
  <1>2. RequestInv => AnsweredForOwnRequest
    BY DEF RequestInv, AnsweredForOwnRequest
  <1> QED
    BY <1>1, <1>2, TypeInvAlways, RuntimeNextKeepsRequests, PTL DEF RuntimeSpec
-----------------------------------------------------------------------------
(* The threads of the workers implement OperationLedger, also when the     *)
(* runtime replaces a worker whose owner still runs.  Under the mapping of *)
(* SerializedWorker every step is one step of the ledger or a stutter: a   *)
(* store transaction moves one phase, or those of many rows at once; the   *)
(* entry of a handler performs; nothing else shows.                        *)

LedgerSteps == [Ledger!LedgerNext]_(Ledger!ledgerVars)

-----------------------------------------------------------------------------
(* What a step does to the rows, and the step of the ledger it is.         *)

LEMMA SamePhases ==
  ASSUME UNCHANGED calls, \A k \in Keys : Phase(k)' = Phase(k)
  PROVE  LedgerSteps
  BY DEF LedgerSteps, Ledger!ledgerVars

LEMMA OnePhase ==
  ASSUME UNCHANGED calls, NEW k \in Keys, NEW p, Phase(k)' = p,
         \A j \in Keys : j # k => Phase(j)' = Phase(j)
  PROVE  Ledger!Becomes(k, p)
  BY DEF Ledger!Becomes

LEMMA StoreTransitions ==
  ASSUME StoreTypeOK, NEW k \in Keys, NEW expected, NEW target,
         \/ Transition(k, expected, target)
         \/ \E outcome \in {"result", "error"} : TransitionWith(k, expected, target, outcome)
  PROVE  /\ rec[k].state \in expected /\ rec'[k].state = target
         /\ \A j \in Keys : j # k => rec'[j] = rec[j]
  BY DEF StoreTypeOK, Transition, TransitionWith, OperationRecord

LEMMA StarterBegins ==
  ASSUME StoreTypeOK, UNCHANGED calls, NEW k \in Keys, Start(k)
  PROVE  LedgerSteps
  <1>1. rec[k].state = "QUEUED" /\ rec'[k].state = "IN_FLIGHT" /\ \A j \in Keys : j # k => rec'[j] = rec[j]
    BY StoreTransitions DEF Start
  <1>2. Phase(k) = "waiting" /\ Phase(k)' = "begun" /\ \A j \in Keys : j # k => Phase(j)' = Phase(j)
    BY <1>1 DEF Phase, InFlight
  <1>3. Ledger!Begin(k)
    BY <1>2, OnePhase DEF Ledger!Begin
  <1> QED
    BY <1>3 DEF LedgerSteps, Ledger!LedgerNext

LEMMA AdmissionAccepts ==
  ASSUME StoreTypeOK, UNCHANGED calls, NEW k \in Keys, NEW r \in Requests, Admit(k, r)
  PROVE  LedgerSteps
  <1>1. rec[k].state = "ABSENT" /\ rec'[k].state = "QUEUED" /\ \A j \in Keys : j # k => rec'[j] = rec[j]
    BY DEF Admit, Exists, StoreTypeOK
  <1>2. Phase(k) = "absent" /\ Phase(k)' = "waiting" /\ \A j \in Keys : j # k => Phase(j)' = Phase(j)
    BY <1>1 DEF Phase, InFlight
  <1>3. Ledger!Accept(k)
    BY <1>2, OnePhase DEF Ledger!Accept
  <1> QED
    BY <1>3 DEF LedgerSteps, Ledger!LedgerNext

LEMMA MarkStutters ==
  ASSUME StoreTypeOK, UNCHANGED calls, NEW k \in Keys, MarkClientTimedOut(k) \/ MarkEngineUnresponsive(k)
  PROVE  LedgerSteps
  <1>1. /\ rec[k].state \in InFlight /\ rec'[k].state \in InFlight
        /\ \A j \in Keys : j # k => rec'[j] = rec[j]
    BY StoreTransitions DEF MarkClientTimedOut, MarkEngineUnresponsive, InFlight, Responsive
  <1>2. \A j \in Keys : Phase(j)' = Phase(j)
    BY <1>1 DEF Phase, InFlight
  <1> QED
    BY <1>2, SamePhases

LEMMA CancellationWithdraws ==
  ASSUME StoreTypeOK, UNCHANGED calls,
         \/ CancelAllQueued \/ CancelExpiredQueued
         \/ \E k \in Keys : CancelBeforeStart(k)
  PROVE  LedgerSteps
  <1>1. PICK ks \in SUBSET Keys :
          /\ \A k \in ks : rec[k].state = "QUEUED" /\ rec'[k].state = "CANCELLED_BEFORE_START"
          /\ \A k \in Keys \ ks : rec'[k].state = rec[k].state
    <2>1. CASE \E k \in Keys : CancelBeforeStart(k)
      <3>1. PICK k \in Keys : CancelBeforeStart(k)
        BY <2>1
      <3>2. /\ rec[k].state = "QUEUED" /\ rec'[k].state = "CANCELLED_BEFORE_START"
            /\ \A j \in Keys : j # k => rec'[j] = rec[j]
        BY <3>1, StoreTransitions DEF CancelBeforeStart
      <3> WITNESS {k} \in SUBSET Keys
      <3> QED
        BY <3>2
    <2>2. ASSUME NEW keys, MoveAll(keys, {"QUEUED"}, "CANCELLED_BEFORE_START")
          PROVE  \E ks \in SUBSET Keys :
                   /\ \A k \in ks : rec[k].state = "QUEUED" /\ rec'[k].state = "CANCELLED_BEFORE_START"
                   /\ \A k \in Keys \ ks : rec'[k].state = rec[k].state
      <3>1. /\ \A k \in Keys : k \in keys /\ rec[k].state = "QUEUED" => rec'[k].state = "CANCELLED_BEFORE_START"
            /\ \A k \in Keys : ~(k \in keys /\ rec[k].state = "QUEUED") => rec'[k] = rec[k]
        BY <2>2 DEF MoveAll, StoreTypeOK, OperationRecord
      <3> WITNESS {k \in Keys : k \in keys /\ rec[k].state = "QUEUED"} \in SUBSET Keys
      <3> QED
        BY <3>1
    <2> QED
      BY <2>1, <2>2 DEF CancelAllQueued, CancelExpiredQueued
  <1>2. /\ \A k \in ks : Phase(k) = "waiting" /\ Phase(k)' = "cancelled"
        /\ \A k \in Keys \ ks : Phase(k)' = Phase(k)
    BY <1>1 DEF Phase, InFlight
  <1>3. PICK phase, newPhase : phase = [k \in Keys |-> Phase(k)] /\ newPhase = [k \in Keys |-> Phase(k)']
    OBVIOUS
  <1>4. newPhase = [k \in Keys |-> IF k \in ks THEN "cancelled" ELSE phase[k]]
    BY <1>2, <1>3
  <1>5. ks \in SUBSET {k \in Keys : phase[k] = "waiting"}
    BY <1>2, <1>3
  <1>6. Ledger!Withdraw
    BY <1>3, <1>4, <1>5 DEF Ledger!Withdraw
  <1> QED
    BY <1>6 DEF LedgerSteps, Ledger!LedgerNext

LEMMA RecoveryOrphans ==
  ASSUME StoreTypeOK, UNCHANGED calls, ReconcileOrphans
  PROVE  LedgerSteps
  <1>1. /\ \A k \in Keys : rec[k].state \in InFlight => rec'[k].state = "RECONCILIATION_REQUIRED"
        /\ \A k \in Keys : rec[k].state \notin InFlight => rec'[k] = rec[k]
    BY DEF ReconcileOrphans, MoveAll, StoreTypeOK, OperationRecord
  <1>2. \A k \in Keys : Phase(k)' = IF Phase(k) = "begun" THEN "unknown" ELSE Phase(k)
    BY <1>1 DEF Phase, InFlight
  <1>3. Ledger!Orphan
    BY <1>2 DEF Ledger!Orphan
  <1> QED
    BY <1>3 DEF LedgerSteps, Ledger!LedgerNext

LEMMA ReconciliationDoubts ==
  ASSUME StoreTypeOK, UNCHANGED calls, NEW k \in Keys, RequireReconciliation(k)
  PROVE  LedgerSteps
  <1>1. /\ rec[k].state \in InFlight /\ rec'[k].state = "RECONCILIATION_REQUIRED"
        /\ \A j \in Keys : j # k => rec'[j] = rec[j]
    BY StoreTransitions DEF RequireReconciliation
  <1>2. Phase(k) = "begun" /\ Phase(k)' = "unknown" /\ \A j \in Keys : j # k => Phase(j)' = Phase(j)
    BY <1>1 DEF Phase, InFlight
  <1>3. Ledger!Doubt(k)
    BY <1>2, OnePhase DEF Ledger!Doubt
  <1> QED
    BY <1>3 DEF LedgerSteps, Ledger!LedgerNext

\* A handler that was entered has its outcome recorded.
LEMMA ReportConcludes ==
  ASSUME StoreTypeOK, UNCHANGED calls, NEW k \in Keys, calls[k] = 1, Complete(k) \/ Fail(k)
  PROVE  LedgerSteps
  <1>1. /\ rec[k].state \in InFlight
        /\ rec'[k].state \in {"RECONCILIATION_REQUIRED", "COMPLETED_AFTER_CLIENT_TIMEOUT", "COMPLETED", "FAILED"}
        /\ \A j \in Keys : j # k => rec'[j] = rec[j]
    <2>1. CASE Fail(k)
      BY <2>1, StoreTransitions DEF Fail, InFlight, Responsive
    <2>2. CASE Complete(k)
      BY <2>2, StoreTransitions DEF Complete, CompletedState
    <2> QED
      BY <2>1, <2>2
  <1>2. Phase(k) = "begun" /\ \A j \in Keys : j # k => Phase(j)' = Phase(j)
    BY <1>1 DEF Phase, InFlight
  <1>3. Phase(k)' \in {"unknown", "done", "failed"}
    BY <1>1 DEF Phase, InFlight
  <1>4. Ledger!Becomes(k, "unknown") \/ Ledger!Becomes(k, "done") \/ Ledger!Becomes(k, "failed")
    BY <1>2, <1>3, OnePhase
  <1>5. calls[k] > 0
    OBVIOUS
  <1>6. CASE Ledger!Becomes(k, "unknown")
    <2>1. Ledger!Doubt(k)
      BY <1>2, <1>6 DEF Ledger!Doubt
    <2> QED
      BY <2>1 DEF LedgerSteps, Ledger!LedgerNext
  <1>7. CASE Ledger!Becomes(k, "done") \/ Ledger!Becomes(k, "failed")
    <2>1. Ledger!Conclude(k)
      BY <1>2, <1>5, <1>7, Zenon DEF Ledger!Conclude
    <2> QED
      BY <2>1 DEF LedgerSteps, Ledger!LedgerNext
  <1> QED
    BY <1>4, <1>6, <1>7

\* The handler is entered: for the first time, and for a row that is begun or in doubt.
LEMMA CallPerforms ==
  ASSUME TypeInv, CallsInv, NEW w \in Workers, OwnerCalls(w)
  PROVE  LedgerSteps
  <1>1. PICK k : k = owner[w].op
    OBVIOUS
  <1>2. k \in Keys /\ Claimed(w)
    BY <1>1 DEF OwnerCalls, TypeInv, OwnersTyped, Claimed
  <1>3. calls' = [calls EXCEPT ![k] = calls[k] + 1] /\ calls[k] = 0 /\ ~Early(k)
    BY <1>1, <1>2 DEF OwnerCalls, CallsInv, OwnersKnow
  <1>4. calls'[k] = 1 /\ \A j \in Keys : j # k => calls'[j] = calls[j]
    BY <1>2, <1>3 DEF TypeInv
  <1>5. UNCHANGED rec
    BY DEF OwnerCalls, storeVars
  <1>6. rec[k].state \in InFlight \cup {"RECONCILIATION_REQUIRED"}
    BY <1>2, <1>3 DEF CallsInv, RowsTellWhatRan, Early, TypeInv, StoreTypeOK, OperationRecord,
       OperationState, InFlight, TERMINAL_STATES
  <1>7. Phase(k) \in {"begun", "unknown"} /\ \A j \in Keys : Phase(j)' = Phase(j)
    BY <1>5, <1>6 DEF Phase, InFlight
  <1>8. /\ (calls[k] > 0) = FALSE /\ (calls'[k] > 0) = TRUE
        /\ \A j \in Keys : j # k => (calls'[j] > 0) = (calls[j] > 0)
    BY <1>3, <1>4
  <1>9. Ledger!Perform(k)
    <2>1. PICK performed, newPerformed :
            /\ performed = [j \in Keys |-> calls[j] > 0]
            /\ newPerformed = [j \in Keys |-> calls'[j] > 0]
      OBVIOUS
    <2>2. newPerformed = [performed EXCEPT ![k] = TRUE]
      <3>1. \A j \in Keys : newPerformed[j] = IF j = k THEN TRUE ELSE performed[j]
        BY <1>2, <1>8, <2>1, Zenon
      <3> QED
        BY <1>2, <2>1, <3>1
    <2>3. performed[k] = FALSE
      BY <1>2, <1>8, <2>1, Zenon
    <2>4. [j \in Keys |-> Phase(j)]' = [j \in Keys |-> Phase(j)]
      BY <1>7
    <2>5. [j \in Keys |-> Phase(j)][k] \in {"begun", "unknown"}
      BY <1>2, <1>7
    <2> QED
      BY <2>1, <2>2, <2>3, <2>4, <2>5, Zenon DEF Ledger!Perform
  <1> QED
    BY <1>2, <1>9 DEF LedgerSteps, Ledger!LedgerNext

LEMMA RowsUnchanged == UNCHANGED <<rec, calls>> => LedgerSteps
  BY SamePhases DEF Phase

-----------------------------------------------------------------------------
(* The threads.                                                            *)

LEMMA OwnerImplements ==
  ASSUME TypeInv, CallsInv, NEW w \in Workers,
         \/ OwnerStep(w) \/ OwnerFault(w)
         \/ \E result \in {"ok", "known_failure", "uncertain"} : HandlerReturns(w, result)
  PROVE  LedgerSteps
  <1>t. StoreTypeOK /\ (owner[w].pc \in Busy => owner[w].op \in Keys)
    BY DEF TypeInv, OwnersTyped, Busy
  <1>1. CASE OwnerCancels(w)
    BY <1>t, <1>1, CancellationWithdraws, RowsUnchanged DEF OwnerCancels, Refused, storeVars, Busy
  <1>2. CASE OwnerStarts(w)
    BY <1>t, <1>2, StarterBegins, RowsUnchanged DEF OwnerStarts, Refused, storeVars, Busy
  <1>3. CASE OwnerCalls(w)
    BY <1>3, CallPerforms
  <1>4. CASE OwnerRecords(w)
    <2>1. calls[owner[w].op] = 1
      BY <1>4 DEF OwnerRecords, Entered, CallsInv, OwnersKnow
    <2>2. owner[w].op \in Keys
      BY <1>t, <1>4 DEF OwnerRecords, Busy
    <2>3. \/ Complete(owner[w].op) \/ Fail(owner[w].op) \/ UNCHANGED rec
      BY <1>4 DEF OwnerRecords, Refused, storeVars
    <2> QED
      BY <1>t, <1>4, <2>1, <2>2, <2>3, ReportConcludes, RowsUnchanged DEF OwnerRecords
  <1>5. CASE OwnerReconciles(w)
    BY <1>t, <1>5, ReconciliationDoubts, RowsUnchanged DEF OwnerReconciles, Refused, storeVars, Busy
  <1>6. CASE \/ OwnerStops(w) \/ OwnerTakes(w) \/ OwnerInspects(w) \/ OwnerClears(w) \/ OwnerFault(w)
             \/ \E result \in {"ok", "known_failure", "uncertain"} : HandlerReturns(w, result)
    BY <1>6, RowsUnchanged
    DEF OwnerStops, OwnerTakes, OwnerInspects, OwnerClears, OwnerFault, HandlerReturns, storeVars
  <1> QED
    BY <1>1, <1>2, <1>3, <1>4, <1>5, <1>6 DEF OwnerStep

LEMMA WatchdogImplements ==
  ASSUME TypeInv, NEW w \in Workers, WatchdogStep(w) \/ WatchdogFault(w)
  PROVE  LedgerSteps
  <1>t. StoreTypeOK
    BY DEF TypeInv
  <1>1. CASE WatchdogSweeps(w)
    BY <1>t, <1>1, CancellationWithdraws DEF WatchdogSweeps, WatchdogFrame
  <1>2. CASE WatchdogMarks(w)
    <2>1. watchdog[w].active \in Keys
      BY <1>2 DEF WatchdogMarks, TypeInv, WatchdogsTyped
    <2> QED
      BY <1>t, <1>2, <2>1, MarkStutters, RowsUnchanged DEF WatchdogMarks, WatchdogFrame, Refused, storeVars
  <1>3. CASE WatchdogProbes(w) \/ WatchdogQuarantines(w) \/ WatchdogStops(w) \/ WatchdogFault(w)
    BY <1>3, RowsUnchanged
    DEF WatchdogProbes, WatchdogQuarantines, WatchdogStops, WatchdogFault, WatchdogFrame, storeVars
  <1> QED
    BY <1>1, <1>2, <1>3 DEF WatchdogStep

LEMMA CloserImplements ==
  ASSUME TypeInv, NEW w \in Workers, CloseEnter(w) \/ CloserStep(w)
  PROVE  LedgerSteps
  <1>t. StoreTypeOK
    BY DEF TypeInv
  <1>1. CASE CloseCancels(w)
    BY <1>t, <1>1, CancellationWithdraws DEF CloseCancels, CloserFrame
  <1>2. CASE CloseMarks(w)
    <2>1. worker[w].drain \in Keys
      BY <1>2 DEF CloseMarks, TypeInv, WorkersTyped
    <2> QED
      BY <1>t, <1>2, <2>1, MarkStutters, RowsUnchanged DEF CloseMarks, CloserFrame, Refused, storeVars
  <1>3. CASE CloseEnter(w) \/ CloseJoinsOwner(w) \/ CloseTimesOut(w) \/ CloseFails(w) \/ CloseSucceeds(w)
    BY <1>3, RowsUnchanged
    DEF CloseEnter, CloseJoinsOwner, CloseTimesOut, CloseFails, CloseSucceeds, CloserFrame, storeVars
  <1> QED
    BY <1>1, <1>2, <1>3 DEF CloserStep

LEMMA ClientImplements ==
  ASSUME TypeInv, NEW c \in Clients, ClientNext(c)
  PROVE  LedgerSteps
  <1>t. StoreTypeOK /\ (client[c].pc # "idle" => client[c].key \in Keys /\ client[c].request \in Requests)
    BY DEF TypeInv, ClientsTyped
  <1>1. CASE SubmitAdmit(c)
    BY <1>t, <1>1, AdmissionAccepts, RowsUnchanged DEF SubmitAdmit, storeVars
  <1>2. CASE WaitTimeOut(c)
    BY <1>t, <1>2, MarkStutters, RowsUnchanged DEF WaitTimeOut, Refused, storeVars
  <1>3. CASE \/ \E k \in Keys, r \in Requests : SubmitEnter(c, k, r)
             \/ SubmitCheck(c) \/ SubmitPut(c) \/ SubmitReturn(c) \/ WaitLook(c)
    BY <1>3, RowsUnchanged DEF SubmitEnter, SubmitCheck, SubmitPut, SubmitReturn, WaitLook, storeVars
  <1> QED
    BY <1>1, <1>2, <1>3 DEF ClientNext, ClientStep

LEMMA RuntimeNextImplements == TypeInv /\ CallsInv /\ [RuntimeNext]_vars => LedgerSteps
  <1> SUFFICES ASSUME TypeInv, CallsInv, [RuntimeNext]_vars
               PROVE  LedgerSteps
    OBVIOUS
  <1>1. ASSUME NEW w \in Workers, WorkerNext(w)
        PROVE  LedgerSteps
    <2>1. CASE ConstructReconcile(w)
      BY <2>1, RecoveryOrphans DEF ConstructReconcile, TypeInv
    <2>2. CASE ConstructCancel(w)
      BY <2>2, CancellationWithdraws DEF ConstructCancel, TypeInv
    <2> QED
      BY <1>1, <2>1, <2>2, OwnerImplements, WatchdogImplements, CloserImplements DEF WorkerNext
  <1>2. CASE (\E k \in Keys, d \in Deadlines : TimePasses(k, d)) \/ Reopen \/ Replace \/ Crash \/ UNCHANGED vars
    BY <1>2, RowsUnchanged DEF TimePasses, DeadlinePasses, Reopen, Replace, Crash, vars, storeVars
  <1> QED
    BY <1>1, <1>2, ClientImplements DEF RuntimeNext, Next

LEMMA InitImplements == Init => Ledger!LedgerInit
  <1> SUFFICES ASSUME Init
               PROVE  Ledger!LedgerInit
    OBVIOUS
  <1>1. ASSUME NEW k \in Keys
        PROVE  Phase(k) = "absent" /\ (calls[k] > 0) = FALSE
    <2>1. rec[k].state = "ABSENT" /\ calls[k] = 0
      BY DEF Init, StoreInit, NoRow
    <2>2. Phase(k) = "absent"
      BY <2>1 DEF Phase, InFlight
    <2>3. (calls[k] > 0) = FALSE
      BY <2>1
    <2> QED
      BY <2>2, <2>3
  <1> QED
    BY <1>1, Zenon DEF Ledger!LedgerInit

-----------------------------------------------------------------------------

\* Whatever threads, deadlines, crashes and replaced workers are behind it, a caller sees the
\* ledger: an operation is begun at most once, performs at most once and only after it was
\* begun, and its outcome is final and agrees with what was performed.
THEOREM RuntimeImplementsLedger == RuntimeSpec => ImplementsLedger
  <1>1. TypeInv /\ CallsInv /\ [RuntimeNext]_vars => [Ledger!LedgerNext]_(Ledger!ledgerVars)
    BY RuntimeNextImplements DEF LedgerSteps
  <1> QED
    BY <1>1, InitImplements, CallsInvAlways, PTL DEF RuntimeSpec, ImplementsLedger, Ledger!LedgerSpec

\* The same for the workers of Spec.
THEOREM WorkerImplementsLedger == Spec => ImplementsLedger
  BY RuntimeImplementsLedger, SpecIsRuntimeSpec, PTL
=============================================================================
