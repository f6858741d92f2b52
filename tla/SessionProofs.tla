---------------------------- MODULE SessionProofs ----------------------------
(***************************************************************************)
(* Theorems about EngineeringSession, for any number of callers, tool      *)
(* calls, contexts, keys, faults and restarts: ExecutedOncePerKey,         *)
(* CloseRestores and EngineServesTheSession; and that the rows of the      *)
(* owner are final, OutcomesStay.                                          *)
(*                                                                         *)
(* The first two need only the owner and the gateway: GatewayStep says     *)
(* what any step of a session is to them, OpInv and VisitInv what it keeps *)
(* of the table and of the visit.  The third needs the threads and the     *)
(* lock: ServeInv says that an activation somebody waits for is the last   *)
(* in the queue, and that there is none while a context is active.         *)
(* OutcomesStay needs that what is queued is not settled, but for a call   *)
(* that was given up, and that a new start has a key of its own: FinalInv. *)
(***************************************************************************)
EXTENDS EngineeringSession, FiniteSetTheorems, TLAPS

Kinds == {"start", "activate", "execute", "logs", "results", "close"}
RowFields == {"request", "state", "result"}
OfKind(kind) == {k \in DOMAIN operation : k[1] = kind}

\* Rows have their fields, and the key of a load flow is its caller's.
RowsShaped == \A k \in DOMAIN operation :
  /\ k[1] \in Kinds
  /\ DOMAIN operation[k] = RowFields
  /\ k[1] = "execute" => k = <<"execute", operation[k].request.key>>

\* The keys of activations are numbered as they are drawn.
Numbered == /\ IsFiniteSet(DOMAIN operation)
            /\ \A k \in OfKind("activate") :
                 \E n \in Nat : k = <<"activate", n>> /\ n < Cardinality(OfKind("activate"))

\* What is queued is known, and queued once.
Queued == /\ queue \in Seq(DOMAIN operation)
          /\ \A i, j \in DOMAIN queue : queue[i] = queue[j] => i = j

Payloads == {k[2] : k \in DOMAIN operation}

\* What was executed has a row, and is not queued any more.
Performed == /\ executed \in Seq(Payloads)
             /\ \A e \in DOMAIN executed :
                  /\ <<"execute", executed[e]>> \in DOMAIN operation
                  /\ \A i \in DOMAIN queue : queue[i] # <<"execute", executed[e]>>

OpInv == RowsShaped /\ Numbered /\ Queued /\ Performed /\ ExecutedOncePerKey

-----------------------------------------------------------------------------
\* How a step may use the table of operations.
GoodKey(k, r) == /\ k[1] \in Kinds
                 /\ k[1] = "execute" => k = <<"execute", r.key>>
                 /\ k[1] = "activate" => k = FreshKey("activate")

Submits(k, r) == /\ k \notin DOMAIN operation
                 /\ operation' = With(k, r)
                 /\ queue' = Append(queue, k)

\* Rows go on, with their requests.
Rewrites == /\ DOMAIN operation' = DOMAIN operation
            /\ \A k \in DOMAIN operation : /\ DOMAIN operation'[k] = RowFields
                                           /\ operation'[k].request = operation[k].request

Shrinks == /\ queue' \in Seq(DOMAIN operation)
           /\ \A i, j \in DOMAIN queue' : queue'[i] = queue'[j] => i = j
           /\ \A i \in DOMAIN queue' : \E j \in DOMAIN queue : queue'[i] = queue[j]

\* The operation that is served is executed, and not queued any more.
ExecutesServed ==
  \E key : /\ queue # <<>>
           /\ NextServed = <<"execute", key>>
           /\ executed' = Append(executed, key)
           /\ \A i \in DOMAIN queue' : queue'[i] # NextServed

-----------------------------------------------------------------------------
\* A sequence over a smaller set is one over a larger.
LEMMA SeqGrows ==
  ASSUME NEW S, NEW T, S \subseteq T, NEW s \in Seq(S)
  PROVE  s \in Seq(T)
  OBVIOUS

\* What a new row leaves behind.
LEMMA WithAdds ==
  ASSUME NEW k, NEW r, operation' = With(k, r)
  PROVE  /\ DOMAIN operation' = DOMAIN operation \cup {k}
         /\ operation'[k] = Row(r)
         /\ \A x \in DOMAIN operation : x # k => operation'[x] = operation[x]
         /\ DOMAIN Row(r) = RowFields
         /\ Row(r).request = r /\ Row(r).state = "waiting"
  BY DEF With, Row, RowFields

\* A new key keeps the numbers of the activations in order.
LEMMA NumberedGoesOn ==
  ASSUME Numbered, NEW k, DOMAIN operation' = DOMAIN operation \cup {k},
         k[1] = "activate" => k = FreshKey("activate")
  PROVE  Numbered'
<1>1. IsFiniteSet(DOMAIN operation')
  BY FS_AddElement DEF Numbered
<1>2. IsFiniteSet(OfKind("activate")) /\ Cardinality(OfKind("activate")) \in Nat
  BY FS_Subset, FS_CardinalityType DEF Numbered, OfKind
<1>3. CASE k[1] = "activate"
  <2> DEFINE n == Cardinality(OfKind("activate"))
  <2>1. k = <<"activate", n>>
    BY <1>3 DEF FreshKey, OfKind
  <2>2. OfKind("activate")' = OfKind("activate") \cup {k}
    BY <1>3 DEF OfKind
  <2>3. k \notin OfKind("activate")
    <3> SUFFICES ASSUME k \in OfKind("activate") PROVE FALSE
      OBVIOUS
    <3>1. PICK m \in Nat : k = <<"activate", m>> /\ m < n
      BY DEF Numbered
    <3> QED BY <1>2, <2>1, <3>1
  <2>4. Cardinality(OfKind("activate")') = n + 1
    BY <1>2, <2>2, <2>3, FS_AddElement
  <2> QED BY <1>1, <1>2, <2>1, <2>2, <2>4 DEF Numbered
<1>4. CASE k[1] # "activate"
  <2>1. OfKind("activate")' = OfKind("activate")
    BY <1>4 DEF OfKind
  <2> QED BY <1>1, <2>1 DEF Numbered
<1> QED BY <1>3, <1>4

\* The key drawn for an activation is new.
LEMMA FreshIsNew ==
  ASSUME Numbered
  PROVE  FreshKey("activate") \notin DOMAIN operation
<1> SUFFICES ASSUME FreshKey("activate") \in DOMAIN operation PROVE FALSE
  OBVIOUS
<1>1. Cardinality(OfKind("activate")) \in Nat
  BY FS_Subset, FS_CardinalityType DEF Numbered, OfKind
<1>2. FreshKey("activate") = <<"activate", Cardinality(OfKind("activate"))>>
  BY DEF FreshKey, OfKind
<1>3. FreshKey("activate") \in OfKind("activate")
  BY <1>2 DEF OfKind
<1> QED BY <1>1, <1>2, <1>3 DEF Numbered

\* What a new row, queued last, keeps.
LEMMA SubmitKeepsTable ==
  ASSUME OpInv, NEW k, NEW r, GoodKey(k, r), Submits(k, r), executed' = executed
  PROVE  OpInv'
<1>1. /\ DOMAIN operation' = DOMAIN operation \cup {k}
      /\ operation'[k] = Row(r)
      /\ \A x \in DOMAIN operation : operation'[x] = operation[x]
      /\ DOMAIN Row(r) = RowFields /\ Row(r).request = r
  BY WithAdds DEF Submits
<1>2. /\ queue' \in Seq(DOMAIN operation')
      /\ Len(queue) \in Nat
      /\ DOMAIN queue = 1..Len(queue)
      /\ DOMAIN queue' = 1..(Len(queue) + 1)
      /\ \A i \in DOMAIN queue : queue'[i] = queue[i] /\ queue[i] \in DOMAIN operation
      /\ queue'[Len(queue) + 1] = k
  <2>1. queue \in Seq(DOMAIN operation')
    BY <1>1, SeqGrows DEF OpInv, Queued
  <2> QED BY <1>1, <2>1 DEF Submits, OpInv, Queued
<1>3. RowsShaped'
  BY <1>1 DEF OpInv, RowsShaped, GoodKey
<1>4. Numbered'
  BY <1>1, NumberedGoesOn DEF OpInv, GoodKey
<1>5. Queued'
  BY <1>2 DEF OpInv, Queued, Submits
<1>6. Performed'
  <2>1. executed' \in Seq(Payloads')
    <3>1. Payloads \subseteq Payloads'
      BY <1>1 DEF Payloads
    <3> QED BY <3>1, SeqGrows DEF OpInv, Performed
  <2>2. ASSUME NEW e \in DOMAIN executed, NEW i \in DOMAIN queue'
        PROVE  queue'[i] # <<"execute", executed[e]>>
    <3>1. CASE i \in DOMAIN queue
      BY <1>2, <3>1 DEF OpInv, Performed
    <3>2. CASE i = Len(queue) + 1
      <4>1. queue'[i] = k /\ <<"execute", executed[e]>> \in DOMAIN operation
        BY <1>2, <3>2 DEF OpInv, Performed
      <4> QED BY <4>1 DEF Submits
    <3> QED BY <1>2, <3>1, <3>2
  <2> QED BY <1>1, <2>1, <2>2 DEF OpInv, Performed
<1>7. ExecutedOncePerKey'
  BY DEF OpInv, ExecutedOncePerKey
<1> QED BY <1>3, <1>4, <1>5, <1>6, <1>7 DEF OpInv

\* What new states of the rows keep, over a queue that shrinks.
LEMMA RewriteKeepsTable ==
  ASSUME OpInv, Rewrites, Shrinks, executed' = executed \/ ExecutesServed
  PROVE  OpInv'
<1>1. RowsShaped' /\ Numbered' /\ Queued'
  BY DEF OpInv, Rewrites, Shrinks, RowsShaped, Numbered, Queued, OfKind
<1>2. Payloads' = Payloads
  BY DEF Payloads, Rewrites
<1>3. CASE executed' = executed
  BY <1>1, <1>2, <1>3 DEF OpInv, Rewrites, Shrinks, Performed, ExecutedOncePerKey
<1>4. CASE ExecutesServed
  <2>1. PICK key : /\ queue # <<>>
                   /\ NextServed = <<"execute", key>>
                   /\ executed' = Append(executed, key)
                   /\ \A i \in DOMAIN queue' : queue'[i] # NextServed
    BY <1>4 DEF ExecutesServed
  <2>2. 1 \in DOMAIN queue /\ NextServed = queue[1] /\ NextServed \in DOMAIN operation
    BY <2>1 DEF NextServed, OpInv, Queued
  <2>3. key \in Payloads /\ \A e \in DOMAIN executed : executed[e] # key
    BY <2>1, <2>2 DEF OpInv, Performed, Payloads
  <2>4. /\ executed' \in Seq(Payloads)
        /\ Len(executed) \in Nat
        /\ DOMAIN executed = 1..Len(executed)
        /\ DOMAIN executed' = 1..(Len(executed) + 1)
        /\ \A e \in DOMAIN executed : executed'[e] = executed[e]
        /\ executed'[Len(executed) + 1] = key
    BY <2>1, <2>3 DEF OpInv, Performed
  <2>5. ExecutedOncePerKey'
    BY <2>3, <2>4 DEF OpInv, ExecutedOncePerKey
  <2>6. ASSUME NEW e \in DOMAIN executed'
        PROVE  /\ <<"execute", executed'[e]>> \in DOMAIN operation
               /\ \A i \in DOMAIN queue' : queue'[i] # <<"execute", executed'[e]>>
    <3>1. CASE e = Len(executed) + 1
      BY <2>1, <2>2, <2>4, <3>1
    <3>2. CASE e \in DOMAIN executed
      BY <2>4, <3>2 DEF OpInv, Performed, Shrinks
    <3> QED BY <2>4, <3>1, <3>2
  <2>7. Performed'
    BY <1>2, <2>4, <2>6 DEF Performed, Rewrites
  <2> QED BY <1>1, <2>5, <2>7 DEF OpInv
<1> QED BY <1>3, <1>4

\* What a new owner keeps, whose queue starts with the start of the session.
LEMMA BuildKeepsTable ==
  ASSUME OpInv, NEW k, NEW r, k[1] = "start", operation' = With(k, r), queue' = <<k>>,
         executed' = executed
  PROVE  OpInv'
<1>1. /\ DOMAIN operation' = DOMAIN operation \cup {k}
      /\ operation'[k] = Row(r)
      /\ \A x \in DOMAIN operation : x # k => operation'[x] = operation[x]
      /\ DOMAIN Row(r) = RowFields /\ Row(r).request = r
  BY DEF With, Row, RowFields
<1>2. /\ queue' \in Seq(DOMAIN operation')
      /\ DOMAIN queue' = {1}
      /\ queue'[1] = k
  BY <1>1
<1>3. RowsShaped'
  BY <1>1 DEF OpInv, RowsShaped, Kinds
<1>4. Numbered'
  BY <1>1, NumberedGoesOn DEF OpInv
<1>5. Queued'
  BY <1>2 DEF Queued
<1>6. Performed'
  <2>1. executed' \in Seq(Payloads')
    <3>1. Payloads \subseteq Payloads'
      BY <1>1 DEF Payloads
    <3> QED BY <3>1, SeqGrows DEF OpInv, Performed
  <2>2. ASSUME NEW e \in DOMAIN executed, NEW i \in DOMAIN queue'
        PROVE  queue'[i] # <<"execute", executed[e]>>
    BY <1>2
  <2> QED BY <1>1, <2>1, <2>2 DEF OpInv, Performed
<1>7. ExecutedOncePerKey'
  BY DEF OpInv, ExecutedOncePerKey
<1> QED BY <1>3, <1>4, <1>5, <1>6, <1>7 DEF OpInv

\* The operation at the head of the queue.
LEMMA HeadOfQueue ==
  ASSUME OpInv, queue # <<>>
  PROVE  /\ NextServed \in DOMAIN operation
         /\ 1 \in DOMAIN queue /\ NextServed = queue[1]
         /\ Tail(queue) \in Seq(DOMAIN operation)
         /\ \A i \in DOMAIN Tail(queue) : i + 1 \in DOMAIN queue /\ Tail(queue)[i] = queue[i + 1]
         /\ \A i \in DOMAIN queue : i # 1 => i - 1 \in DOMAIN Tail(queue)
         /\ \A i, j \in DOMAIN Tail(queue) : Tail(queue)[i] = Tail(queue)[j] => i = j
         /\ \A i \in DOMAIN Tail(queue) : Tail(queue)[i] # NextServed
<1>1. /\ queue \in Seq(DOMAIN operation) /\ Len(queue) \in Nat /\ Len(queue) > 0
      /\ DOMAIN queue = 1..Len(queue)
      /\ \A i, j \in DOMAIN queue : queue[i] = queue[j] => i = j
  BY DEF OpInv, Queued
<1>2. 1 \in DOMAIN queue /\ NextServed = queue[1] /\ NextServed \in DOMAIN operation
  BY <1>1 DEF NextServed
<1>3. /\ Tail(queue) \in Seq(DOMAIN operation)
      /\ DOMAIN Tail(queue) = 1..(Len(queue) - 1)
      /\ \A i \in DOMAIN Tail(queue) : Tail(queue)[i] = queue[i + 1]
  BY <1>1
<1> QED BY <1>1, <1>2, <1>3

\* What was served leaves the queue and keeps its request.
LEMMA ConcludesRewrites ==
  ASSUME OpInv, queue # <<>>, NEW state, NEW x, Concludes(NextServed, state, x)
  PROVE  /\ Rewrites /\ Shrinks
         /\ \A i \in DOMAIN queue' : queue'[i] # NextServed
<1>1. queue' = Tail(queue)
  BY DEF Concludes
<1>2. Shrinks /\ \A i \in DOMAIN queue' : queue'[i] # NextServed
  BY <1>1, HeadOfQueue DEF Shrinks
<1>3. Rewrites
  BY HeadOfQueue DEF Concludes, OpInv, RowsShaped, RowFields, Rewrites
<1> QED BY <1>2, <1>3

\* What is cancelled leaves the queue, in which the rest stays in order.
LEMMA CancelTakesOne ==
  ASSUME OpInv, NEW i \in DOMAIN queue, CancelQueued(i)
  PROVE  /\ Shrinks
         /\ queue[i] \in DOMAIN operation /\ State(queue[i]) = "waiting"
         /\ operation' = [operation EXCEPT ![queue[i]].state = "cancelled"]
         /\ UNCHANGED owner
         /\ DOMAIN queue' = 1..(Len(queue) - 1) /\ Len(queue) \in Nat
         /\ \A j \in DOMAIN queue' : LET m == IF j < i THEN j ELSE j + 1
                                    IN  m \in DOMAIN queue /\ m # i /\ queue'[j] = queue[m]
<1>1. /\ queue \in Seq(DOMAIN operation) /\ Len(queue) \in Nat
      /\ DOMAIN queue = 1..Len(queue) /\ i \in 1..Len(queue)
      /\ \A x, y \in DOMAIN queue : queue[x] = queue[y] => x = y
  BY DEF OpInv, Queued
<1>2. queue' = [j \in 1..(Len(queue) - 1) |-> queue[IF j < i THEN j ELSE j + 1]]
  BY DEF CancelQueued
<1>3. Len(queue) - 1 \in Nat /\ DOMAIN queue' = 1..(Len(queue) - 1)
  BY <1>1, <1>2
<1>4. ASSUME NEW j \in 1..(Len(queue) - 1)
      PROVE  LET m == IF j < i THEN j ELSE j + 1
             IN  /\ m \in DOMAIN queue /\ m # i /\ queue'[j] = queue[m]
                 /\ queue[m] \in DOMAIN operation
  BY <1>1, <1>2
<1>5. queue' \in Seq(DOMAIN operation)
  <2>1. queue' \in [1..(Len(queue) - 1) -> DOMAIN operation]
    BY <1>2, <1>4
  <2> QED BY <1>3, <2>1
<1>6. \A x, y \in DOMAIN queue' : queue'[x] = queue'[y] => x = y
  <2> DEFINE m(j) == IF j < i THEN j ELSE j + 1
  <2>1. \A x \in DOMAIN queue' : m(x) \in DOMAIN queue /\ queue'[x] = queue[m(x)]
    BY <1>3, <1>4
  <2>2. \A x, y \in DOMAIN queue' : m(x) = m(y) => x = y
    BY <1>1, <1>3
  <2> HIDE DEF m
  <2> QED BY <1>1, <2>1, <2>2
<1>7. \A x \in DOMAIN queue' : \E y \in DOMAIN queue : queue'[x] = queue[y]
  BY <1>3, <1>4
<1>8. Shrinks
  BY <1>5, <1>6, <1>7 DEF Shrinks
<1> QED BY <1>1, <1>3, <1>4, <1>8 DEF CancelQueued, Settled

\* What stays of a queue is what was first, or nothing.
LEMMA ShutdownShrinks ==
  ASSUME OpInv, queue' = <<>> \/ (queue # <<>> /\ queue' = <<NextServed>>)
  PROVE  Shrinks
<1>1. CASE queue' = <<>>
  BY <1>1 DEF Shrinks
<1>2. CASE queue # <<>> /\ queue' = <<NextServed>>
  BY <1>2, HeadOfQueue DEF Shrinks
<1> QED BY <1>1, <1>2

\* Cancelled rows keep their requests.
LEMMA CancelledRewrites ==
  ASSUME OpInv
  PROVE  /\ DOMAIN Cancelled = DOMAIN operation
         /\ \A k \in DOMAIN operation : /\ DOMAIN Cancelled[k] = RowFields
                                        /\ Cancelled[k].request = operation[k].request
  BY DEF Cancelled, OpInv, RowsShaped, RowFields

-----------------------------------------------------------------------------
\* What a step of the session is to the owner and the gateway.
Quiet == UNCHANGED <<adapter, visit, vendorVars>>

Builds == /\ \E r : operation' = With(FreshKey("start"), r)
          /\ queue' = <<FreshKey("start")>>
          /\ vendor' = NewVendor
          /\ adapter' = NewAdapter
          /\ UNCHANGED <<engine, executed, visit>>

Restarts == /\ \/ operation' = Cancelled /\ UNCHANGED executed
               \/ queue # <<>> /\ EndsInCall(NextServed)
            /\ queue' = <<>>
            /\ vendor' = NewVendor
            /\ adapter' = NewAdapter
            /\ \E c \in Opened : engine' = FreshEngine(c) /\ visit' = NewVisit(c)

Stops == \/ \E i \in DOMAIN queue : CancelQueued(i)
         \/ queue # <<>> /\ Quarantine(NextServed)

GatewayStep == \/ UNCHANGED ownerVars /\ Quiet
               \/ (\E k, r : GoodKey(k, r) /\ Submits(k, r)) /\ Quiet
               \/ (\E s : ShutdownSerialization(s)) /\ Quiet
               \/ Builds
               \/ queue # <<>> /\ Serve(NextServed)
               \/ Stops /\ Quiet
               \/ Restarts

\* A submission is a new row, or changes nothing.
LEMMA EnqueueSubmits ==
  ASSUME NEW k, NEW r, GoodKey(k, r), Enqueue(k, r)
  PROVE  UNCHANGED ownerVars \/ \E x, y : GoodKey(x, y) /\ Submits(x, y)
  BY DEF Enqueue, Submits, Known

\* The same of a thread that waits for what it submits.
LEMMA SubmitOrRaiseSubmits ==
  ASSUME NEW t, NEW k, NEW r, NEW next, GoodKey(k, r), SubmitOrRaise(t, k, r, next)
  PROVE  UNCHANGED ownerVars \/ \E x, y : GoodKey(x, y) /\ Submits(x, y)
  BY EnqueueSubmits DEF SubmitOrRaise

\* A step of a load flow submits one operation, or none.
LEMMA FlowStepIsGatewayStep ==
  ASSUME NEW t, FlowStep(t)
  PROVE  GatewayStep
<1>1. CASE ExecuteLost(t)
  BY <1>1 DEF ExecuteLost, GatewayStep, gatewayVars, Quiet
<1>2. CASE SubmitLogs(t)
  <2>1. \A r : GoodKey(<<"logs", call[t].key>>, r)
    BY DEF GoodKey, Kinds
  <2> QED BY <1>2, <2>1, SubmitOrRaiseSubmits DEF SubmitLogs, GatewayStep, Quiet
<1>3. CASE AfterLogs(t)
  <2>1. \A r, n : GoodKey(ResultsKey(t, n), r)
    BY DEF GoodKey, Kinds, ResultsKey
  <2> QED BY <1>3, <2>1, SubmitOrRaiseSubmits DEF AfterLogs, GatewayStep, Quiet
<1>4. CASE ResultsLost(t)
  BY <1>4 DEF ResultsLost, GatewayStep, gatewayVars, Quiet
<1>5. CASE TakePage(t)
  <2>1. \A r, n : GoodKey(ResultsKey(t, n), r)
    BY DEF GoodKey, Kinds, ResultsKey
  <2> QED BY <1>5, <2>1, SubmitOrRaiseSubmits DEF TakePage, GatewayStep, Quiet
<1> QED BY <1>1, <1>2, <1>3, <1>4, <1>5 DEF FlowStep

\* The key of an activation is the one drawn for it.
LEMMA ActivateIsGood == \A r : GoodKey(FreshKey("activate"), r)
  BY DEF GoodKey, Kinds, FreshKey

\* Each action of the session is one of the steps of the owner and the gateway.
LEMMA StepIsGatewayStep ==
  ASSUME [SessionNext]_sessionVars
  PROVE  GatewayStep
<1>1. CASE UNCHANGED sessionVars
  BY <1>1 DEF sessionVars, flowVars, gatewayVars, GatewayStep, Quiet
<1>2. ASSUME NEW t \in Callers, NEW r \in Contexts, OpenContext(t, r) PROVE GatewayStep
  <2>1. CASE started
    <3>1. SubmitActivate(t, r)
      BY <1>2, <2>1 DEF OpenContext
    <3> QED BY <3>1, ActivateIsGood, SubmitOrRaiseSubmits DEF SubmitActivate, GatewayStep, Quiet
  <2>2. CASE ~started
    BY <1>2, <2>2 DEF OpenContext, BuildOwner, Builds, GatewayStep
  <2> QED BY <2>1, <2>2
<1>3. ASSUME NEW t \in Callers, NEW key \in FlowKeys, CallLoadFlow(t, key) PROVE GatewayStep
  BY <1>3 DEF CallLoadFlow, GatewayStep, gatewayVars, Quiet
<1>4. ASSUME NEW t \in Callers, SessionStarted(t) PROVE GatewayStep
  <2>1. SubmitActivate(t, call[t].context)
    BY <1>4 DEF SessionStarted
  <2> QED BY <2>1, ActivateIsGood, SubmitOrRaiseSubmits DEF SubmitActivate, GatewayStep, Quiet
<1>5. ASSUME NEW t \in Callers, StartFails(t) PROVE GatewayStep
  BY <1>5 DEF StartFails, GatewayStep, Quiet
<1>6. ASSUME NEW t \in Callers, ContextActivated(t) PROVE GatewayStep
  BY <1>6 DEF ContextActivated, GatewayStep, gatewayVars, Quiet
<1>7. ASSUME NEW t \in Callers, ActivationFails(t) PROVE GatewayStep
  BY <1>7 DEF ActivationFails, GatewayStep, gatewayVars, Quiet
<1>8. ASSUME NEW t \in Callers, BeginLoadFlow(t) PROVE GatewayStep
  <2>1. GoodKey(<<"execute", call[t].key>>, [context |-> context, key |-> call[t].key])
    BY DEF GoodKey, Kinds
  <2> QED BY <1>8, <2>1, SubmitOrRaiseSubmits DEF BeginLoadFlow, SubmitExecute, GatewayStep, Quiet
<1>9. ASSUME NEW t \in Callers, LoadFlowStep(t) PROVE GatewayStep
  BY <1>9, FlowStepIsGatewayStep DEF LoadFlowStep
<1>10. CASE BeginShutdown
  BY <1>10 DEF BeginShutdown, GatewayStep, gatewayVars, Quiet
<1>11. CASE SubmitClose
  <2>1. GoodKey(FreshKey("close"), <<>>)
    BY DEF GoodKey, Kinds, FreshKey
  <2> QED BY <1>11, <2>1, EnqueueSubmits DEF SubmitClose, GatewayStep, Quiet
<1>12. CASE FinishClose
  BY <1>12 DEF FinishClose, GatewayStep, Quiet
<1>13. CASE OwnerServes
  BY <1>13 DEF OwnerServes, GatewayStep
<1>14. CASE OwnerStops \/ QueueExpires
  BY <1>14 DEF OwnerStops, QueueExpires, GatewayStep, Stops, Quiet
<1>15. CASE Restart
  BY <1>15 DEF Restart, GatewayStep, Restarts
<1> QED BY <1>1, <1>2, <1>3, <1>4, <1>5, <1>6, <1>7, <1>8, <1>9, <1>10, <1>11, <1>12, <1>13,
           <1>14, <1>15 DEF SessionNext, Proceeds

-----------------------------------------------------------------------------
\* A handler performs what its operation asks for, and its row is concluded.
LEMMA ServeExecutes ==
  ASSUME OpInv, queue # <<>>, Serve(NextServed)
  PROVE  /\ \E state, x : Concludes(NextServed, state, x)
         /\ executed' = executed \/ ExecutesServed
<1> DEFINE k == NextServed
<1>1. k \in DOMAIN operation /\ k[1] \in Kinds
  BY HeadOfQueue DEF OpInv, RowsShaped
<1>2. CASE k[1] = "start"
  BY <1>2 DEF Serve, StartSession, Done, Raised, vendorVars, VendorStart
<1>3. CASE k[1] = "activate"
  BY <1>3 DEF Serve, ActivateContext, Done, Raised, vendorVars, VendorActivates, VendorFails
<1>4. CASE k[1] = "results"
  BY <1>4 DEF Serve, CollectResults, Done, Raised, vendorVars
<1>5. CASE k[1] = "logs"
  BY <1>5 DEF Serve, ReadLogs, Done, Raised, vendorVars
<1>6. CASE k[1] = "close"
  BY <1>6 DEF Serve, CloseSession, Done, Raised, vendorVars, VendorCloses
<1>7. CASE k[1] = "execute"
  <2>1. ExecuteCommand(k)
    BY <1>7 DEF Serve
  <2>2. k = <<"execute", Request(k).key>>
    BY <1>1, <1>7 DEF OpInv, RowsShaped, Request
  <2>3. \E state, x : Concludes(k, state, x)
    BY <2>1 DEF ExecuteCommand, Done, Raised
  <2>4. executed' = executed \/ executed' = Append(executed, Request(k).key)
    BY <2>1 DEF ExecuteCommand, vendorVars, VendorExecutes, VendorRaises
  <2>5. \A i \in DOMAIN queue' : queue'[i] # k
    BY <2>3, ConcludesRewrites
  <2> QED BY <2>2, <2>3, <2>4, <2>5 DEF ExecutesServed
<1> QED BY <1>1, <1>2, <1>3, <1>4, <1>5, <1>6, <1>7 DEF Kinds

\* The table over a handler.
LEMMA ServeKeepsTable ==
  ASSUME OpInv, queue # <<>>, Serve(NextServed)
  PROVE  OpInv'
<1>1. Rewrites /\ Shrinks
  BY ServeExecutes, ConcludesRewrites
<1> QED BY <1>1, ServeExecutes, RewriteKeepsTable

\* The end of the process, with or without an operation in flight.
LEMMA RestartKeepsTable ==
  ASSUME OpInv, Restarts
  PROVE  OpInv'
<1>1. Shrinks
  BY ShutdownShrinks DEF Restarts
<1>2. CASE operation' = Cancelled /\ UNCHANGED executed
  <2>1. Rewrites
    BY <1>2, CancelledRewrites DEF Rewrites
  <2> QED BY <1>1, <1>2, <2>1, RewriteKeepsTable
<1>3. CASE queue # <<>> /\ EndsInCall(NextServed)
  <2>1. operation' = Orphans(NextServed)
    BY <1>3 DEF EndsInCall
  <2>2. Rewrites
    BY <2>1, CancelledRewrites DEF Orphans, Rewrites, OpInv, RowsShaped, RowFields
  <2>3. executed' = executed \/ ExecutesServed
    <3>1. CASE executed' = executed
      BY <3>1
    <3>2. CASE MayHaveExecuted(NextServed) /\ executed' = Append(executed, Request(NextServed).key)
      <4>1. NextServed = <<"execute", Request(NextServed).key>>
        BY <1>3, <3>2, HeadOfQueue DEF MayHaveExecuted, OpInv, RowsShaped, Request
      <4>2. \A i \in DOMAIN queue' : queue'[i] # NextServed
        BY DEF Restarts
      <4> QED BY <1>3, <3>2, <4>1, <4>2 DEF ExecutesServed
    <3> QED BY <1>3, <3>1, <3>2 DEF EndsInCall
  <2> QED BY <1>1, <2>2, <2>3, RewriteKeepsTable
<1> QED BY <1>2, <1>3 DEF Restarts

\* The table over each step of the owner and the gateway.
LEMMA StepKeepsTable ==
  ASSUME OpInv, GatewayStep
  PROVE  OpInv'
<1>1. CASE UNCHANGED ownerVars /\ Quiet
  BY <1>1 DEF ownerVars, Quiet, vendorVars, OpInv, RowsShaped, Numbered, OfKind, Queued, Performed,
              Payloads, ExecutedOncePerKey
<1>2. CASE (\E k, r : GoodKey(k, r) /\ Submits(k, r)) /\ Quiet
  BY <1>2, SubmitKeepsTable DEF Quiet, vendorVars
<1>3. CASE (\E s : ShutdownSerialization(s)) /\ Quiet
  <2>1. Rewrites /\ Shrinks
    BY <1>3, CancelledRewrites, ShutdownShrinks DEF ShutdownSerialization, Hangs, Rewrites
  <2> QED BY <1>3, <2>1, RewriteKeepsTable DEF Quiet, vendorVars
<1>4. CASE Builds
  <2>1. FreshKey("start")[1] = "start"
    BY DEF FreshKey
  <2> QED BY <1>4, <2>1, BuildKeepsTable DEF Builds
<1>5. CASE queue # <<>> /\ Serve(NextServed)
  BY <1>5, ServeKeepsTable
<1>6. CASE Stops /\ Quiet
  <2>1. CASE \E i \in DOMAIN queue : CancelQueued(i)
    <3>1. Rewrites /\ Shrinks
      BY <2>1, CancelTakesOne DEF Rewrites, OpInv, RowsShaped, RowFields
    <3> QED BY <1>6, <3>1, RewriteKeepsTable DEF Quiet, vendorVars
  <2>2. CASE queue # <<>> /\ Quarantine(NextServed)
    <3>1. Rewrites
      BY <2>2, HeadOfQueue DEF Quarantine, Rewrites, OpInv, RowsShaped, RowFields
    <3>2. Shrinks
      BY <2>2 DEF Quarantine, Shrinks, OpInv, Queued
    <3> QED BY <1>6, <3>1, <3>2, RewriteKeepsTable DEF Quiet, vendorVars
  <2> QED BY <1>6, <2>1, <2>2 DEF Stops
<1>7. CASE Restarts
  BY <1>7, RestartKeepsTable
<1> QED BY <1>1, <1>2, <1>3, <1>4, <1>5, <1>6, <1>7 DEF GatewayStep

\* The table of a new database.
LEMMA TableAtFirst == SessionInit => OpInv
<1> SUFFICES ASSUME SessionInit PROVE OpInv
  OBVIOUS
<1>1. operation = <<>> /\ queue = <<>> /\ executed = <<>>
  BY DEF SessionInit, GatewayInit, OwnerInit, VendorInit
<1>2. Numbered
  BY <1>1, FS_EmptySet DEF Numbered, OfKind
<1> QED BY <1>1, <1>2 DEF OpInv, RowsShaped, Queued, Performed, ExecutedOncePerKey

\* The table of operations is in order in every reachable state.
LEMMA TableInvariant == SessionSpec => []OpInv
<1>1. OpInv /\ [SessionNext]_sessionVars => OpInv'
  BY StepIsGatewayStep, StepKeepsTable
<1> QED BY <1>1, TableAtFirst, PTL DEF SessionSpec

\* No load flow is computed twice for a key, whatever is retried, given up, cancelled,
\* hung or cut off by the end of the process (OperationStore.admit).
THEOREM SessionExecutesOncePerKey == SessionSpec => []ExecutedOncePerKey
<1>1. OpInv => ExecutedOncePerKey
  BY DEF OpInv
<1> QED BY <1>1, TableInvariant, PTL

-----------------------------------------------------------------------------
\* The records of engine, vendor, adapter and visit have their fields.
Shaped == /\ DOMAIN engine = {"active", "results"}
          /\ DOMAIN vendor = {"attached", "activated", "prior", "executions"}
          /\ DOMAIN adapter = {"started", "context", "executions", "cursors"}
          /\ DOMAIN visit = {"found", "failed", "closed"}

\* While no activation has failed, the vendor knows what it found.
Remembers == /\ adapter.started /\ ~visit.failed =>
                  IF vendor.activated THEN vendor.prior = visit.found
                                      ELSE engine.active = visit.found
             /\ adapter.started => visit.closed = "no"
             /\ ~adapter.started => ~vendor.activated

VisitInv == Shaped /\ Remembers /\ CloseRestores

\* Nothing of the visit changes without a handler.
LEMMA QuietKeepsVisit ==
  ASSUME VisitInv, Quiet
  PROVE  VisitInv'
  BY DEF VisitInv, Quiet, vendorVars, Shaped, Remembers, CloseRestores

\* What each handler does to the engine, the vendor and the history of the visit.
LEMMA ServeKeepsVisit ==
  ASSUME OpInv, VisitInv, queue # <<>>, Serve(NextServed)
  PROVE  VisitInv'
<1> DEFINE k == NextServed
<1>1. k[1] \in Kinds
  BY HeadOfQueue DEF OpInv, RowsShaped
<1>2. CASE k[1] = "start"
  <2>1. CASE Quiet
    BY <2>1, QuietKeepsVisit
  <2>2. CASE /\ ~adapter.started
             /\ VendorStart
             /\ adapter' = [adapter EXCEPT !.started = TRUE]
             /\ visit' = NewVisit(engine.active)
    BY <2>2 DEF VendorStart, NewVisit, VisitInv, Shaped, Remembers, CloseRestores
  <2> QED BY <1>2, <2>1, <2>2 DEF Serve, StartSession, Quiet
<1>3. CASE k[1] = "activate"
  <2>1. CASE Quiet
    BY <2>1, QuietKeepsVisit
  <2>2. CASE /\ adapter.started
             /\ \E r : VendorActivates(r) /\ adapter' = [adapter EXCEPT !.context = r]
             /\ UNCHANGED visit
    BY <2>2 DEF VendorActivates, Prior, FreshEngine, VisitInv, Shaped, Remembers, CloseRestores
  <2>3. CASE /\ adapter.started
             /\ \E r : VendorFails(r)
             /\ visit' = [visit EXCEPT !.failed = TRUE]
             /\ UNCHANGED adapter
    <3>1. DOMAIN engine' = {"active", "results"}
      BY <2>3 DEF VendorFails, VendorActivates, FreshEngine, VisitInv, Shaped
    <3>2. \/ vendor' = [vendor EXCEPT !.prior = Prior]
          \/ vendor' = [vendor EXCEPT !.prior = Prior, !.activated = TRUE]
      BY <2>3 DEF VendorFails, VendorActivates
    <3> QED BY <2>3, <3>1, <3>2 DEF VisitInv, Shaped, Remembers, CloseRestores
  <2> QED BY <1>3, <2>1, <2>2, <2>3 DEF Serve, ActivateContext, Quiet
<1>4. CASE k[1] = "execute"
  <2>1. CASE UNCHANGED <<adapter, visit, vendorVars>>
    BY <2>1, QuietKeepsVisit DEF Quiet
  <2>2. CASE /\ \E key : VendorExecutes(key)
             /\ \E x : adapter' = [adapter EXCEPT !.executions = x]
             /\ UNCHANGED visit
    BY <2>2 DEF VendorExecutes, VisitInv, Shaped, Remembers, CloseRestores
  <2>3. CASE (\E key : VendorRaises(key)) /\ UNCHANGED <<adapter, visit>>
    BY <2>3 DEF VendorRaises, VisitInv, Shaped, Remembers, CloseRestores
  <2> QED BY <1>4, <2>1, <2>2, <2>3 DEF Serve, ExecuteCommand
<1>5. CASE k[1] = "results"
  <2>1. /\ UNCHANGED <<visit, vendorVars>>
        /\ adapter' = adapter \/ \E x : adapter' = [adapter EXCEPT !.cursors = x]
    BY <1>5 DEF Serve, CollectResults
  <2> QED BY <2>1 DEF vendorVars, VisitInv, Shaped, Remembers, CloseRestores
<1>6. CASE k[1] = "logs"
  BY <1>6, QuietKeepsVisit DEF Serve, ReadLogs, Quiet
<1>7. CASE k[1] = "close"
  <2>1. CASE Quiet
    BY <2>1, QuietKeepsVisit
  <2>2. CASE /\ adapter.started
             /\ \E ok \in BOOLEAN :
                  /\ VendorCloses(ok)
                  /\ adapter' = NewAdapter
                  /\ visit' = [visit EXCEPT !.closed = IF ok THEN "restored" ELSE "unsure"]
    BY <2>2 DEF VendorCloses, NewVendor, NewAdapter, FreshEngine, VisitInv, Shaped, Remembers,
                CloseRestores
  <2> QED BY <1>7, <2>1, <2>2 DEF Serve, CloseSession, Quiet
<1> QED BY <1>1, <1>2, <1>3, <1>4, <1>5, <1>6, <1>7 DEF Kinds

\* The visit over each step of the owner and the gateway.
LEMMA StepKeepsVisit ==
  ASSUME OpInv, VisitInv, GatewayStep
  PROVE  VisitInv'
<1>1. CASE Quiet
  BY <1>1, QuietKeepsVisit
<1>2. CASE Builds
  BY <1>2 DEF Builds, NewVendor, NewAdapter, VisitInv, Shaped, Remembers, CloseRestores
<1>3. CASE queue # <<>> /\ Serve(NextServed)
  BY <1>3, ServeKeepsVisit
<1>4. CASE Restarts
  BY <1>4 DEF Restarts, NewVendor, NewAdapter, FreshEngine, NewVisit, VisitInv, Shaped, Remembers,
              CloseRestores
<1> QED BY <1>1, <1>2, <1>3, <1>4 DEF GatewayStep

\* Nothing is attached at first.
LEMMA VisitAtFirst == SessionInit => VisitInv
  BY DEF SessionInit, GatewayInit, VendorInit, FreshEngine, NewVendor, NewAdapter, NewVisit,
         VisitInv, Shaped, Remembers, CloseRestores

\* A close that succeeds leaves the engine as the session found it, after any history
\* in which no activation failed (NativePowerFactory2026Vendor.activate_context, close).
THEOREM SessionCloseRestores == SessionSpec => []CloseRestores
<1>1. OpInv /\ VisitInv /\ [SessionNext]_sessionVars => VisitInv'
  BY StepIsGatewayStep, StepKeepsVisit
<1>2. VisitInv => CloseRestores
  BY DEF VisitInv
<1> QED BY <1>1, <1>2, TableInvariant, VisitAtFirst, PTL DEF SessionSpec

-----------------------------------------------------------------------------
\* What changes the context of the engine, or makes another session of it.
Activating == {"start", "activate"}

CallFields == {"pc", "key", "op", "context", "execution", "values"}

CallsShaped == /\ DOMAIN call = Threads
               /\ \A t \in Threads : DOMAIN call[t] = CallFields

\* Nothing that is queued will change the context, and the engine has c.
Serving(c) == /\ \A i \in DOMAIN queue : queue[i][1] \notin Activating
              /\ adapter.started => engine.active = c /\ adapter.context = c

\* An activation that is waited for is the last in the queue; when it is done,
\* the engine has its context.
Pending(t) == LET k == Op(t) IN
  /\ k \in DOMAIN operation
  /\ k[1] = "activate"
  /\ operation[k].request.context = call[t].context
  /\ \A i, j \in DOMAIN queue : queue[i] = k /\ i < j => queue[j][1] \notin Activating
  /\ State(k) = "done" => Serving(call[t].context)

\* Only the holder of the lock activates, and only while no context is active.
LockHeld == \A t \in Threads : call[t].pc \in Activating =>
              holder = t /\ active = NoContext /\ call[t].context \in Contexts

ActivationsPend == \A t \in Threads : call[t].pc = "activate" => Pending(t)

ActiveServed == active # NoContext => Serving(active)

ServeInv == CallsShaped /\ LockHeld /\ ActivationsPend /\ ActiveServed

\* The steps that submit no activation.
Plain == \/ UNCHANGED ownerVars /\ Quiet
         \/ (\E k, r : k[1] \notin Activating /\ Submits(k, r)) /\ Quiet
         \/ (\E s : ShutdownSerialization(s)) /\ Quiet
         \/ queue # <<>> /\ Serve(NextServed)
         \/ Stops /\ Quiet

\* A queue of which only the order of what is left is kept.
Orderly == \A i, j \in DOMAIN queue' : i < j =>
             \E x, y \in DOMAIN queue : x < y /\ queue'[i] = queue[x] /\ queue'[j] = queue[y]

\* The queue after its head was served.
LEMMA TailIsOrderly ==
  ASSUME OpInv, queue # <<>>, queue' = Tail(queue)
  PROVE  Orderly /\ Shrinks
<1>1. Shrinks
  BY HeadOfQueue DEF Shrinks
<1>2. \A i \in DOMAIN queue : i \in Nat
  BY DEF OpInv, Queued
<1>3. \A i \in DOMAIN queue' : i \in Nat
  BY HeadOfQueue
<1>4. Orderly
  BY <1>2, <1>3, HeadOfQueue DEF Orderly
<1> QED BY <1>1, <1>4

\* The queue after one of what waits was cancelled.
LEMMA CancelIsOrderly ==
  ASSUME OpInv, NEW i \in DOMAIN queue, CancelQueued(i)
  PROVE  Orderly
<1> DEFINE m(j) == IF j < i THEN j ELSE j + 1
<1>1. /\ DOMAIN queue' = 1..(Len(queue) - 1) /\ Len(queue) \in Nat
      /\ \A j \in DOMAIN queue' : m(j) \in DOMAIN queue /\ queue'[j] = queue[m(j)]
  BY CancelTakesOne
<1>2. i \in Nat
  BY DEF OpInv, Queued
<1>3. \A x, y \in DOMAIN queue' : x < y => m(x) < m(y)
  BY <1>1, <1>2
<1> HIDE DEF m
<1> QED BY <1>1, <1>3 DEF Orderly

\* The queue after the owner was shut down.
LEMMA ShutdownIsOrderly ==
  ASSUME OpInv, NEW s, ShutdownSerialization(s)
  PROVE  Orderly /\ Shrinks
<1>1. queue' = <<>> \/ (queue # <<>> /\ queue' = <<NextServed>>)
  BY DEF ShutdownSerialization, Hangs
<1>2. Shrinks
  BY <1>1, ShutdownShrinks
<1>3. \A i, j \in DOMAIN queue' : ~(i < j)
  BY <1>1
<1> QED BY <1>2, <1>3 DEF Orderly

\* Rows that are not done by a step, over a queue that only shrinks.
LEMMA ShrinkKeepsPending ==
  ASSUME NEW t, Pending(t), call'[t] = call[t], Rewrites, Orderly,
         operation'[Op(t)].state = "done" => State(Op(t)) = "done",
         Serving(call[t].context) => Serving(call[t].context)'
  PROVE  Pending(t)'
  BY DEF Pending, Rewrites, Orderly, Op, State

\* No activation comes into a queue that shrinks.
LEMMA ShrinkKeepsServing ==
  ASSUME Shrinks, NEW c, Serving(c),
         (adapter.started => engine.active = c /\ adapter.context = c)'
  PROVE  Serving(c)'
  BY DEF Serving, Shrinks

\* A submission of something else is queued behind.
LEMMA SubmitKeepsServing ==
  ASSUME OpInv, NEW k, NEW r, k[1] \notin Activating, Submits(k, r), Quiet
  PROVE  /\ \A c : Serving(c) => Serving(c)'
         /\ \A t : Pending(t) /\ call'[t] = call[t] => Pending(t)'
<1>1. /\ DOMAIN operation' = DOMAIN operation \cup {k}
      /\ \A x \in DOMAIN operation : operation'[x] = operation[x]
  BY DEF Submits, With
<1>2. /\ Len(queue) \in Nat
      /\ DOMAIN queue = 1..Len(queue)
      /\ DOMAIN queue' = 1..(Len(queue) + 1)
      /\ \A i \in DOMAIN queue : queue'[i] = queue[i]
      /\ queue'[Len(queue) + 1] = k
  <2>1. queue \in Seq(DOMAIN operation \cup {k})
    BY SeqGrows DEF OpInv, Queued
  <2> QED BY <2>1 DEF Submits
<1>3. ASSUME NEW c, Serving(c) PROVE Serving(c)'
  BY <1>2, <1>3 DEF Serving, Quiet, vendorVars
<1>4. ASSUME NEW t, Pending(t), call'[t] = call[t] PROVE Pending(t)'
  <2> DEFINE o == Op(t)
  <2>1. /\ o \in DOMAIN operation /\ o[1] = "activate" /\ o # k
        /\ operation[o].request.context = call[t].context
        /\ \A i, j \in DOMAIN queue : queue[i] = o /\ i < j => queue[j][1] \notin Activating
        /\ operation[o].state = "done" => Serving(call[t].context)
    BY <1>4 DEF Pending, Submits, State
  <2>2. Op(t)' = o
    BY <1>4 DEF Op
  <2>3. \A i, j \in DOMAIN queue' : queue'[i] = o /\ i < j => queue'[j][1] \notin Activating
    BY <1>2, <2>1
  <2>4. operation'[o].state = "done" => Serving(call[t].context)'
    <3>1. operation'[o].state = "done" => Serving(call[t].context)
      BY <1>1, <2>1
    <3> QED BY <1>3, <1>4, <3>1
  <2> HIDE DEF o
  <2> QED BY <1>1, <1>4, <2>1, <2>2, <2>3, <2>4 DEF Pending, State
<1> QED BY <1>3, <1>4

\* What any handler but that of an activation leaves of the context.
LEMMA OthersKeepContext ==
  ASSUME OpInv, VisitInv, queue # <<>>, Serve(NextServed), NextServed[1] \notin Activating,
         NEW c, adapter.started => engine.active = c /\ adapter.context = c
  PROVE  (adapter.started => engine.active = c /\ adapter.context = c)'
<1> DEFINE k == NextServed
<1>1. k[1] \in Kinds
  BY HeadOfQueue DEF OpInv, RowsShaped
<1>2. CASE k[1] = "execute"
  <2>1. CASE UNCHANGED <<adapter, visit, vendorVars>>
    BY <2>1 DEF vendorVars
  <2>2. CASE /\ \E key : VendorExecutes(key)
             /\ \E x : adapter' = [adapter EXCEPT !.executions = x]
    BY <2>2 DEF VendorExecutes, VisitInv, Shaped
  <2>3. CASE (\E key : VendorRaises(key)) /\ UNCHANGED adapter
    BY <2>3 DEF VendorRaises, VisitInv, Shaped
  <2> QED BY <1>2, <2>1, <2>2, <2>3 DEF Serve, ExecuteCommand
<1>3. CASE k[1] = "results"
  <2>1. /\ UNCHANGED vendorVars
        /\ adapter' = adapter \/ \E x : adapter' = [adapter EXCEPT !.cursors = x]
    BY <1>3 DEF Serve, CollectResults
  <2> QED BY <2>1 DEF vendorVars, VisitInv, Shaped
<1>4. CASE k[1] = "logs"
  BY <1>4 DEF Serve, ReadLogs, vendorVars
<1>5. CASE k[1] = "close"
  <2>1. (adapter' = adapter /\ UNCHANGED vendorVars) \/ adapter' = NewAdapter
    BY <1>5 DEF Serve, CloseSession
  <2>2. NewAdapter.started = FALSE
    BY DEF NewAdapter
  <2> QED BY <2>1, <2>2 DEF vendorVars
<1> QED BY <1>1, <1>2, <1>3, <1>4, <1>5 DEF Kinds, Activating

\* An activation that ends as done has made its context that of the engine.
LEMMA DoneIsActivated ==
  ASSUME OpInv, VisitInv, queue # <<>>, Serve(NextServed), NextServed[1] = "activate",
         Request(NextServed).context \in Contexts,
         State(NextServed) # "done", operation'[NextServed].state = "done"
  PROVE  LET c == Request(NextServed).context IN engine'.active = c /\ adapter'.context = c
<1> DEFINE k == NextServed
           c == Request(NextServed).context
<1>1. k \in DOMAIN operation /\ DOMAIN operation[k] = RowFields
  BY HeadOfQueue DEF OpInv, RowsShaped
<1>2. ~Raised(k)
  BY <1>1 DEF Raised, Concludes, State, RowFields
<1>3. VendorActivates(c) /\ adapter' = [adapter EXCEPT !.context = c]
  BY <1>2 DEF Serve, ActivateContext
<1>4. c = [project |-> c.project, case |-> c.case]
  BY SessionAssumption
<1> HIDE DEF c
<1> QED BY <1>3, <1>4 DEF VendorActivates, FreshEngine, VisitInv, Shaped, c

\* A handler keeps what is served, and completes what is pending.
LEMMA ServeKeepsServing ==
  ASSUME OpInv, VisitInv, queue # <<>>, Serve(NextServed)
  PROVE  /\ \A c : Serving(c) => Serving(c)'
         /\ \A t : Pending(t) /\ call[t].context \in Contexts /\ call'[t] = call[t] => Pending(t)'
<1> DEFINE k == NextServed
<1>1. \E state, x : Concludes(k, state, x)
  <2>1. k[1] \in Kinds
    BY HeadOfQueue DEF OpInv, RowsShaped
  <2> QED BY <2>1 DEF Kinds, Serve, StartSession, ActivateContext, ExecuteCommand, CollectResults,
                      ReadLogs, CloseSession, Done, Raised
<1>2. queue' = Tail(queue) /\ Rewrites /\ Orderly /\ Shrinks
  BY <1>1, ConcludesRewrites, TailIsOrderly DEF Concludes
<1>3. /\ k \in DOMAIN operation /\ k = queue[1] /\ 1 \in DOMAIN queue
      /\ \A i \in DOMAIN Tail(queue) : i + 1 \in DOMAIN queue /\ Tail(queue)[i] = queue[i + 1]
      /\ \A i \in DOMAIN Tail(queue) : i \in Nat /\ i >= 1
  BY HeadOfQueue
<1>4. ASSUME NEW c, Serving(c) PROVE Serving(c)'
  <2>1. k[1] \notin Activating /\ (adapter.started => engine.active = c /\ adapter.context = c)
    BY <1>3, <1>4 DEF Serving
  <2> QED BY <1>2, <1>4, <2>1, OthersKeepContext, ShrinkKeepsServing
<1>5. ASSUME NEW t, Pending(t), call[t].context \in Contexts, call'[t] = call[t] PROVE Pending(t)'
  <2> DEFINE o == Op(t)
  <2>1. CASE operation'[o].state = "done" => State(o) = "done"
    BY <1>2, <1>4, <1>5, <2>1, ShrinkKeepsPending
  <2>2. CASE operation'[o].state = "done" /\ State(o) # "done"
    <3>1. o = k
      BY <1>1, <1>5, <2>2 DEF Concludes, Pending, State
    <3>2. o \in DOMAIN operation /\ o[1] = "activate" /\ Request(o).context = call[t].context
      BY <1>5 DEF Pending, Request
    <3>3. engine'.active = call[t].context /\ adapter'.context = call[t].context
      BY <1>5, <2>2, <3>1, <3>2, DoneIsActivated
    <3>4. \A i \in DOMAIN queue' : queue'[i][1] \notin Activating
      <4> SUFFICES ASSUME NEW i \in DOMAIN queue' PROVE queue'[i][1] \notin Activating
        OBVIOUS
      <4>1. i + 1 \in DOMAIN queue /\ queue'[i] = queue[i + 1] /\ 1 < i + 1
        BY <1>2, <1>3
      <4> QED BY <1>3, <1>5, <3>1, <4>1 DEF Pending
    <3>5. Serving(call[t].context)'
      BY <1>5, <3>3, <3>4 DEF Serving
    <3>6. \A i, j \in DOMAIN queue' : i < j => queue'[j][1] \notin Activating
      BY <3>4
    <3>7. Op(t)' = o
      BY <1>5 DEF Op
    <3> HIDE DEF o
    <3> QED BY <1>2, <1>5, <3>2, <3>5, <3>6, <3>7 DEF Pending, Rewrites, Request
  <2> QED BY <2>1, <2>2
<1> QED BY <1>4, <1>5

\* An operation that is cancelled, or hangs, is not done.
LEMMA StopKeepsServing ==
  ASSUME OpInv, Stops, Quiet
  PROVE  /\ \A c : Serving(c) => Serving(c)'
         /\ \A t : Pending(t) /\ call'[t] = call[t] => Pending(t)'
<1>1. queue # <<>> => NextServed \in DOMAIN operation
  BY HeadOfQueue
<1>2. Rewrites /\ Orderly /\ Shrinks
  <2>1. CASE \E i \in DOMAIN queue : CancelQueued(i)
    <3>1. Rewrites /\ Shrinks
      BY <2>1, CancelTakesOne DEF Rewrites, OpInv, RowsShaped, RowFields
    <3> QED BY <2>1, <3>1, CancelIsOrderly
  <2>2. CASE queue # <<>> /\ Quarantine(NextServed)
    <3>1. Rewrites
      BY <1>1, <2>2 DEF Quarantine, Rewrites, OpInv, RowsShaped, RowFields
    <3>2. Shrinks /\ Orderly
      BY <2>2 DEF Quarantine, Shrinks, Orderly, OpInv, Queued
    <3> QED BY <3>1, <3>2
  <2> QED BY <2>1, <2>2 DEF Stops
<1>3. \A k \in DOMAIN operation : operation'[k].state = "done" => State(k) = "done"
  <2>1. CASE \E i \in DOMAIN queue : CancelQueued(i)
    BY <2>1, CancelTakesOne DEF State, OpInv, RowsShaped, RowFields
  <2>2. CASE queue # <<>> /\ Quarantine(NextServed)
    BY <1>1, <2>2 DEF Quarantine, State, OpInv, RowsShaped, RowFields
  <2> QED BY <2>1, <2>2 DEF Stops
<1>4. ASSUME NEW c, Serving(c) PROVE Serving(c)'
  BY <1>2, <1>4, ShrinkKeepsServing DEF Quiet, vendorVars, Serving
<1>5. ASSUME NEW t, Pending(t), call'[t] = call[t] PROVE Pending(t)'
  BY <1>2, <1>3, <1>4, <1>5, ShrinkKeepsPending DEF Pending
<1> QED BY <1>4, <1>5

\* Nothing that a shutdown cancels is done.
LEMMA ShutdownKeepsServing ==
  ASSUME OpInv, NEW s, ShutdownSerialization(s), Quiet
  PROVE  /\ \A c : Serving(c) => Serving(c)'
         /\ \A t : Pending(t) /\ call'[t] = call[t] => Pending(t)'
<1>1. Rewrites /\ Orderly /\ Shrinks
  BY ShutdownIsOrderly, CancelledRewrites DEF ShutdownSerialization, Rewrites
<1>2. \A k \in DOMAIN operation : operation'[k].state = "done" => State(k) = "done"
  BY DEF ShutdownSerialization, Cancelled, State, OpInv, RowsShaped, RowFields
<1>3. ASSUME NEW c, Serving(c) PROVE Serving(c)'
  BY <1>1, <1>3, ShrinkKeepsServing DEF Quiet, vendorVars, Serving
<1>4. ASSUME NEW t, Pending(t), call'[t] = call[t] PROVE Pending(t)'
  BY <1>1, <1>2, <1>3, <1>4, ShrinkKeepsPending DEF Pending
<1> QED BY <1>3, <1>4

\* What is served and what is pending over each plain step.
LEMMA PlainKeepsServing ==
  ASSUME OpInv, VisitInv, Plain
  PROVE  /\ \A c : Serving(c) => Serving(c)'
         /\ \A t : Pending(t) /\ call[t].context \in Contexts /\ call'[t] = call[t] => Pending(t)'
<1>1. CASE UNCHANGED ownerVars /\ Quiet
  BY <1>1 DEF ownerVars, Quiet, vendorVars, Serving, Pending, Op, State
<1>2. CASE (\E k, r : k[1] \notin Activating /\ Submits(k, r)) /\ Quiet
  BY <1>2, SubmitKeepsServing
<1>3. CASE (\E s : ShutdownSerialization(s)) /\ Quiet
  BY <1>3, ShutdownKeepsServing
<1>4. CASE queue # <<>> /\ Serve(NextServed)
  BY <1>4, ServeKeepsServing
<1>5. CASE Stops /\ Quiet
  BY <1>5, StopKeepsServing
<1> QED BY <1>1, <1>2, <1>3, <1>4, <1>5 DEF Plain

-----------------------------------------------------------------------------
\* A step that starts no activation, of threads that do not activate either.
LEMMA FrameKeeps ==
  ASSUME OpInv, VisitInv, ServeInv, Plain, CallsShaped', active' = active,
         \A t \in Threads : call'[t].pc \in Activating =>
           call'[t] = call[t] /\ holder' = holder
  PROVE  ServeInv'
<1>1. LockHeld'
  BY DEF ServeInv, LockHeld
<1>2. ActivationsPend'
  <2> SUFFICES ASSUME NEW t \in Threads, call'[t].pc = "activate" PROVE Pending(t)'
    BY DEF ActivationsPend
  <2>1. call'[t] = call[t] /\ call[t].pc = "activate"
    BY DEF Activating
  <2>2. Pending(t) /\ call[t].context \in Contexts
    BY <2>1 DEF ServeInv, LockHeld, ActivationsPend, Activating
  <2> QED BY <2>1, <2>2, PlainKeepsServing
<1>3. ActiveServed'
  <2> SUFFICES ASSUME active' # NoContext PROVE Serving(active)'
    BY DEF ActiveServed
  <2>1. Serving(active)
    BY DEF ServeInv, ActiveServed
  <2>2. \A c : Serving(c) => Serving(c)'
    BY PlainKeepsServing
  <2>3. Serving(active) => \A i \in DOMAIN queue' : queue'[i][1] \notin Activating
    BY <2>2 DEF Serving
  <2>4. Serving(active) =>
          (adapter'.started => engine'.active = active /\ adapter'.context = active)
    BY <2>2 DEF Serving
  <2> QED BY <2>1, <2>3, <2>4 DEF Serving
<1> QED BY <1>1, <1>2, <1>3 DEF ServeInv

\* The same when it is one thread that goes on, or gives the lock back.
LEMMA MoveKeeps ==
  ASSUME OpInv, VisitInv, ServeInv, Plain, active' = active,
         NEW t \in Threads, NEW x, call' = [call EXCEPT ![t] = x],
         x.pc \notin Activating, DOMAIN x = CallFields,
         holder' = holder \/ call[t].pc \in Activating
  PROVE  ServeInv'
<1>1. /\ call'[t] = x
      /\ \A s \in Threads : s # t => call'[s] = call[s]
      /\ CallsShaped'
  BY DEF ServeInv, CallsShaped
<1>2. ASSUME NEW s \in Threads, call'[s].pc \in Activating
      PROVE  call'[s] = call[s] /\ holder' = holder
  <2>1. s # t /\ call'[s] = call[s]
    BY <1>1, <1>2
  <2>2. holder = s
    BY <1>2, <2>1 DEF ServeInv, LockHeld
  <2>3. call[t].pc \notin Activating
    BY <2>1, <2>2 DEF ServeInv, LockHeld
  <2> QED BY <2>1, <2>3
<1> QED BY <1>1, <1>2, FrameKeeps

\* A free lock means that nobody activates.
LEMMA UnlockedIsIdle ==
  ASSUME ServeInv, ~Locked, NEW t \in Threads
  PROVE  call[t].pc \notin Activating
  BY SessionAssumption DEF ServeInv, LockHeld, Locked, Threads

\* Idle and returning threads.
LEMMA IdleIsPlain == Idle.pc \notin Activating /\ DOMAIN Idle = CallFields
  BY DEF Idle, Activating, CallFields

\* A submission of anything but an activation, and where its thread goes on.
LEMMA SubmitOrRaiseMoves ==
  ASSUME NEW t, NEW k, NEW r, NEW next, k[1] \notin Activating, Quiet,
         SubmitOrRaise(t, k, r, next), next.pc \notin Activating, DOMAIN next = CallFields
  PROVE  /\ Plain
         /\ \E x : /\ call' = [call EXCEPT ![t] = x]
                   /\ x.pc \notin Activating /\ DOMAIN x = CallFields
<1>1. Plain
  BY DEF SubmitOrRaise, Enqueue, Submits, Known, Plain
<1>2. CASE Admits(k, r)
  <2>1. call' = [call EXCEPT ![t] = [next EXCEPT !.op = k]]
    BY <1>2 DEF SubmitOrRaise
  <2>2. [next EXCEPT !.op = k].pc = next.pc /\ DOMAIN [next EXCEPT !.op = k] = CallFields
    BY DEF CallFields
  <2> QED BY <1>1, <2>1, <2>2
<1>3. CASE ~Admits(k, r)
  <2>1. call' = [call EXCEPT ![t] = Idle]
    BY <1>3 DEF SubmitOrRaise, Returns
  <2> QED BY <1>1, <2>1, IdleIsPlain
<1> QED BY <1>2, <1>3

\* A step of a load flow: what it submits, and where its thread goes on.
LEMMA FlowStepMoves ==
  ASSUME CallsShaped, NEW t \in Threads, FlowStep(t)
  PROVE  /\ Plain
         /\ \E x : /\ call' = [call EXCEPT ![t] = x]
                   /\ x.pc \notin Activating /\ DOMAIN x = CallFields
<1>1. DOMAIN call[t] = CallFields
  BY DEF CallsShaped
<1>2. ASSUME UNCHANGED ownerVars, Quiet, Returns(t)
      PROVE  /\ Plain
             /\ \E x : /\ call' = [call EXCEPT ![t] = x]
                       /\ x.pc \notin Activating /\ DOMAIN x = CallFields
  BY <1>2, IdleIsPlain DEF Plain, Returns
<1>3. CASE ExecuteLost(t) \/ ResultsLost(t)
  BY <1>2, <1>3 DEF ExecuteLost, ResultsLost, Record, gatewayVars, Quiet
<1>4. CASE SubmitLogs(t)
  <2> DEFINE k == <<"logs", call[t].key>>
             r == [execution |-> Result(Op(t)).execution]
             next == [call[t] EXCEPT !.pc = "logs", !.execution = r.execution]
  <2>1. k[1] \notin Activating /\ next.pc \notin Activating /\ DOMAIN next = CallFields
    BY <1>1 DEF Activating, CallFields
  <2>2. SubmitOrRaise(t, k, r, next) /\ Quiet
    BY <1>4 DEF SubmitLogs, Quiet
  <2> HIDE DEF k, r, next
  <2> QED BY <2>1, <2>2, SubmitOrRaiseMoves
<1>5. CASE AfterLogs(t)
  <2>1. CASE ~Succeeded(t)
    BY <1>2, <1>5, <2>1 DEF AfterLogs, Record, Quiet
  <2>2. CASE Succeeded(t)
    <3> DEFINE k == ResultsKey(t, 0)
               r == ResultsRequest(t, <<>>)
               next == [call[t] EXCEPT !.pc = "results"]
    <3>1. k[1] \notin Activating /\ next.pc \notin Activating /\ DOMAIN next = CallFields
      BY <1>1 DEF ResultsKey, Activating, CallFields
    <3>2. SubmitOrRaise(t, k, r, next) /\ Quiet
      BY <1>5, <2>2 DEF AfterLogs, Quiet
    <3> HIDE DEF k, r, next
    <3> QED BY <3>1, <3>2, SubmitOrRaiseMoves
  <2> QED BY <2>1, <2>2
<1>6. CASE TakePage(t)
  <2> DEFINE values == call[t].values \o Result(Op(t)).values
             cursor == Result(Op(t)).next
             n == Op(t)[2][2] + 1
  <2>1. CASE cursor = <<>>
    BY <1>2, <1>6, <2>1 DEF TakePage, Record, Quiet
  <2>2. CASE cursor # <<>>
    <3> DEFINE k == ResultsKey(t, n)
               r == ResultsRequest(t, cursor)
               next == [call[t] EXCEPT !.values = values]
    <3>1. k[1] \notin Activating
      BY DEF ResultsKey, Activating
    <3>2. next.pc \notin Activating /\ DOMAIN next = CallFields
      BY <1>1, <1>6 DEF TakePage, Activating, CallFields
    <3>3. SubmitOrRaise(t, k, r, next) /\ Quiet
      BY <1>6, <2>2 DEF TakePage, Quiet
    <3> HIDE DEF k, r, next
    <3> QED BY <3>1, <3>2, <3>3, SubmitOrRaiseMoves
  <2> QED BY <2>1, <2>2
<1> QED BY <1>3, <1>4, <1>5, <1>6 DEF FlowStep

\* An activation that is submitted is new, and last in the queue.
LEMMA ActivateKeepsServing ==
  ASSUME OpInv, ServeInv, NEW t \in Threads, NEW r \in Contexts, SubmitActivate(t, r),
         active = NoContext, active' = active,
         \A s \in Threads : s # t => call[s].pc \notin Activating
  PROVE  ServeInv'
<1> DEFINE k == FreshKey("activate")
           q == [context |-> r]
           next == [Idle EXCEPT !.pc = "activate", !.context = r]
<1>1. ActiveServed'
  BY DEF ActiveServed
<1>2. CASE Admits(k, q)
  <2>1. /\ Submits(k, q)
        /\ call' = [call EXCEPT ![t] = [next EXCEPT !.op = k]]
        /\ holder' = t
    BY <1>2, FreshIsNew DEF OpInv, SubmitActivate, SubmitOrRaise, Enqueue, Known, Submits
  <2>2. /\ call'[t] = [next EXCEPT !.op = k]
        /\ \A s \in Threads : s # t => call'[s] = call[s]
        /\ DOMAIN call' = Threads
    BY <2>1 DEF ServeInv, CallsShaped
  <2>3. /\ call'[t].pc = "activate" /\ call'[t].op = k /\ call'[t].context = r
        /\ DOMAIN call'[t] = CallFields
    BY <2>2 DEF Idle, CallFields
  <2>4. CallsShaped' /\ LockHeld'
    BY <2>1, <2>2, <2>3 DEF ServeInv, CallsShaped, LockHeld
  <2>5. k[1] = "activate"
    BY DEF FreshKey
  <2>6. /\ k \in DOMAIN operation'
        /\ operation'[k].request = q /\ operation'[k].state = "waiting"
    <3>1. operation' = With(k, q)
      BY <2>1 DEF Submits
    <3> HIDE DEF k, q
    <3>2. /\ DOMAIN operation' = DOMAIN operation \cup {k}
          /\ operation'[k] = Row(q) /\ Row(q).request = q /\ Row(q).state = "waiting"
      BY <3>1, WithAdds
    <3> QED BY <3>2
  <2>7. \A i, j \in DOMAIN queue' : queue'[i] = k => ~(i < j)
    <3>1. /\ Len(queue) \in Nat
          /\ DOMAIN queue = 1..Len(queue)
          /\ \A i \in DOMAIN queue : queue[i] # k
      BY <2>1 DEF OpInv, Queued, Submits
    <3>2. queue \in Seq(DOMAIN operation \cup {k})
      BY SeqGrows DEF OpInv, Queued
    <3>3. /\ DOMAIN queue' = 1..(Len(queue) + 1)
          /\ \A i \in DOMAIN queue : queue'[i] = queue[i]
      BY <2>1, <3>2 DEF Submits
    <3> QED BY <3>1, <3>3
  <2>8. Pending(t)'
    <3>1. Op(t)' = k
      BY <2>3 DEF Op
    <3>2. q.context = r
      OBVIOUS
    <3> HIDE DEF k, q
    <3> QED BY <2>3, <2>5, <2>6, <2>7, <3>1, <3>2 DEF Pending, State
  <2>9. ActivationsPend'
    BY <2>2, <2>8 DEF ActivationsPend, Activating
  <2> QED BY <1>1, <2>4, <2>9 DEF ServeInv
<1>3. CASE ~Admits(k, q)
  <2>1. call' = [call EXCEPT ![t] = Idle]
    BY <1>3 DEF SubmitActivate, SubmitOrRaise, Returns
  <2>2. /\ call'[t] = Idle
        /\ \A s \in Threads : s # t => call'[s] = call[s]
        /\ CallsShaped'
    BY <2>1, IdleIsPlain DEF ServeInv, CallsShaped
  <2>3. \A s \in Threads : call'[s].pc \notin Activating
    BY <2>2, IdleIsPlain
  <2> QED BY <1>1, <2>2, <2>3 DEF ServeInv, LockHeld, ActivationsPend, Activating
<1> QED BY <1>2, <1>3

\* The first admission of a session builds its owner.
LEMMA BuildKeepsServing ==
  ASSUME ServeInv, NEW t \in Threads, NEW r \in Contexts, BuildOwner(t, r),
         active = NoContext, active' = active,
         \A s \in Threads : call[s].pc \notin Activating
  PROVE  ServeInv'
<1> DEFINE x == [Idle EXCEPT !.pc = "start", !.op = FreshKey("start"), !.context = r]
<1>1. /\ call'[t] = x
      /\ \A s \in Threads : s # t => call'[s] = call[s]
      /\ DOMAIN call' = Threads
  BY DEF ServeInv, CallsShaped, BuildOwner
<1>2. x.pc = "start" /\ x.context = r /\ DOMAIN x = CallFields
  BY DEF Idle, CallFields
<1> HIDE DEF x
<1>3. CallsShaped' /\ LockHeld'
  BY <1>1, <1>2 DEF ServeInv, CallsShaped, LockHeld, BuildOwner
<1>4. ActivationsPend' /\ ActiveServed'
  BY <1>1, <1>2 DEF ActivationsPend, ActiveServed, Activating
<1> QED BY <1>3, <1>4 DEF ServeInv

\* An activation that was answered is what the engine has.
LEMMA ActivatedKeepsServing ==
  ASSUME ServeInv, NEW t \in Threads, ContextActivated(t)
  PROVE  ServeInv'
<1>1. /\ call'[t] = Idle
      /\ \A s \in Threads : s # t => call'[s] = call[s]
      /\ CallsShaped'
  BY IdleIsPlain DEF ServeInv, CallsShaped, ContextActivated, Returns
<1>2. call[t].pc \in Activating /\ call[t].pc = "activate"
  BY DEF ContextActivated, Activating
<1>3. \A s \in Threads : call'[s].pc \notin Activating
  BY <1>1, <1>2, IdleIsPlain DEF ServeInv, LockHeld
<1>4. Serving(call[t].context)
  BY <1>2 DEF ServeInv, ActivationsPend, Pending, ContextActivated, Activated, Answered
<1>5. ActiveServed'
  BY <1>4 DEF ActiveServed, Serving, ContextActivated, gatewayVars, vendorVars, ownerVars
<1> QED BY <1>1, <1>3, <1>5 DEF ServeInv, LockHeld, ActivationsPend, Activating

\* The first step of an admission, with and without an owner.
LEMMA OpenKeepsServing ==
  ASSUME OpInv, ServeInv, NEW t \in Callers, NEW r \in Contexts, OpenContext(t, r)
  PROVE  ServeInv'
<1>1. /\ t \in Threads /\ active = NoContext /\ active' = active
      /\ \A s \in Threads : call[s].pc \notin Activating
  BY UnlockedIsIdle DEF OpenContext, AdmitsContext, Threads
<1>2. CASE started
  <2>1. SubmitActivate(t, r)
    BY <1>2 DEF OpenContext
  <2> QED BY <1>1, <2>1, ActivateKeepsServing
<1>3. CASE ~started
  <2>1. BuildOwner(t, r)
    BY <1>3 DEF OpenContext
  <2> QED BY <1>1, <2>1, BuildKeepsServing
<1> QED BY <1>2, <1>3

\* The second step of a first admission.
LEMMA StartedKeepsServing ==
  ASSUME OpInv, ServeInv, NEW t \in Callers, SessionStarted(t)
  PROVE  ServeInv'
<1>1. t \in Threads /\ call[t].pc \in Activating
  BY DEF SessionStarted, Activating, Threads
<1>2. /\ active = NoContext /\ active' = active /\ call[t].context \in Contexts
      /\ \A s \in Threads : s # t => call[s].pc \notin Activating
  BY <1>1 DEF ServeInv, LockHeld, SessionStarted
<1>3. SubmitActivate(t, call[t].context)
  BY DEF SessionStarted
<1> QED BY <1>1, <1>2, <1>3, ActivateKeepsServing

\* After a restart nobody waits and nothing is active.
LEMMA RestartKeepsServing ==
  ASSUME Restart
  PROVE  ServeInv'
<1>1. \A t \in Threads : call'[t] = Idle
  BY DEF Restart
<1>2. CallsShaped' /\ LockHeld' /\ ActivationsPend'
  BY <1>1, IdleIsPlain DEF Restart, CallsShaped, LockHeld, ActivationsPend, Activating
<1> QED BY <1>2 DEF Restart, ActiveServed, ServeInv
\* What is served over each action of the session.
LEMMA StepKeepsServing ==
  ASSUME OpInv, VisitInv, ServeInv, [SessionNext]_sessionVars
  PROVE  ServeInv'
<1> USE DEF Threads
<1>1. CASE UNCHANGED sessionVars
  BY <1>1, FrameKeeps DEF sessionVars, controllerVars, flowVars, gatewayVars, Plain, Quiet, ServeInv,
                          CallsShaped
<1>2. ASSUME NEW t \in Callers, NEW r \in Contexts, OpenContext(t, r) PROVE ServeInv'
  BY <1>2, OpenKeepsServing
<1>3. ASSUME NEW t \in Callers, NEW key \in FlowKeys, CallLoadFlow(t, key) PROVE ServeInv'
  <2> DEFINE x == [Idle EXCEPT !.pc = "called", !.key = key]
  <2>1. x.pc \notin Activating /\ DOMAIN x = CallFields
    BY DEF Idle, Activating, CallFields
  <2>2. /\ Plain /\ active' = active /\ holder' = holder
        /\ call' = [call EXCEPT ![t] = x]
    BY <1>3 DEF CallLoadFlow, controllerVars, gatewayVars, Plain, Quiet
  <2> HIDE DEF x
  <2> QED BY <2>1, <2>2, MoveKeeps
<1>4. ASSUME NEW t \in Callers, SessionStarted(t) PROVE ServeInv'
  BY <1>4, StartedKeepsServing
<1>5. ASSUME NEW t \in Callers, StartFails(t) PROVE ServeInv'
  <2>1. /\ Plain /\ active' = active /\ call[t].pc \in Activating
        /\ call' = [call EXCEPT ![t] = Idle]
    BY <1>5 DEF StartFails, Returns, Plain, Quiet, Activating
  <2> QED BY <2>1, IdleIsPlain, MoveKeeps
<1>6. ASSUME NEW t \in Callers, ContextActivated(t) PROVE ServeInv'
  BY <1>6, ActivatedKeepsServing
<1>7. ASSUME NEW t \in Callers, ActivationFails(t) PROVE ServeInv'
  <2>1. /\ Plain /\ active' = active /\ call[t].pc \in Activating
        /\ call' = [call EXCEPT ![t] = Idle]
    BY <1>7 DEF ActivationFails, Returns, Plain, Quiet, gatewayVars, Activating
  <2> QED BY <2>1, IdleIsPlain, MoveKeeps
<1>8. ASSUME NEW t \in Callers, BeginLoadFlow(t) PROVE ServeInv'
  <2>1. Quiet /\ active' = active /\ holder' = holder
    BY <1>8 DEF BeginLoadFlow, controllerVars, Quiet
  <2>2. CASE context = Extracted
    <3> DEFINE k == <<"execute", call[t].key>>
               r == [context |-> context, key |-> call[t].key]
               next == [call[t] EXCEPT !.pc = "execute", !.context = context]
    <3>1. k[1] \notin Activating /\ next.pc \notin Activating /\ DOMAIN next = CallFields
      BY DEF ServeInv, CallsShaped, Activating, CallFields
    <3>2. SubmitOrRaise(t, k, r, next)
      BY <1>8, <2>2 DEF BeginLoadFlow, SubmitExecute
    <3> HIDE DEF k, r, next
    <3>3. Plain /\ \E x : /\ call' = [call EXCEPT ![t] = x]
                          /\ x.pc \notin Activating /\ DOMAIN x = CallFields
      BY <2>1, <3>1, <3>2, SubmitOrRaiseMoves
    <3> QED BY <2>1, <3>3, MoveKeeps
  <2>3. CASE context # Extracted
    <3>1. Plain /\ call' = [call EXCEPT ![t] = Idle]
      BY <1>8, <2>1, <2>3 DEF BeginLoadFlow, Returns, Plain
    <3> QED BY <2>1, <3>1, IdleIsPlain, MoveKeeps
  <2> QED BY <2>2, <2>3
<1>9. ASSUME NEW t \in Callers, LoadFlowStep(t) PROVE ServeInv'
  <2>1. FlowStep(t) /\ active' = active /\ holder' = holder
    BY <1>9 DEF LoadFlowStep, controllerVars
  <2>2. Plain /\ \E x : /\ call' = [call EXCEPT ![t] = x]
                        /\ x.pc \notin Activating /\ DOMAIN x = CallFields
    BY <2>1, FlowStepMoves DEF ServeInv
  <2> QED BY <2>1, <2>2, MoveKeeps
<1>10. CASE BeginShutdown
  <2> DEFINE x == [call[Closer] EXCEPT !.pc = "closing"]
  <2>1. DOMAIN x = CallFields /\ x.pc \notin Activating
    BY DEF ServeInv, CallsShaped, Activating, CallFields
  <2>2. /\ Plain /\ active' = active /\ holder' = holder
        /\ call' = [call EXCEPT ![Closer] = x]
    BY <1>10 DEF BeginShutdown, gatewayVars, Plain, Quiet
  <2> HIDE DEF x
  <2> QED BY <2>1, <2>2, MoveKeeps
<1>11. CASE SubmitClose
  <2> DEFINE k == FreshKey("close")
             x == [call[Closer] EXCEPT !.pc = "close", !.op = k]
  <2>1. Quiet /\ active' = active /\ holder' = holder
    BY <1>11 DEF SubmitClose, controllerVars, Quiet
  <2>2. CASE Returns(Closer)
    <3>1. Plain /\ call' = [call EXCEPT ![Closer] = Idle]
      BY <1>11, <2>1, <2>2 DEF SubmitClose, Returns, Plain, Enqueue, Known, Submits, FreshKey, Activating
    <3> QED BY <2>1, <3>1, IdleIsPlain, MoveKeeps
  <2>3. CASE Enqueue(k, <<>>) /\ Waits(Closer, "close", k)
    <3>1. Plain
      BY <2>1, <2>3 DEF Plain, Enqueue, Known, Submits, FreshKey, Activating
    <3>2. call' = [call EXCEPT ![Closer] = x]
      BY <2>3 DEF Waits
    <3>3. DOMAIN x = CallFields /\ x.pc \notin Activating
      BY DEF ServeInv, CallsShaped, Activating, CallFields
    <3> HIDE DEF x
    <3> QED BY <2>1, <3>1, <3>2, <3>3, MoveKeeps
  <2> QED BY <1>11, <2>2, <2>3 DEF SubmitClose
<1>12. CASE FinishClose
  <2>1. /\ Plain /\ active' = active /\ holder' = holder
        /\ call' = [call EXCEPT ![Closer] = Idle]
    BY <1>12 DEF FinishClose, controllerVars, Returns, Plain, Quiet
  <2> QED BY <2>1, IdleIsPlain, MoveKeeps
<1>13. CASE OwnerServes
  BY <1>13, FrameKeeps DEF OwnerServes, controllerVars, Plain, ServeInv, CallsShaped
<1>14. CASE OwnerStops \/ QueueExpires
  BY <1>14, FrameKeeps DEF OwnerStops, QueueExpires, controllerVars, Plain, Stops, Quiet, ServeInv,
                           CallsShaped
<1>15. CASE Restart
  BY <1>15, RestartKeepsServing
<1> QED BY <1>1, <1>2, <1>3, <1>4, <1>5, <1>6, <1>7, <1>8, <1>9, <1>10, <1>11, <1>12, <1>13,
           <1>14, <1>15 DEF SessionNext, Proceeds

\* At first nobody waits and nothing is active.
LEMMA ServingAtFirst == SessionInit => ServeInv
  BY IdleIsPlain DEF SessionInit, ServeInv, CallsShaped, LockHeld, ActivationsPend, ActiveServed,
                     Activating

LEMMA ServingInvariant == SessionSpec => []ServeInv
<1>1. OpInv /\ VisitInv /\ [SessionNext]_sessionVars => VisitInv'
  BY StepIsGatewayStep, StepKeepsVisit
<1>2. OpInv /\ VisitInv /\ ServeInv /\ [SessionNext]_sessionVars => ServeInv'
  BY StepKeepsServing
<1> QED BY <1>1, <1>2, TableInvariant, VisitAtFirst, ServingAtFirst, PTL DEF SessionSpec

\* What the session takes for active is active in the engine, over activations that were
\* given up and are performed late, cancelled or hung operations, a close that runs
\* beside a tool, and restarts (SessionController.open_project_context, submit).
THEOREM SessionServesActive == SessionSpec => []EngineServesTheSession
<1>1. ServeInv => EngineServesTheSession
  BY DEF ServeInv, ActiveServed, Serving, EngineServesTheSession
<1> QED BY <1>1, ServingInvariant, PTL

-----------------------------------------------------------------------------
(* What a row tells for good.                                              *)

\* What a running owner has queued waits; what another has may be in a call that was
\* given up.
Unsettled == \A i \in DOMAIN queue :
  IF owner = "running" THEN State(queue[i]) = "waiting"
                       ELSE State(queue[i]) \in {"waiting", "unknown"}

\* The keys of starts are numbered as they are drawn.
StartsNumbered == \A k \in OfKind("start") :
  \E n \in Nat : k = <<"start", n>> /\ n < Cardinality(OfKind("start"))

FinalInv == Unsettled /\ StartsNumbered

\* Every row there is goes on, with its request, and its outcome if it has one.
OutcomesStay == \A k \in DOMAIN operation :
  /\ k \in DOMAIN operation'
  /\ operation'[k].request = operation[k].request
  /\ Settled(k) => operation'[k].state = State(k) /\ operation'[k].result = Result(k)

\* What a step of the session is to the owner and its table.
OwnerStep ==
  \/ UNCHANGED ownerVars
  \/ \E k, r : k[1] # "start" /\ Submits(k, r) /\ UNCHANGED owner
  \/ \E s : s # "running" /\ ShutdownSerialization(s)
  \/ Builds
  \/ /\ queue # <<>>
     /\ \E state, x : state \in {"done", "unknown"} /\ Concludes(NextServed, state, x)
  \/ \E i \in DOMAIN queue : CancelQueued(i)
  \/ queue # <<>> /\ Quarantine(NextServed)
  \/ /\ operation' = Cancelled \/ (queue # <<>> /\ operation' = Orphans(NextServed))
     /\ queue' = <<>>

\* A row that is submitted is new, or nothing happens to the table.
LEMMA EnqueueIsOwnerStep ==
  ASSUME NEW k, NEW r, k[1] # "start", Enqueue(k, r)
  PROVE  OwnerStep
  BY DEF Enqueue, Submits, Known, OwnerStep

LEMMA SubmitOrRaiseIsOwnerStep ==
  ASSUME NEW t, NEW k, NEW r, NEW next, k[1] # "start", SubmitOrRaise(t, k, r, next)
  PROVE  OwnerStep
<1>1. UNCHANGED ownerVars => OwnerStep
  BY DEF OwnerStep
<1> QED BY <1>1, EnqueueIsOwnerStep DEF SubmitOrRaise

LEMMA FlowStepIsOwnerStep ==
  ASSUME NEW t, FlowStep(t)
  PROVE  OwnerStep
<1>1. CASE ExecuteLost(t) \/ ResultsLost(t)
  BY <1>1 DEF ExecuteLost, ResultsLost, gatewayVars, OwnerStep
<1>2. CASE SubmitLogs(t)
  BY <1>2, SubmitOrRaiseIsOwnerStep DEF SubmitLogs
<1>3. \A n : ResultsKey(t, n)[1] # "start"
  BY DEF ResultsKey
<1>4. UNCHANGED ownerVars => OwnerStep
  BY DEF OwnerStep
<1>5. CASE AfterLogs(t)
  BY <1>3, <1>4, <1>5, SubmitOrRaiseIsOwnerStep DEF AfterLogs
<1>6. CASE TakePage(t)
  BY <1>3, <1>4, <1>6, SubmitOrRaiseIsOwnerStep DEF TakePage, gatewayVars
<1> QED BY <1>1, <1>2, <1>5, <1>6 DEF FlowStep

\* A handler concludes the row of its operation.
LEMMA ServeConcludes ==
  ASSUME OpInv, queue # <<>>, Serve(NextServed)
  PROVE  \E state, x : state \in {"done", "unknown"} /\ Concludes(NextServed, state, x)
<1> DEFINE k == NextServed
<1>1. k[1] \in Kinds
  BY HeadOfQueue DEF OpInv, RowsShaped
<1>2. (\E x : Done(k, x)) \/ Raised(k)
  <2>2. CASE k[1] = "start"
    BY <2>2 DEF Serve, StartSession
  <2>3. CASE k[1] = "activate"
    BY <2>3 DEF Serve, ActivateContext
  <2>4. CASE k[1] = "execute"
    BY <2>4 DEF Serve, ExecuteCommand
  <2>5. CASE k[1] = "results"
    BY <2>5 DEF Serve, CollectResults
  <2>6. CASE k[1] = "logs"
    BY <2>6 DEF Serve, ReadLogs
  <2>7. CASE k[1] = "close"
    BY <2>7 DEF Serve, CloseSession
  <2> QED BY <1>1, <2>2, <2>3, <2>4, <2>5, <2>6, <2>7 DEF Kinds
<1> QED BY <1>2 DEF Done, Raised

LEMMA StepIsOwnerStep ==
  ASSUME OpInv, [SessionNext]_sessionVars
  PROVE  OwnerStep
<1>1. UNCHANGED ownerVars => OwnerStep
  BY DEF OwnerStep
<1>2. CASE UNCHANGED sessionVars
  BY <1>1, <1>2 DEF sessionVars, flowVars, gatewayVars
<1>3. ASSUME NEW t \in Callers, NEW r, SubmitActivate(t, r) PROVE OwnerStep
  <2>1. FreshKey("activate")[1] # "start"
    BY DEF FreshKey
  <2> QED BY <1>3, <2>1, SubmitOrRaiseIsOwnerStep DEF SubmitActivate
<1>4. ASSUME NEW t \in Callers, NEW r \in Contexts, OpenContext(t, r) PROVE OwnerStep
  <2>1. CASE started
    BY <1>3, <1>4, <2>1 DEF OpenContext
  <2>2. CASE ~started
    BY <1>4, <2>2 DEF OpenContext, BuildOwner, Builds, OwnerStep
  <2> QED BY <2>1, <2>2
<1>5. ASSUME NEW t \in Callers, NEW key \in FlowKeys, CallLoadFlow(t, key) PROVE OwnerStep
  BY <1>1, <1>5 DEF CallLoadFlow, gatewayVars
<1>6. ASSUME NEW t \in Callers, SessionStarted(t) PROVE OwnerStep
  BY <1>3, <1>6 DEF SessionStarted
<1>7. ASSUME NEW t \in Callers, StartFails(t) PROVE OwnerStep
  BY <1>7 DEF StartFails, OwnerStep
<1>8. ASSUME NEW t \in Callers, ContextActivated(t) \/ ActivationFails(t) PROVE OwnerStep
  BY <1>1, <1>8 DEF ContextActivated, ActivationFails, gatewayVars
<1>9. ASSUME NEW t \in Callers, BeginLoadFlow(t) PROVE OwnerStep
  <2>1. <<"execute", call[t].key>>[1] # "start"
    OBVIOUS
  <2>2. CASE context = Extracted
    <3>1. SubmitExecute(t, context)
      BY <1>9, <2>2 DEF BeginLoadFlow
    <3> QED BY <2>1, <3>1, SubmitOrRaiseIsOwnerStep DEF SubmitExecute
  <2>3. CASE context # Extracted
    BY <1>1, <1>9, <2>3 DEF BeginLoadFlow
  <2> QED BY <2>2, <2>3
<1>10. ASSUME NEW t \in Callers, LoadFlowStep(t) PROVE OwnerStep
  BY <1>10, FlowStepIsOwnerStep DEF LoadFlowStep
<1>11. CASE BeginShutdown
  BY <1>1, <1>11 DEF BeginShutdown, gatewayVars
<1>12. CASE SubmitClose
  <2>1. FreshKey("close")[1] # "start"
    BY DEF FreshKey
  <2>2. ShutdownSerialization("closed") => OwnerStep
    BY DEF OwnerStep
  <2> QED BY <1>1, <1>12, <2>1, <2>2, EnqueueIsOwnerStep DEF SubmitClose
<1>13. CASE FinishClose
  BY <1>13 DEF FinishClose, OwnerStep
<1>14. CASE OwnerServes
  BY <1>14, ServeConcludes DEF OwnerServes, OwnerStep
<1>15. CASE OwnerStops \/ QueueExpires
  BY <1>15 DEF OwnerStops, QueueExpires, OwnerStep
<1>16. CASE Restart
  <2>1. operation' = Cancelled \/ (queue # <<>> /\ EndsInCall(NextServed))
    BY <1>16 DEF Restart
  <2>2. EndsInCall(NextServed) => operation' = Orphans(NextServed)
    BY DEF EndsInCall
  <2>3. queue' = <<>>
    BY <1>16 DEF Restart
  <2> QED BY <2>1, <2>2, <2>3 DEF OwnerStep
<1> QED BY <1>2, <1>4, <1>5, <1>6, <1>7, <1>8, <1>9, <1>10, <1>11, <1>12, <1>13, <1>14,
           <1>15, <1>16 DEF SessionNext, Proceeds

\* The key drawn for a start is new, and keeps the numbers of the starts in order.
LEMMA StartIsNew ==
  ASSUME OpInv, StartsNumbered
  PROVE  FreshKey("start") \notin DOMAIN operation
<1>1. Cardinality(OfKind("start")) \in Nat
  BY FS_Subset, FS_CardinalityType DEF OpInv, Numbered, OfKind
<1>2. FreshKey("start") = <<"start", Cardinality(OfKind("start"))>>
  BY DEF FreshKey, OfKind
<1>3. FreshKey("start") \in DOMAIN operation => FreshKey("start") \in OfKind("start")
  BY <1>2 DEF OfKind
<1> QED BY <1>1, <1>2, <1>3 DEF StartsNumbered

LEMMA StartsGoOn ==
  ASSUME OpInv, StartsNumbered, NEW k, DOMAIN operation' = DOMAIN operation \cup {k},
         k[1] = "start" => k = FreshKey("start")
  PROVE  StartsNumbered'
<1>1. IsFiniteSet(OfKind("start")) /\ Cardinality(OfKind("start")) \in Nat
  BY FS_Subset, FS_CardinalityType DEF OpInv, Numbered, OfKind
<1>2. CASE k[1] = "start"
  <2> DEFINE n == Cardinality(OfKind("start"))
  <2>1. k = <<"start", n>>
    BY <1>2 DEF FreshKey, OfKind
  <2>2. OfKind("start")' = OfKind("start") \cup {k} /\ k \notin OfKind("start")
    BY <1>2, StartIsNew DEF OfKind
  <2>3. Cardinality(OfKind("start")') = n + 1
    BY <1>1, <2>2, FS_AddElement
  <2> QED BY <1>1, <2>1, <2>2, <2>3 DEF StartsNumbered
<1>3. CASE k[1] # "start"
  <2>1. OfKind("start")' = OfKind("start")
    BY <1>3 DEF OfKind
  <2> QED BY <2>1 DEF StartsNumbered
<1> QED BY <1>2, <1>3

\* A table without new rows, of which those that are queued have no outcome.
LEMMA RowsEnd ==
  ASSUME OpInv, FinalInv, DOMAIN operation' = DOMAIN operation,
         \A k \in DOMAIN operation :
           /\ operation'[k].request = operation[k].request
           /\ Settled(k) => operation'[k].state = State(k) /\ operation'[k].result = Result(k)
  PROVE  OutcomesStay /\ StartsNumbered'
<1>1. OfKind("start")' = OfKind("start")
  BY DEF OfKind
<1> QED BY <1>1 DEF OutcomesStay, FinalInv, StartsNumbered

\* What each step of the owner keeps.
LEMMA OwnerStepKeepsOutcomes ==
  ASSUME OpInv, FinalInv, OwnerStep
  PROVE  OutcomesStay /\ FinalInv'
<1>1. CASE UNCHANGED ownerVars
  BY <1>1 DEF ownerVars, OutcomesStay, FinalInv, Unsettled, StartsNumbered, OfKind, State, Result
<1>2. CASE \E k, r : k[1] # "start" /\ Submits(k, r) /\ UNCHANGED owner
  <2>1. PICK k, r : k[1] # "start" /\ Submits(k, r) /\ UNCHANGED owner
    BY <1>2
  <2>2. /\ DOMAIN operation' = DOMAIN operation \cup {k}
        /\ operation'[k].state = "waiting"
        /\ \A x \in DOMAIN operation : operation'[x] = operation[x]
    <3>1. operation' = With(k, r) /\ k \notin DOMAIN operation
      BY <2>1 DEF Submits
    <3> QED BY <3>1, WithAdds
  <2>3. OutcomesStay
    BY <2>2 DEF OutcomesStay, State, Result
  <2>4. StartsNumbered'
    BY <2>1, <2>2, StartsGoOn DEF FinalInv
  <2>5. ASSUME NEW i \in DOMAIN queue'
        PROVE  \/ queue'[i] = k
               \/ i \in DOMAIN queue /\ queue'[i] = queue[i] /\ queue[i] \in DOMAIN operation
    BY <2>1 DEF Submits, OpInv, Queued
  <2>6. Unsettled'
    BY <2>1, <2>2, <2>5 DEF FinalInv, Unsettled, State
  <2> QED BY <2>3, <2>4, <2>6 DEF FinalInv
<1>3. CASE \E s : s # "running" /\ ShutdownSerialization(s)
  <2>1. /\ DOMAIN Cancelled = DOMAIN operation
        /\ \A k \in DOMAIN operation :
             /\ Cancelled[k].request = operation[k].request
             /\ Settled(k) => Cancelled[k] = operation[k]
    BY CancelledRewrites DEF Cancelled, Settled, State
  <2>2. OutcomesStay /\ StartsNumbered'
    BY <1>3, <2>1, RowsEnd DEF ShutdownSerialization, State, Result
  <2>3. owner' # "running"
    BY <1>3 DEF ShutdownSerialization
  <2>4. ASSUME NEW i \in DOMAIN queue' PROVE operation'[queue'[i]].state = "unknown"
    <3>1. queue # <<>> /\ Settled(NextServed) /\ queue' = <<NextServed>>
      BY <1>3, <2>4 DEF ShutdownSerialization, Hangs
    <3>2. NextServed \in DOMAIN operation /\ State(NextServed) = "unknown"
      BY <3>1, HeadOfQueue DEF FinalInv, Unsettled, Settled
    <3> QED BY <1>3, <2>1, <3>1, <3>2 DEF ShutdownSerialization, State
  <2>5. Unsettled'
    BY <2>3, <2>4 DEF Unsettled, State
  <2> QED BY <2>2, <2>5 DEF FinalInv
<1>4. CASE Builds
  <2> DEFINE k == FreshKey("start")
  <2>1. k \notin DOMAIN operation
    BY StartIsNew DEF FinalInv
  <2>2. /\ DOMAIN operation' = DOMAIN operation \cup {k}
        /\ operation'[k].state = "waiting"
        /\ \A x \in DOMAIN operation : operation'[x] = operation[x]
    <3>1. PICK r : operation' = With(k, r)
      BY <1>4 DEF Builds
    <3> HIDE DEF k
    <3> QED BY <2>1, <3>1, WithAdds
  <2>3. OutcomesStay
    BY <2>2 DEF OutcomesStay, State, Result
  <2>4. StartsNumbered'
    BY <2>2, StartsGoOn DEF FinalInv
  <2>5. \A i \in DOMAIN queue' : queue'[i] = k
    BY <1>4 DEF Builds
  <2>6. Unsettled'
    BY <2>2, <2>5 DEF Unsettled, State
  <2> QED BY <2>3, <2>4, <2>6 DEF FinalInv
<1>5. CASE /\ queue # <<>>
           /\ \E state, x : state \in {"done", "unknown"} /\ Concludes(NextServed, state, x)
  <2>1. /\ DOMAIN operation' = DOMAIN operation
        /\ \A k \in DOMAIN operation :
             /\ operation'[k].request = operation[k].request
             /\ Settled(k) \/ k # NextServed => operation'[k] = operation[k]
    BY <1>5, ConcludesRewrites DEF Concludes, Rewrites
  <2>2. OutcomesStay /\ StartsNumbered'
    BY <2>1, RowsEnd DEF State, Result
  <2>3. ASSUME NEW i \in DOMAIN queue'
        PROVE  /\ i + 1 \in DOMAIN queue /\ queue'[i] = queue[i + 1]
               /\ queue'[i] # NextServed /\ queue'[i] \in DOMAIN operation
    BY <1>5, HeadOfQueue DEF Concludes, OpInv, Queued
  <2>4. UNCHANGED owner
    BY <1>5 DEF Concludes
  <2>5. Unsettled'
    BY <2>1, <2>3, <2>4 DEF FinalInv, Unsettled, State
  <2> QED BY <2>2, <2>5 DEF FinalInv
<1>6. CASE queue # <<>> /\ Quarantine(NextServed)
  <2>1. NextServed \in DOMAIN operation /\ State(NextServed) = "waiting"
    BY <1>6, HeadOfQueue DEF Quarantine, Settled
  <2>2. /\ DOMAIN operation' = DOMAIN operation
        /\ operation'[NextServed].request = operation[NextServed].request
        /\ operation'[NextServed].state = "unknown"
        /\ \A k \in DOMAIN operation : k # NextServed => operation'[k] = operation[k]
    BY <1>6, <2>1 DEF Quarantine, OpInv, RowsShaped, RowFields
  <2>3. OutcomesStay /\ StartsNumbered'
    BY <2>1, <2>2, RowsEnd DEF State, Result, Settled
  <2>4. queue' = queue /\ owner' = "quarantined" /\ \A i \in DOMAIN queue : queue[i] \in DOMAIN operation
    BY <1>6 DEF Quarantine, OpInv, Queued
  <2>5. Unsettled'
    BY <1>6, <2>2, <2>4 DEF FinalInv, Unsettled, State
  <2> QED BY <2>3, <2>5 DEF FinalInv
<1>8. CASE \E i \in DOMAIN queue : CancelQueued(i)
  <2>1. PICK i \in DOMAIN queue : CancelQueued(i)
    BY <1>8
  <2>2. /\ queue[i] \in DOMAIN operation /\ State(queue[i]) = "waiting"
        /\ operation' = [operation EXCEPT ![queue[i]].state = "cancelled"]
        /\ UNCHANGED owner
        /\ \A j \in DOMAIN queue' : \E n \in DOMAIN queue : n # i /\ queue'[j] = queue[n]
    BY <2>1, CancelTakesOne
  <2>3. /\ DOMAIN operation' = DOMAIN operation
        /\ operation'[queue[i]].request = operation[queue[i]].request
        /\ \A k \in DOMAIN operation : k # queue[i] => operation'[k] = operation[k]
    BY <2>2 DEF OpInv, RowsShaped, RowFields
  <2>4. OutcomesStay /\ StartsNumbered'
    BY <2>2, <2>3, RowsEnd DEF State, Result, Settled
  <2>5. ASSUME NEW j \in DOMAIN queue'
        PROVE  \E n \in DOMAIN queue : operation'[queue'[j]].state = State(queue[n])
    BY <2>2, <2>3 DEF OpInv, Queued, State
  <2>6. Unsettled'
    BY <2>2, <2>5 DEF FinalInv, Unsettled, State
  <2> QED BY <2>4, <2>6 DEF FinalInv
<1>7. CASE /\ operation' = Cancelled \/ (queue # <<>> /\ operation' = Orphans(NextServed))
           /\ queue' = <<>>
  <2>1. /\ DOMAIN Cancelled = DOMAIN operation
        /\ \A k \in DOMAIN operation :
             /\ Cancelled[k].request = operation[k].request
             /\ Settled(k) => Cancelled[k] = operation[k]
    BY CancelledRewrites DEF Cancelled, Settled, State
  <2>2. CASE operation' = Cancelled
    <3>1. OutcomesStay /\ StartsNumbered'
      BY <2>1, <2>2, RowsEnd DEF State, Result
    <3> QED BY <1>7, <3>1 DEF FinalInv, Unsettled
  <2>3. CASE queue # <<>> /\ operation' = Orphans(NextServed)
    <3>1. NextServed \in DOMAIN operation /\ State(NextServed) \in {"waiting", "unknown"}
      BY <2>3, HeadOfQueue DEF FinalInv, Unsettled
    <3>2. /\ DOMAIN operation' = DOMAIN operation
          /\ operation'[NextServed].request = operation[NextServed].request
          /\ operation'[NextServed].state = "unknown"
          /\ operation'[NextServed].result = operation[NextServed].result
          /\ \A k \in DOMAIN operation : k # NextServed => operation'[k] = Cancelled[k]
      BY <2>3, <3>1 DEF Orphans, OpInv, RowsShaped, RowFields
    <3>3. OutcomesStay /\ StartsNumbered'
      BY <2>1, <3>1, <3>2, RowsEnd DEF State, Result, Settled
    <3> QED BY <1>7, <3>3 DEF FinalInv, Unsettled
  <2> QED BY <1>7, <2>2, <2>3
<1> QED BY <1>1, <1>2, <1>3, <1>4, <1>5, <1>6, <1>7, <1>8 DEF OwnerStep

\* A row of the session's owner is never lost or answered anew: its request stays, and
\* what settled it stays too, over late returns of calls that were given up, new owners
\* and restarts (OperationStore.admit, complete, fail; _start).
THEOREM SessionOutcomesAreFinal == SessionSpec => [][OutcomesStay]_sessionVars
<1>1. SessionInit => FinalInv
  BY DEF SessionInit, GatewayInit, OwnerInit, FinalInv, Unsettled, StartsNumbered, OfKind
<1>2. OpInv /\ FinalInv /\ [SessionNext]_sessionVars => OutcomesStay /\ FinalInv'
  BY StepIsOwnerStep, OwnerStepKeepsOutcomes
<1> QED BY <1>1, <1>2, TableInvariant, PTL DEF SessionSpec

\* A step executes nothing, or what is served, whose row then tells of it.
LEMMA StepExecutes ==
  ASSUME OpInv, FinalInv, [SessionNext]_sessionVars
  PROVE  \/ executed' = executed
         \/ /\ ExecutesServed
            /\ NextServed \in DOMAIN operation
            /\ operation'[NextServed].state \in {"done", "unknown"}
<1>1. GatewayStep
  BY StepIsGatewayStep
<1>2. CASE queue # <<>> /\ Serve(NextServed)
  <2>1. NextServed \in DOMAIN operation /\ DOMAIN operation[NextServed] = RowFields
    BY <1>2, HeadOfQueue DEF OpInv, RowsShaped
  <2>2. State(NextServed) \in {"waiting", "unknown"}
    BY <1>2, HeadOfQueue DEF FinalInv, Unsettled
  <2>3. PICK state, x : state \in {"done", "unknown"} /\ Concludes(NextServed, state, x)
    BY <1>2, ServeConcludes
  <2>4. operation'[NextServed].state \in {"done", "unknown"}
    BY <2>1, <2>2, <2>3 DEF Concludes, Settled, State, RowFields
  <2> QED BY <1>2, <2>1, <2>4, ServeExecutes
<1>3. CASE Restarts
  <2>1. CASE queue # <<>> /\ EndsInCall(NextServed)
    <3>1. NextServed \in DOMAIN operation /\ DOMAIN operation[NextServed] = RowFields
      BY <2>1, HeadOfQueue DEF OpInv, RowsShaped
    <3>2. operation'[NextServed].state = "unknown"
      BY <2>1, <3>1 DEF EndsInCall, Orphans, RowFields
    <3>3. CASE MayHaveExecuted(NextServed) /\ executed' = Append(executed, Request(NextServed).key)
      <4>1. NextServed = <<"execute", Request(NextServed).key>>
        BY <3>1, <3>3 DEF MayHaveExecuted, OpInv, RowsShaped, Request
      <4>2. \A i \in DOMAIN queue' : queue'[i] # NextServed
        BY <1>3 DEF Restarts
      <4> QED BY <2>1, <3>1, <3>2, <3>3, <4>1, <4>2 DEF ExecutesServed
    <3> QED BY <2>1, <3>3 DEF EndsInCall
  <2> QED BY <1>3, <2>1 DEF Restarts
<1> QED BY <1>1, <1>2, <1>3 DEF GatewayStep, Quiet, vendorVars, Builds

\* The row of a load flow that was calculated tells that it was, or that it may have been.
\* None says that it was cancelled or still waits, so that a caller who is told so may ask
\* again under a new key, whatever timed out, was given up or restarted meanwhile
\* (cancel_expired_queued, mark_engine_unresponsive, require_reconciliation,
\* reconcile_orphans).
ExecutionsAreOwned == \A e \in DOMAIN executed :
  /\ Known(<<"execute", executed[e]>>)
  /\ State(<<"execute", executed[e]>>) \in {"done", "unknown"}

THEOREM NoExecutionIsDenied == SessionSpec => []ExecutionsAreOwned
<1>1. SessionInit => FinalInv /\ ExecutionsAreOwned
  BY DEF SessionInit, GatewayInit, OwnerInit, VendorInit, FinalInv, Unsettled, StartsNumbered,
         OfKind, ExecutionsAreOwned
<1>2. ASSUME OpInv, FinalInv, ExecutionsAreOwned, [SessionNext]_sessionVars
      PROVE  FinalInv' /\ ExecutionsAreOwned'
  <2>1. OutcomesStay /\ FinalInv'
    BY <1>2, StepIsOwnerStep, OwnerStepKeepsOutcomes
  <2>2. ASSUME NEW e \in DOMAIN executed
        PROVE  LET k == <<"execute", executed[e]>> IN
               k \in DOMAIN operation' /\ operation'[k].state \in {"done", "unknown"}
    BY <1>2, <2>1 DEF ExecutionsAreOwned, OutcomesStay, Known, Settled, State
  <2>3. CASE executed' = executed
    BY <2>1, <2>2, <2>3 DEF ExecutionsAreOwned, Known, State
  <2>4. CASE /\ ExecutesServed
             /\ NextServed \in DOMAIN operation
             /\ operation'[NextServed].state \in {"done", "unknown"}
    <3>1. PICK key : NextServed = <<"execute", key>> /\ executed' = Append(executed, key)
      BY <2>4 DEF ExecutesServed
    <3>2. ASSUME NEW e \in DOMAIN executed'
          PROVE  executed'[e] = key \/ (e \in DOMAIN executed /\ executed'[e] = executed[e])
      BY <1>2, <3>1, <3>2 DEF OpInv, Performed
    <3>3. NextServed \in DOMAIN operation'
      BY <2>1, <2>4 DEF OutcomesStay
    <3> QED BY <2>1, <2>2, <2>4, <3>1, <3>2, <3>3 DEF ExecutionsAreOwned, Known, State
  <2> QED BY <1>2, <2>1, <2>3, <2>4, StepExecutes
<1> QED BY <1>1, <1>2, TableInvariant, PTL DEF SessionSpec

-----------------------------------------------------------------------------
(* What a thread waits for.                                                *)

RowStates == {"waiting", "done", "cancelled", "unknown"}
Waited == {"start", "activate", "execute", "logs", "results"}

StatesKnown == \A k \in DOMAIN operation : State(k) \in RowStates

\* Where a thread may be, and what it waits for there is a row.
PlaceKnown(t) == /\ t = Closer => call[t].pc \in {"idle", "closing", "close"}
                 /\ t # Closer => call[t].pc \in {"idle", "called"} \cup Waited
                 /\ call[t].pc \in Waited \cup {"close"} => Op(t) \in DOMAIN operation

PlacesKnown == \A t \in Threads : PlaceKnown(t)

LEMMA NewRowKeepsStates ==
  ASSUME StatesKnown, NEW k, NEW r, operation' = With(k, r)
  PROVE  StatesKnown'
<1>1. /\ DOMAIN operation' = DOMAIN operation \cup {k}
      /\ operation'[k].state = "waiting"
      /\ \A x \in DOMAIN operation : x # k => operation'[x] = operation[x]
  BY WithAdds
<1> QED BY <1>1 DEF StatesKnown, State, RowStates

\* The rows of the table are never in another state.
LEMMA OwnerStepKeepsStates ==
  ASSUME OpInv, StatesKnown, OwnerStep
  PROVE  StatesKnown'
<1>1. CASE UNCHANGED ownerVars
  BY <1>1 DEF ownerVars, StatesKnown, State
<1>2. CASE \E k, r : k[1] # "start" /\ Submits(k, r) /\ UNCHANGED owner
  <2>1. PICK k, r : operation' = With(k, r)
    BY <1>2 DEF Submits
  <2> QED BY <2>1, NewRowKeepsStates
<1>3. /\ DOMAIN Cancelled = DOMAIN operation
      /\ \A k \in DOMAIN operation : Cancelled[k].state \in RowStates
  BY DEF Cancelled, StatesKnown, State, RowStates, OpInv, RowsShaped, RowFields
<1>4. CASE operation' = Cancelled
  BY <1>3, <1>4 DEF StatesKnown, State
<1>5. CASE \E s : s # "running" /\ ShutdownSerialization(s)
  BY <1>4, <1>5 DEF ShutdownSerialization
<1>6. CASE Builds
  <2>1. PICK r : operation' = With(FreshKey("start"), r)
    BY <1>6 DEF Builds
  <2> QED BY <2>1, NewRowKeepsStates
<1>7. CASE /\ queue # <<>>
           /\ \E state, x : state \in {"done", "unknown"} /\ Concludes(NextServed, state, x)
  BY <1>7, HeadOfQueue DEF Concludes, OpInv, RowsShaped, RowFields, StatesKnown, State, RowStates
<1>8. CASE \E i \in DOMAIN queue : CancelQueued(i)
  BY <1>8, CancelTakesOne DEF OpInv, RowsShaped, RowFields, StatesKnown, State, RowStates
<1>9. CASE queue # <<>> /\ Quarantine(NextServed)
  BY <1>9, HeadOfQueue DEF Quarantine, OpInv, RowsShaped, RowFields, StatesKnown, State, RowStates
<1>10. CASE queue # <<>> /\ operation' = Orphans(NextServed)
  BY <1>3, <1>10 DEF Orphans, OpInv, RowsShaped, RowFields, StatesKnown, State, RowStates
<1> QED BY <1>1, <1>2, <1>4, <1>5, <1>6, <1>7, <1>8, <1>9, <1>10 DEF OwnerStep

\* A thread goes to a place it may be in, and the others stay.
LEMMA MoveKeepsPlaces ==
  ASSUME CallsShaped, PlacesKnown, NEW t \in Threads, NEW c,
         DOMAIN operation \subseteq DOMAIN operation',
         call' = [call EXCEPT ![t] = c],
         t = Closer => c.pc \in {"idle", "closing", "close"},
         t # Closer => c.pc \in {"idle", "called"} \cup Waited,
         c.pc \in Waited \cup {"close"} => c.op \in DOMAIN operation'
  PROVE  PlacesKnown'
  BY DEF CallsShaped, PlacesKnown, PlaceKnown, Op

LEMMA ReturnKeepsPlaces ==
  ASSUME CallsShaped, PlacesKnown, NEW t \in Threads, Returns(t),
         DOMAIN operation \subseteq DOMAIN operation'
  PROVE  PlacesKnown'
<1>1. Idle.pc = "idle" /\ Idle.pc \notin Waited \cup {"close"}
  BY DEF Idle, Waited
<1> QED BY <1>1, MoveKeepsPlaces DEF Returns

\* What was enqueued is known.
LEMMA EnqueuedIsKnown ==
  ASSUME NEW k, NEW r, Enqueue(k, r)
  PROVE  k \in DOMAIN operation'
  BY DEF Enqueue, Known, With, ownerVars

LEMMA SubmitKeepsPlaces ==
  ASSUME CallsShaped, PlacesKnown, NEW t \in Threads, t # Closer, NEW k, NEW r, NEW next,
         DOMAIN operation \subseteq DOMAIN operation',
         DOMAIN next = CallFields, next.pc \in Waited, SubmitOrRaise(t, k, r, next)
  PROVE  PlacesKnown'
<1>1. CASE Admits(k, r)
  <2> DEFINE c == [next EXCEPT !.op = k]
  <2>1. call' = [call EXCEPT ![t] = c] /\ k \in DOMAIN operation'
    BY <1>1, EnqueuedIsKnown DEF SubmitOrRaise
  <2>2. c.pc = next.pc /\ c.op = k
    BY DEF CallFields
  <2> HIDE DEF c
  <2> QED BY <2>1, <2>2, MoveKeepsPlaces
<1>2. CASE ~Admits(k, r)
  BY <1>2, ReturnKeepsPlaces DEF SubmitOrRaise
<1> QED BY <1>1, <1>2

LEMMA FlowStepKeepsPlaces ==
  ASSUME CallsShaped, PlacesKnown, NEW t \in Callers, FlowStep(t),
         DOMAIN operation \subseteq DOMAIN operation'
  PROVE  PlacesKnown'
<1>1. t \in Threads /\ t # Closer
  BY SessionAssumption DEF Threads
<1>2. DOMAIN call[t] = CallFields
  BY <1>1 DEF CallsShaped
<1>3. CASE ExecuteLost(t) \/ ResultsLost(t)
  BY <1>1, <1>3, ReturnKeepsPlaces DEF ExecuteLost, ResultsLost, Record
<1>4. CASE SubmitLogs(t)
  <2> DEFINE e == Result(Op(t)).execution
             next == [call[t] EXCEPT !.pc = "logs", !.execution = e]
  <2>1. SubmitOrRaise(t, <<"logs", call[t].key>>, [execution |-> e], next)
    BY <1>4 DEF SubmitLogs
  <2>2. DOMAIN next = CallFields /\ next.pc \in Waited
    BY <1>2 DEF CallFields, Waited
  <2> HIDE DEF next
  <2> QED BY <1>1, <2>1, <2>2, SubmitKeepsPlaces
<1>5. CASE AfterLogs(t)
  <2>1. CASE Returns(t)
    BY <1>1, <2>1, ReturnKeepsPlaces
  <2>2. CASE ~Returns(t)
    <3> DEFINE next == [call[t] EXCEPT !.pc = "results"]
    <3>1. SubmitOrRaise(t, ResultsKey(t, 0), ResultsRequest(t, <<>>), next)
      BY <1>5, <2>2 DEF AfterLogs, Record
    <3>2. DOMAIN next = CallFields /\ next.pc \in Waited
      BY <1>2 DEF CallFields, Waited
    <3> HIDE DEF next
    <3> QED BY <1>1, <3>1, <3>2, SubmitKeepsPlaces
  <2> QED BY <2>1, <2>2
<1>6. CASE TakePage(t)
  <2>1. CASE Returns(t)
    BY <1>1, <2>1, ReturnKeepsPlaces
  <2>2. CASE ~Returns(t)
    <3> DEFINE values == call[t].values \o Result(Op(t)).values
               page == [call[t] EXCEPT !.values = values]
    <3>1. \E k, r : SubmitOrRaise(t, k, r, page)
      BY <1>6, <2>2 DEF TakePage, Record
    <3>2. DOMAIN page = CallFields /\ page.pc \in Waited
      BY <1>2, <1>6 DEF TakePage, CallFields, Waited
    <3> HIDE DEF page
    <3> QED BY <1>1, <3>1, <3>2, SubmitKeepsPlaces
  <2> QED BY <2>1, <2>2
<1> QED BY <1>3, <1>4, <1>5, <1>6 DEF FlowStep

LEMMA ActivateKeepsPlaces ==
  ASSUME CallsShaped, PlacesKnown, NEW t \in Callers, NEW r, SubmitActivate(t, r),
         DOMAIN operation \subseteq DOMAIN operation'
  PROVE  PlacesKnown'
<1> DEFINE next == [Idle EXCEPT !.pc = "activate", !.context = r]
<1>1. SubmitOrRaise(t, FreshKey("activate"), [context |-> r], next)
  BY DEF SubmitActivate
<1>2. DOMAIN next = CallFields /\ next.pc \in Waited
  BY DEF Idle, CallFields, Waited
<1>3. t \in Threads /\ t # Closer
  BY SessionAssumption DEF Threads
<1> HIDE DEF next
<1> QED BY <1>1, <1>2, <1>3, SubmitKeepsPlaces

\* Where the threads are, over each step of the session that forgets no row.
LEMMA StepKeepsPlaces ==
  ASSUME CallsShaped, PlacesKnown, [SessionNext]_sessionVars,
         DOMAIN operation \subseteq DOMAIN operation'
  PROVE  PlacesKnown'
<1>1. /\ Closer \in Threads /\ Closer \notin Callers
      /\ \A t \in Callers : t \in Threads /\ t # Closer
  BY SessionAssumption DEF Threads
<1>2. UNCHANGED call => PlacesKnown'
  BY DEF PlacesKnown, PlaceKnown, Op
<1>3. CASE UNCHANGED sessionVars
  BY <1>2, <1>3 DEF sessionVars, flowVars
<1>4. ASSUME NEW t \in Callers, NEW r \in Contexts, OpenContext(t, r) PROVE PlacesKnown'
  <2>1. CASE started
    BY <1>4, <2>1, ActivateKeepsPlaces DEF OpenContext
  <2>2. CASE ~started
    <3> DEFINE k == FreshKey("start")
               c == [Idle EXCEPT !.pc = "start", !.op = k, !.context = r]
    <3>1. call' = [call EXCEPT ![t] = c] /\ operation' = With(k, r)
      BY <1>4, <2>2 DEF OpenContext, BuildOwner
    <3>2. k \in DOMAIN operation'
      BY <3>1 DEF With
    <3>3. c.pc = "start" /\ c.op = k
      BY DEF Idle
    <3> HIDE DEF c, k
    <3> QED BY <1>1, <3>1, <3>2, <3>3, MoveKeepsPlaces DEF Waited
  <2> QED BY <2>1, <2>2
<1>5. ASSUME NEW t \in Callers, NEW key \in FlowKeys, CallLoadFlow(t, key) PROVE PlacesKnown'
  <2> DEFINE c == [Idle EXCEPT !.pc = "called", !.key = key]
  <2>1. call' = [call EXCEPT ![t] = c]
    BY <1>5 DEF CallLoadFlow
  <2>2. c.pc = "called"
    BY DEF Idle
  <2> HIDE DEF c
  <2> QED BY <1>1, <2>1, <2>2, MoveKeepsPlaces DEF Waited
<1>6. ASSUME NEW t \in Callers, SessionStarted(t) PROVE PlacesKnown'
  BY <1>6, ActivateKeepsPlaces DEF SessionStarted
<1>7. ASSUME NEW t \in Callers, StartFails(t) \/ ContextActivated(t) \/ ActivationFails(t)
      PROVE  PlacesKnown'
  BY <1>1, <1>7, ReturnKeepsPlaces DEF StartFails, ContextActivated, ActivationFails
<1>8. ASSUME NEW t \in Callers, BeginLoadFlow(t) PROVE PlacesKnown'
  <2>1. CASE Returns(t)
    BY <1>1, <2>1, ReturnKeepsPlaces
  <2>2. CASE ~Returns(t)
    <3> DEFINE next == [call[t] EXCEPT !.pc = "execute", !.context = context]
    <3>1. \E k, r : SubmitOrRaise(t, k, r, next)
      BY <1>8, <2>2 DEF BeginLoadFlow, SubmitExecute
    <3>2. DOMAIN next = CallFields /\ next.pc \in Waited
      BY <1>1 DEF CallsShaped, CallFields, Waited
    <3> HIDE DEF next
    <3> QED BY <1>1, <3>1, <3>2, SubmitKeepsPlaces
  <2> QED BY <2>1, <2>2
<1>9. ASSUME NEW t \in Callers, LoadFlowStep(t) PROVE PlacesKnown'
  BY <1>9, FlowStepKeepsPlaces DEF LoadFlowStep
<1>10. CASE BeginShutdown
  <2> DEFINE c == [call[Closer] EXCEPT !.pc = "closing"]
  <2>1. call' = [call EXCEPT ![Closer] = c]
    BY <1>1, <1>10 DEF BeginShutdown, CallsShaped
  <2>2. c.pc = "closing"
    BY <1>1 DEF CallsShaped, CallFields
  <2> HIDE DEF c
  <2> QED BY <1>1, <2>1, <2>2, MoveKeepsPlaces DEF Waited
<1>11. CASE SubmitClose
  <2> DEFINE k == FreshKey("close")
  <2>1. CASE Returns(Closer)
    BY <1>1, <2>1, ReturnKeepsPlaces
  <2>2. CASE ~Returns(Closer)
    <3> DEFINE c == [call[Closer] EXCEPT !.pc = "close", !.op = k]
    <3>1. Enqueue(k, <<>>) /\ Waits(Closer, "close", k)
      BY <1>11, <2>2 DEF SubmitClose
    <3>2. k \in DOMAIN operation'
      BY <3>1, EnqueuedIsKnown
    <3>3. call' = [call EXCEPT ![Closer] = c]
      BY <1>1, <3>1 DEF Waits, CallsShaped
    <3>4. c.pc = "close" /\ c.op = k
      BY <1>1 DEF CallsShaped, CallFields
    <3> HIDE DEF c, k
    <3> QED BY <1>1, <3>2, <3>3, <3>4, MoveKeepsPlaces DEF Waited
  <2> QED BY <2>1, <2>2
<1>12. CASE FinishClose
  BY <1>1, <1>12, ReturnKeepsPlaces DEF FinishClose
<1>13. CASE OwnerServes \/ OwnerStops \/ QueueExpires
  BY <1>2, <1>13 DEF OwnerServes, OwnerStops, QueueExpires
<1>14. CASE Restart
  BY <1>14 DEF Restart, Idle, PlacesKnown, PlaceKnown, Waited
<1> QED BY <1>3, <1>4, <1>5, <1>6, <1>7, <1>8, <1>9, <1>10, <1>11, <1>12, <1>13, <1>14
        DEF SessionNext, Proceeds

\* A thread that was called is about to submit, or waits for a row: the row has answered
\* it, has denied it, or is waited for until the deadline passes.  The guards that
\* NoCallIsStuck looks at behind ENABLED: nobody waits for a row that was never stored,
\* or was lost with an owner, a restart or a shutdown (_await, shutdown_serialization).
EveryWaitEnds ==
  /\ \A t \in Callers : call[t].pc \notin {"idle", "called"} =>
       /\ call[t].pc \in Waited /\ Known(Op(t))
       /\ Answered(t) \/ Denied(t) \/ Unanswered(t)
  /\ call[Closer].pc \notin {"idle", "closing"} =>
       /\ call[Closer].pc = "close" /\ Known(Op(Closer))
       /\ Settled(Op(Closer)) \/ Unanswered(Closer)

THEOREM NoWaitIsLost == SessionSpec => []EveryWaitEnds
<1>1. SessionInit => FinalInv /\ StatesKnown /\ PlacesKnown
  BY DEF SessionInit, GatewayInit, OwnerInit, FinalInv, Unsettled, StartsNumbered, OfKind,
         StatesKnown, PlacesKnown, PlaceKnown, Idle, Waited
<1>2. ASSUME OpInv, ServeInv, FinalInv, StatesKnown, PlacesKnown, [SessionNext]_sessionVars
      PROVE  FinalInv' /\ StatesKnown' /\ PlacesKnown'
  <2>1. OwnerStep
    BY <1>2, StepIsOwnerStep
  <2>2. OutcomesStay /\ FinalInv'
    BY <1>2, <2>1, OwnerStepKeepsOutcomes
  <2>3. StatesKnown'
    BY <1>2, <2>1, OwnerStepKeepsStates
  <2>4. PlacesKnown'
    BY <1>2, <2>2, StepKeepsPlaces DEF OutcomesStay, ServeInv
  <2> QED BY <2>2, <2>3, <2>4
<1>3. StatesKnown /\ PlacesKnown => EveryWaitEnds
  BY SessionAssumption
     DEF StatesKnown, PlacesKnown, PlaceKnown, EveryWaitEnds, Threads, Known, Answered, Denied,
         Unanswered, Settled, RowStates, Waited, Op, State
<1> QED BY <1>1, <1>2, <1>3, TableInvariant, ServingInvariant, PTL DEF SessionSpec
==============================================================================
