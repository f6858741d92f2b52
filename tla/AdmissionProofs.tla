--------------------------- MODULE AdmissionProofs ---------------------------
(***************************************************************************)
(* The safety of the leases, the workflow commands, the approvals and the  *)
(* admission that joins them, for any number of workflows, requests,       *)
(* scopes, owners and operations, and any bounds.  First the types, store  *)
(* by store.                                                               *)
(*                                                                         *)
(* The properties are not inductive one by one.  IInv adds what each of    *)
(* them leans on: the counters bound the tokens of all leases issued, an   *)
(* authorization stands for an approval, and what an envelope names is     *)
(* where it says, in tables that only grow.                                *)
(***************************************************************************)
EXTENDS ExecutionAdmission, TLAPS

\* Every named transition leads from one workflow state to another.
LEMMA LegalStates ==
  \A name \in DOMAIN Legal : Legal[name][1] \in WorkflowState /\ Legal[name][2] \in WorkflowState
  BY DEF Legal, WorkflowState

\* A workflow moves to its next version, within the bound.
LEMMA MovesToTyped ==
  ASSUME WorkflowTypeOK, UNCHANGED clock, NEW w \in Workflows, Recorded(w),
         NEW state \in WorkflowState, NEW name \in DOMAIN Legal \cup {Admission},
         NEW expected \in Versions, MovesTo(w, state, name, expected)
  PROVE  WorkflowTypeOK'
  <1>1. workflow[w] \in WorkflowRecord
    BY DEF WorkflowTypeOK, Recorded
  <1>2. workflow[w].version + 1 \in Versions
    BY <1>1, WorkflowAssumption DEF WorkflowRecord, Versions, MovesTo
  <1>3. workflow' \in [Workflows -> WorkflowRecord \cup {Unrecorded}]
    BY <1>2 DEF WorkflowTypeOK, WorkflowRecord, MovesTo
  <1>4. [name |-> name, expected |-> expected, resulting |-> workflow[w].version + 1] \in Command
    BY <1>2 DEF Command
  <1>5. commands' \in [Workflows -> Seq(Command)]
    BY <1>4 DEF WorkflowTypeOK, MovesTo
  <1> QED
    BY <1>3, <1>5 DEF WorkflowTypeOK

LEMMA WorkflowStepTyped == TypeOK /\ WorkflowNext => WorkflowTypeOK'
  <1> SUFFICES ASSUME WorkflowTypeOK, WorkflowNext PROVE WorkflowTypeOK'
    BY DEF TypeOK
  <1>1. ASSUME NEW w \in Workflows, NEW state \in FirstStates, Record(w, state)
        PROVE  WorkflowTypeOK'
    <2>1. [state |-> state, version |-> 1] \in WorkflowRecord
      BY WorkflowAssumption DEF WorkflowRecord, Versions
    <2> QED
      BY <1>1, <2>1 DEF Record, WorkflowTypeOK
  <1>2. ASSUME NEW w \in Workflows, NEW name \in DOMAIN Legal, NEW v \in Versions,
               Transition(w, name, v)
        PROVE  WorkflowTypeOK'
    BY <1>2, LegalStates, MovesToTyped DEF Transition
  <1>3. ASSUME Tick PROVE WorkflowTypeOK'
    BY <1>3, WorkflowAssumption DEF Tick, WorkflowTypeOK, Times
  <1> QED
    BY <1>1, <1>2, <1>3 DEF WorkflowNext

-----------------------------------------------------------------------------
(* Leases.                                                                 *)

\* The row of a leased scope.
LEMMA LeasedRow ==
  ASSUME LeaseTypeOK, NEW s \in Scopes, Leased(s)
  PROVE  lease[s] \in ContextLease
  BY DEF LeaseTypeOK, Leased

\* A held scope is leased.
LEMMA HeldIsLeased ==
  ASSUME LeaseTypeOK, NEW s \in Scopes, Held(s)
  PROVE  Leased(s)
  BY DEF Held, Leased, Available, HELD_STATES

\* A new lease, if there is room for one more token.
LEMMA NewLeaseTyped ==
  ASSUME LeaseTypeOK, Len(granted) < MaxGrants,
         NEW s \in Scopes, counter[s] <= Len(granted), NEW w \in Workflows,
         NEW v \in Versions, NEW mode \in Modes, NEW o \in Owners, NEW expires \in Times
  PROVE  NewLease(s, w, v, mode, o, expires) \in ContextLease
  <1>1. Len(granted) + 1 \in 1..MaxGrants
    BY LeaseAssumption DEF LeaseTypeOK
  <1>2. MintToken(s) \in 1..MaxGrants
    BY LeaseAssumption DEF LeaseTypeOK, MintToken
  <1>3. HeldState(mode) \in LeaseStates
    BY DEF HeldState, Modes, LeaseStates, HELD_STATES
  <1> QED
    BY <1>1, <1>2, <1>3 DEF NewLease, ContextLease

\* Issuing a lease, with or without an operation in flight.
LEMMA IssueTyped ==
  ASSUME LeaseTypeOK, UNCHANGED sweep, NEW s \in Scopes, NEW l \in ContextLease,
         NEW op \in Operations \cup {NoOperation}, Issue(s, l, op)
  PROVE  LeaseTypeOK'
  <1>1. [l EXCEPT !.operation = op] \in ContextLease
    BY DEF ContextLease
  <1>2. l.token \in 0..MaxGrants
    BY DEF ContextLease
  <1> QED
    BY <1>1, <1>2 DEF LeaseTypeOK, Issue

\* What a lease becomes when it expires.
LEMMA ExpiredTyped ==
  ASSUME LeaseTypeOK, NEW s \in Scopes, Leased(s)
  PROVE  Expired(s) \in ContextLease \cup {Available}
  BY LeasedRow DEF Expired, ContextLease, LeaseStates

\* A step of the lease store, or of the sweep, leaves the rows typed.
LEMMA LeaseStepTyped ==
  ASSUME LeaseTypeOK, WorkflowTypeOK, \A s \in Scopes : counter[s] <= Len(granted),
         LeaseNext
  PROVE  LeaseTypeOK'
  <1>1. ASSUME NEW s \in Scopes, NEW at \in Past, NEW w \in Workflows, NEW mode \in Modes,
               NEW o \in Owners, NEW expires \in Times, Acquire(s, w, mode, o, at, expires)
        PROVE  LeaseTypeOK'
    <2>1. workflow[w].version \in Versions
      BY <1>1 DEF Acquire, Recorded, WorkflowTypeOK, WorkflowRecord
    <2>2. NewLease(s, w, workflow[w].version, mode, o, expires) \in ContextLease
      BY <1>1, <2>1, NewLeaseTyped DEF Acquire, Issue
    <2> QED
      BY <1>1, <2>2, IssueTyped DEF Acquire
  <1>2. ASSUME NEW s \in Scopes, NEW h \in ContextLease, NEW o \in Owners, NEW at \in Past,
               HolderNext(s, h, o, at)
        PROVE  LeaseTypeOK'
    <2>1. lease[s] \in ContextLease
      BY <1>2, HeldIsLeased, LeasedRow
      DEF HolderNext, StartAtomicCall, FinishAtomicCall, Release, HolderPasses
    <2>2. ASSUME NEW op \in Operations, StartAtomicCall(s, h, o, op, at) PROVE LeaseTypeOK'
      <3>1. [lease[s] EXCEPT !.operation = op] \in ContextLease
        BY <2>1 DEF ContextLease
      <3> QED
        BY <2>2, <3>1 DEF StartAtomicCall, LeaseTypeOK
    <2>3. ASSUME NEW op \in Operations, FinishAtomicCall(s, h, o, op, at) PROVE LeaseTypeOK'
      <3>1. [lease[s] EXCEPT !.operation = NoOperation] \in ContextLease
        BY <2>1 DEF ContextLease
      <3> QED
        BY <2>3, <3>1 DEF FinishAtomicCall, LeaseTypeOK
    <2>4. ASSUME NEW forAuthorization \in BOOLEAN, Release(s, h, o, at, forAuthorization)
          PROVE  LeaseTypeOK'
      BY <2>4 DEF Release, LeaseTypeOK
    <2> QED
      BY <1>2, <2>2, <2>3, <2>4 DEF HolderNext
  <1>3. ASSUME NEW s \in Scopes, NEW at \in Past, Expire(s, at) PROVE LeaseTypeOK'
    BY <1>3, HeldIsLeased, ExpiredTyped DEF Expire, Expirable, LeaseTypeOK
  <1>4. ASSUME NEW at \in Past, SweepReads(at) PROVE LeaseTypeOK'
    <2>1. at \in Times
      BY WorkflowAssumption DEF Past, Times, WorkflowTypeOK
    <2> QED
      BY <1>4, <2>1 DEF SweepReads, LeaseTypeOK
  <1>5. ASSUME NEW s \in Scopes, SweepExpires(s) PROVE LeaseTypeOK'
    <2>1. Idle \in [at : Times, left : SUBSET Scopes]
      BY WorkflowAssumption DEF Idle, Times
    <2>2. CASE Expirable(s, sweep.at)
      <3>1. Expired(s) \in ContextLease \cup {Available}
        BY <2>2, HeldIsLeased, ExpiredTyped DEF Expirable
      <3>2. [sweep EXCEPT !.left = @ \ {s}] \in [at : Times, left : SUBSET Scopes]
        BY DEF LeaseTypeOK
      <3> QED
        BY <1>5, <2>2, <3>1, <3>2 DEF SweepExpires, LeaseTypeOK
    <2>3. CASE ~Expirable(s, sweep.at)
      BY <1>5, <2>1, <2>3 DEF SweepExpires, LeaseTypeOK
    <2> QED
      BY <2>2, <2>3
  <1>6. ASSUME SweepEnds PROVE LeaseTypeOK'
    BY <1>6, WorkflowAssumption DEF SweepEnds, Idle, Times, LeaseTypeOK
  <1>7. \A i \in DOMAIN granted : granted[i] \in ContextLease
    BY DEF LeaseTypeOK
  <1> QED
    BY <1>1, <1>2, <1>3, <1>4, <1>5, <1>6, <1>7 DEF LeaseNext

-----------------------------------------------------------------------------
(* Approvals.                                                              *)

\* An authorization with a state, and nothing else, changed.
LEMMA SetAuthorizationTyped ==
  ASSUME ApprovalTypeOK, NEW r \in ApprovalRequests, authorization[r] # NotIssued,
         NEW state \in AuthorizationStates, SetAuthorization(r, state)
  PROVE  authorization' \in [ApprovalRequests ->
           [state : AuthorizationStates, expires : Times] \cup {NotIssued}]
  BY DEF ApprovalTypeOK, SetAuthorization

\* An authorization that has a state was issued.
LEMMA IssuedByState ==
  ASSUME NEW r \in ApprovalRequests, authorization[r].state \in AuthorizationStates
  PROVE  authorization[r] # NotIssued
  BY DEF NotIssued, AuthorizationStates

LEMMA ApprovalStepTyped ==
  ASSUME ApprovalTypeOK, WorkflowTypeOK, ApprovalNext
  PROVE  ApprovalTypeOK' /\ WorkflowTypeOK'
  <1> PICK r \in ApprovalRequests :
        \/ \E w \in Workflows, expires \in Times : CreateRequest(r, w, expires)
        \/ \E at \in Past :
             \/ \E expires \in Times : Approve(r, at, expires)
             \/ Refuse(r, at)
             \/ \E kind \in {"rejected", "cancelled"} : RejectOrCancel(r, at, kind)
             \/ ExpireRequest(r, at)
             \/ \E intact \in BOOLEAN : Admit(r, intact, at)
        \/ InvalidateAuthorization(r)
        \/ MarkConsumed(r)
    BY DEF ApprovalNext
  <1>1. ASSUME NEW w \in Workflows, NEW expires \in Times, CreateRequest(r, w, expires)
        PROVE  ApprovalTypeOK' /\ WorkflowTypeOK'
    <2>1. workflow[w].version \in Versions
      BY <1>1 DEF CreateRequest, WorkflowTypeOK, WorkflowRecord, Unrecorded
    <2> QED
      BY <1>1, <2>1 DEF CreateRequest, ApprovalFrame, ApprovalTypeOK, WorkflowTypeOK
  <1>2. ASSUME NEW at \in Past, NEW expires \in Times, Approve(r, at, expires)
        PROVE  ApprovalTypeOK' /\ WorkflowTypeOK'
    <2>1. [state |-> "issued", expires |-> expires] \in
            [state : AuthorizationStates, expires : Times]
      BY DEF AuthorizationStates
    <2>2. decision' \in [ApprovalRequests -> DecisionKinds \cup {"none"}]
      BY <1>2 DEF Approve, Decide, DecisionKinds, ApprovalTypeOK
    <2> QED
      BY <1>2, <2>1, <2>2 DEF Approve, ApprovalFrame, ApprovalTypeOK, WorkflowTypeOK
  <1>3. ASSUME NEW at \in Past, Refuse(r, at) PROVE ApprovalTypeOK' /\ WorkflowTypeOK'
    BY <1>3 DEF Refuse, ApprovalFrame, ApprovalTypeOK, WorkflowTypeOK
  <1>4. ASSUME NEW at \in Past, NEW kind \in {"rejected", "cancelled"},
               RejectOrCancel(r, at, kind)
        PROVE  ApprovalTypeOK' /\ WorkflowTypeOK'
    BY <1>4 DEF RejectOrCancel, Decide, DecisionKinds, ApprovalFrame, ApprovalTypeOK,
                WorkflowTypeOK
  <1>5. ASSUME NEW at \in Past, ExpireRequest(r, at) PROVE ApprovalTypeOK' /\ WorkflowTypeOK'
    BY <1>5 DEF ExpireRequest, Decide, DecisionKinds, ApprovalFrame, ApprovalTypeOK,
                WorkflowTypeOK
  <1>6. ASSUME NEW at \in Past, NEW intact \in BOOLEAN, Admit(r, intact, at)
        PROVE  ApprovalTypeOK' /\ WorkflowTypeOK'
    <2> DEFINE outcome == AdmissionOutcome(r, intact, at)
    <2>1. outcome \in AdmissionStatuses
      BY DEF AdmissionOutcome, AdmissionStatuses
    <2>2. (IF outcome = "admitted" THEN "consuming" ELSE outcome) \in AuthorizationStates
      BY <2>1 DEF AdmissionStatuses, AuthorizationStates
    <2>3. /\ authorization[r] # NotIssued
          /\ SetAuthorization(r, IF outcome = "admitted" THEN "consuming" ELSE outcome)
          /\ admission' = [admission EXCEPT ![r] = outcome]
          /\ UNCHANGED <<workflow, commands, clock, request, decision, refused>>
      BY <1>6 DEF Admit, ApprovalFrame
    <2> HIDE DEF outcome
    <2> QED
      BY <2>1, <2>2, <2>3, SetAuthorizationTyped DEF ApprovalTypeOK, WorkflowTypeOK
  <1>7. ASSUME InvalidateAuthorization(r) PROVE ApprovalTypeOK' /\ WorkflowTypeOK'
    <2>1. "invalidated" \in AuthorizationStates /\ authorization[r] # NotIssued
      BY <1>7, IssuedByState DEF InvalidateAuthorization, AuthorizationStates
    <2> QED
      BY <1>7, <2>1, SetAuthorizationTyped
      DEF InvalidateAuthorization, ApprovalFrame, ApprovalTypeOK, WorkflowTypeOK
  <1>8. ASSUME MarkConsumed(r) PROVE ApprovalTypeOK' /\ WorkflowTypeOK'
    <2>1. "consumed" \in AuthorizationStates /\ authorization[r] # NotIssued
      BY <1>8, IssuedByState DEF MarkConsumed, AuthorizationStates
    <2> QED
      BY <1>8, <2>1, SetAuthorizationTyped
      DEF MarkConsumed, ApprovalFrame, ApprovalTypeOK, WorkflowTypeOK
  <1> QED
    BY <1>1, <1>2, <1>3, <1>4, <1>5, <1>6, <1>7, <1>8

-----------------------------------------------------------------------------
(* The coordinator, and the whole.                                         *)

\* No scope has minted more tokens than leases were issued: there is a token for
\* every lease within the bound.
CounterWithinGrants == \A s \in Scopes : counter[s] <= Len(granted)

\* An authorization was issued for a request.
IssuedIsRequested ==
  \A r \in ApprovalRequests : authorization[r] # NotIssued => Requested(r)

TypeInv == TypeOK /\ CounterWithinGrants /\ IssuedIsRequested

\* What one admission finds: a workflow at the version that was approved, and
\* room for its next version and one more lease.
LEMMA AdmissionFinds ==
  ASSUME TypeInv,
         NEW r \in ApprovalRequests, NEW s \in Scopes, NEW o \in Owners,
         NEW op \in Operations, NEW token \in 1..MaxGrants, NEW at \in Past,
         NEW expires \in Times, AdmitAndBeginWrite(r, s, o, op, token, at, expires)
  PROVE  /\ authorization[r] # NotIssued
         /\ request[r].workflow \in Workflows
         /\ request[r].version \in Versions
         /\ request[r].version + 1 \in Versions
         /\ Recorded(request[r].workflow)
         /\ workflow[request[r].workflow].version = request[r].version
  <1>1. /\ authorization[r] # NotIssued
        /\ MatchesWorkflow(r)
        /\ MovesTo(request[r].workflow, "executing", Admission, request[r].version)
    BY IssuedByState DEF AdmitAndBeginWrite, AuthorizationAdmissible, BeginWrite,
                         AuthorizationStates
  <1>2. request[r].workflow \in Workflows /\ request[r].version \in Versions
    BY <1>1 DEF TypeInv, IssuedIsRequested, Requested, TypeOK, ApprovalTypeOK
  <1>3. /\ workflow[request[r].workflow].version = request[r].version
        /\ Recorded(request[r].workflow)
    BY <1>1 DEF MatchesWorkflow, Recorded, Unrecorded
  <1>4. request[r].version + 1 \in Versions
    BY <1>1, <1>2, <1>3, WorkflowAssumption DEF MovesTo, Versions
  <1> QED
    BY <1>1, <1>2, <1>3, <1>4

LEMMA AdmissionLeaseTyped ==
  ASSUME TypeInv,
         NEW r \in ApprovalRequests, NEW s \in Scopes, NEW o \in Owners,
         NEW op \in Operations, NEW token \in 1..MaxGrants, NEW at \in Past,
         NEW expires \in Times, AdmitAndBeginWrite(r, s, o, op, token, at, expires)
  PROVE  NewLease(s, request[r].workflow, request[r].version + 1, "execution", o, expires)
           \in ContextLease
  <1>1. Len(granted) < MaxGrants
    BY DEF AdmitAndBeginWrite, BeginWrite, Issue
  <1>2. request[r].workflow \in Workflows /\ request[r].version + 1 \in Versions
    BY AdmissionFinds
  <1> QED
    BY <1>1, <1>2, NewLeaseTyped DEF Modes, TypeInv, TypeOK, CounterWithinGrants

\* The values that one admission writes are of their types.
LEMMA AdmissionStepTyped ==
  ASSUME TypeInv,
         NEW r \in ApprovalRequests, NEW s \in Scopes, NEW o \in Owners,
         NEW op \in Operations, NEW token \in 1..MaxGrants, NEW at \in Past,
         NEW expires \in Times, AdmitAndBeginWrite(r, s, o, op, token, at, expires)
  PROVE  TypeOK'
  <1> DEFINE w == request[r].workflow
             v == request[r].version
             l == NewLease(s, w, v + 1, "execution", o, expires)
             intent == [execution |-> r, workflow |-> w, version |-> v + 1,
                        lease |-> l.id, token |-> token, operation |-> op]
  <1>1. /\ MovesTo(w, "executing", Admission, v)
        /\ Issue(s, l, op)
        /\ ConsumeAuthorization(r)
        /\ intents' = intents \cup {intent}
        /\ envelope' = [envelope EXCEPT ![r] = intent]
        /\ UNCHANGED <<clock, sweep>>
    BY DEF AdmitAndBeginWrite, BeginWrite
  <1>2. /\ authorization[r] # NotIssued
        /\ w \in Workflows /\ v \in Versions /\ v + 1 \in Versions
        /\ Recorded(w)
    BY AdmissionFinds
  <1>3. l \in ContextLease
    BY AdmissionLeaseTyped
  <1>4. intent \in WriteAheadIntent
    BY <1>2, <1>3 DEF WriteAheadIntent, ContextLease
  <1> HIDE DEF w, v, l, intent
  <1>5. WorkflowTypeOK'
    BY <1>1, <1>2, MovesToTyped DEF TypeInv, TypeOK, WorkflowState
  <1>6. LeaseTypeOK'
    BY <1>1, <1>3, IssueTyped DEF TypeInv, TypeOK
  <1>7. ApprovalTypeOK'
    <2>1. "consuming" \in AuthorizationStates /\ "admitted" \in AdmissionStatuses
      BY DEF AuthorizationStates, AdmissionStatuses
    <2> QED
      BY <1>1, <1>2, <2>1, SetAuthorizationTyped
      DEF ConsumeAuthorization, ApprovalTypeOK, TypeInv, TypeOK
  <1>8. intents' \subseteq WriteAheadIntent
        /\ envelope' \in [ApprovalRequests -> WriteAheadIntent \cup {NoEnvelope}]
    BY <1>1, <1>4 DEF TypeInv, TypeOK
  <1> QED
    BY <1>5, <1>6, <1>7, <1>8 DEF TypeOK

LEMMA TypeInit == Init => TypeInv
  <1> SUFFICES ASSUME Init PROVE TypeInv
    OBVIOUS
  <1>1. WorkflowTypeOK
    BY WorkflowAssumption DEF Init, WorkflowInit, WorkflowTypeOK, Times
  <1>2. LeaseTypeOK
    BY WorkflowAssumption, LeaseAssumption DEF Init, LeaseInit, LeaseTypeOK, Idle, Times
  <1>3. ApprovalTypeOK /\ IssuedIsRequested
    BY DEF Init, ApprovalInit, ApprovalTypeOK, IssuedIsRequested
  <1>4. CounterWithinGrants
    BY DEF Init, LeaseInit, CounterWithinGrants
  <1> QED
    BY <1>1, <1>2, <1>3, <1>4 DEF TypeInv, TypeOK, Init

\* A step leaves the leases that were issued as they are, or issues one more, under
\* the next token of its scope.
Issues(s, l) == /\ ~Leased(s)
                /\ l.scope = s
                /\ l.token = MintToken(s)
                /\ \E op \in Operations \cup {NoOperation} : Issue(s, l, op)

LEMMA GrantsStep ==
  ASSUME TypeInv, [Next]_vars
  PROVE  \/ UNCHANGED <<counter, granted>>
         \/ \E s \in Scopes, l \in ContextLease : Issues(s, l)
  <1> DEFINE Kept == UNCHANGED <<counter, granted>>
             Issued == \E s \in Scopes, l \in ContextLease : Issues(s, l)
  <1>1. ASSUME LeaseNext PROVE Kept \/ Issued
    <2>1. ASSUME NEW s \in Scopes, NEW at \in Past, NEW w \in Workflows, NEW mode \in Modes,
                 NEW o \in Owners, NEW expires \in Times, Acquire(s, w, mode, o, at, expires)
          PROVE  Issued
      <3> DEFINE l == NewLease(s, w, workflow[w].version, mode, o, expires)
      <3>1. workflow[w].version \in Versions
        BY <2>1 DEF Acquire, Recorded, WorkflowTypeOK, WorkflowRecord, TypeInv, TypeOK
      <3>2. l \in ContextLease
        BY <2>1, <3>1, NewLeaseTyped DEF Acquire, Issue, TypeInv, TypeOK, CounterWithinGrants
      <3>3. l.scope = s /\ l.token = MintToken(s)
        BY DEF NewLease
      <3>4. ~Leased(s) /\ Issue(s, l, NoOperation)
        BY <2>1 DEF Acquire
      <3> HIDE DEF l
      <3> QED
        BY <3>2, <3>3, <3>4 DEF Issues
    <2>2. ASSUME NEW s \in Scopes, NEW at \in Past, NEW i \in DOMAIN granted, NEW o \in Owners,
                 HolderNext(s, granted[i], o, at)
          PROVE  Kept
      BY <2>2 DEF HolderNext, StartAtomicCall, FinishAtomicCall, Release
    <2>3. ASSUME NEW s \in Scopes, NEW at \in Past, Expire(s, at) PROVE Kept
      BY <2>3 DEF Expire
    <2>4. ASSUME NEW at \in Past, SweepReads(at) PROVE Kept
      BY <2>4 DEF SweepReads
    <2>5. ASSUME NEW s \in Scopes, SweepExpires(s) PROVE Kept
      BY <2>5 DEF SweepExpires
    <2>6. ASSUME SweepEnds PROVE Kept
      BY <2>6 DEF SweepEnds
    <2> QED
      BY <1>1, <2>1, <2>2, <2>3, <2>4, <2>5, <2>6 DEF LeaseNext
  <1>2. ASSUME NEW r \in ApprovalRequests, NEW s \in Scopes, NEW o \in Owners,
               NEW op \in Operations, NEW token \in 1..MaxGrants, NEW at \in Past,
               NEW expires \in Times, AdmitAndBeginWrite(r, s, o, op, token, at, expires)
        PROVE  Issued
    <2> DEFINE l == NewLease(s, request[r].workflow, request[r].version + 1, "execution",
                             o, expires)
    <2>1. l \in ContextLease
      BY <1>2, AdmissionLeaseTyped
    <2>2. l.scope = s /\ l.token = MintToken(s)
      BY DEF NewLease
    <2>3. ~Leased(s) /\ Issue(s, l, op)
      BY <1>2 DEF AdmitAndBeginWrite, BeginWrite
    <2> HIDE DEF l
    <2> QED
      BY <2>1, <2>2, <2>3 DEF Issues
  <1> QED
    BY <1>1, <1>2 DEF Next, AdmissionNext, vars, leaseVars

\* Only an issued lease advances a counter, by one.
LEMMA CounterStep ==
  ASSUME TypeInv, [Next]_vars
  PROVE  CounterWithinGrants'
  <1>1. CASE UNCHANGED <<counter, granted>>
    BY <1>1 DEF TypeInv, CounterWithinGrants
  <1>2. ASSUME NEW s \in Scopes, NEW l \in ContextLease, Issues(s, l)
        PROVE  CounterWithinGrants'
    <2>1. \A t \in Scopes : counter[t] \in Nat /\ counter[t] <= Len(granted)
      BY LeaseAssumption DEF TypeInv, TypeOK, LeaseTypeOK, CounterWithinGrants
    <2>2. Len(granted') = Len(granted) + 1 /\ Len(granted) \in Nat
      BY <1>2 DEF Issues, Issue, TypeInv, TypeOK, LeaseTypeOK
    <2>3. counter' = [counter EXCEPT ![s] = counter[s] + 1]
      BY <1>2 DEF Issues, Issue, MintToken
    <2>4. counter \in [Scopes -> 0..MaxGrants]
      BY DEF TypeInv, TypeOK, LeaseTypeOK
    <2> QED
      BY <2>1, <2>2, <2>3, <2>4 DEF CounterWithinGrants
  <1> QED
    BY <1>1, <1>2, GrantsStep

\* What a step does to the requests and authorizations: it files a request, it
\* decides on one that has no decision, or it moves an authorization that was issued,
\* into a consumed state when it records its admission, and only then.
Files(r) == /\ ~Requested(r)
            /\ \E q : q # NoRequestYet /\ request' = [request EXCEPT ![r] = q]
            /\ UNCHANGED <<decision, authorization, admission>>

Approves(r) == /\ Requested(r)
               /\ decision[r] = "none"
               /\ decision' = [decision EXCEPT ![r] = "approved"]
               /\ \E e : authorization' =
                    [authorization EXCEPT ![r] = [state |-> "issued", expires |-> e]]
               /\ UNCHANGED <<request, admission>>

Refuses(r) == /\ Requested(r)
              /\ decision[r] = "none"
              /\ \E kind \in DecisionKinds \ {"approved"} :
                   decision' = [decision EXCEPT ![r] = kind]
              /\ UNCHANGED <<request, authorization, admission>>

Consumed(state) == state \in {"consuming", "consumed"}

Moves(r) ==
  /\ authorization[r] # NotIssued
  /\ \E state \in AuthorizationStates :
       /\ SetAuthorization(r, state)
       /\ \/ /\ UNCHANGED admission
             /\ Consumed(state) <=> Consumed(authorization[r].state)
          \/ \E status \in AdmissionStatuses :
               /\ admission[r] = "none"
               /\ admission' = [admission EXCEPT ![r] = status]
               /\ Consumed(state) <=> status = "admitted"
  /\ UNCHANGED <<request, decision>>

LEMMA ApprovalSteps ==
  ASSUME [Next]_vars
  PROVE  \/ UNCHANGED <<request, decision, authorization, admission>>
         \/ \E r \in ApprovalRequests : Files(r) \/ Approves(r) \/ Refuses(r) \/ Moves(r)
  <1> DEFINE Goal == \/ UNCHANGED <<request, decision, authorization, admission>>
                     \/ \E r \in ApprovalRequests :
                          Files(r) \/ Approves(r) \/ Refuses(r) \/ Moves(r)
  <1>1. ASSUME NEW r \in ApprovalRequests, NEW w \in Workflows, NEW expires \in Times,
               CreateRequest(r, w, expires)
        PROVE  Files(r)
    <2>1. [workflow |-> w, version |-> workflow[w].version, expires |-> expires] # NoRequestYet
      BY DEF NoRequestYet
    <2> QED
      BY <1>1, <2>1 DEF CreateRequest, Files
  <1>2. ASSUME NEW r \in ApprovalRequests, NEW at, NEW expires, Approve(r, at, expires)
        PROVE  Approves(r)
    BY <1>2 DEF Approve, Pending, Decide, Approves
  <1>3. ASSUME NEW r \in ApprovalRequests, NEW at, NEW kind \in {"rejected", "cancelled"},
               RejectOrCancel(r, at, kind)
        PROVE  Refuses(r)
    BY <1>3 DEF RejectOrCancel, Pending, Decide, Refuses, DecisionKinds
  <1>4. ASSUME NEW r \in ApprovalRequests, NEW at, ExpireRequest(r, at)
        PROVE  Refuses(r)
    BY <1>4 DEF ExpireRequest, Decide, Refuses, DecisionKinds
  <1>5. ASSUME NEW r \in ApprovalRequests, NEW at, NEW intact, Admit(r, intact, at)
        PROVE  Moves(r)
    <2> DEFINE status == AdmissionOutcome(r, intact, at)
               state == IF status = "admitted" THEN "consuming" ELSE status
    <2>1. status \in AdmissionStatuses
      BY DEF AdmissionOutcome, AdmissionStatuses
    <2>2. state \in AuthorizationStates /\ (Consumed(state) <=> status = "admitted")
      BY <2>1 DEF AdmissionStatuses, AuthorizationStates, Consumed
    <2>3. /\ authorization[r] # NotIssued
          /\ SetAuthorization(r, state)
          /\ admission[r] = "none"
          /\ admission' = [admission EXCEPT ![r] = status]
          /\ UNCHANGED <<request, decision>>
      BY <1>5 DEF Admit
    <2> HIDE DEF status, state
    <2> QED
      BY <2>1, <2>2, <2>3 DEF Moves
  <1>6. ASSUME NEW r \in ApprovalRequests, InvalidateAuthorization(r) PROVE Moves(r)
    BY <1>6, IssuedByState
    DEF InvalidateAuthorization, Moves, AuthorizationStates, Consumed
  <1>7. ASSUME NEW r \in ApprovalRequests, MarkConsumed(r) PROVE Moves(r)
    BY <1>7, IssuedByState DEF MarkConsumed, Moves, AuthorizationStates, Consumed
  <1>8. ASSUME NEW r \in ApprovalRequests, NEW at, Refuse(r, at)
        PROVE  UNCHANGED <<request, decision, authorization, admission>>
    BY <1>8 DEF Refuse
  <1>9. ASSUME NEW r \in ApprovalRequests, NEW s \in Scopes, NEW o \in Owners,
               NEW op \in Operations, NEW token \in 1..MaxGrants, NEW at \in Past,
               NEW expires \in Times, AdmitAndBeginWrite(r, s, o, op, token, at, expires)
        PROVE  Moves(r)
    <2>1. /\ authorization[r] # NotIssued
          /\ admission[r] = "none"
          /\ ConsumeAuthorization(r)
      BY <1>9, IssuedByState
      DEF AdmitAndBeginWrite, AuthorizationAdmissible, BeginWrite, AuthorizationStates
    <2>2. /\ "consuming" \in AuthorizationStates /\ Consumed("consuming")
          /\ "admitted" \in AdmissionStatuses
      BY DEF AuthorizationStates, AdmissionStatuses, Consumed
    <2> QED
      BY <2>1, <2>2 DEF ConsumeAuthorization, Moves
  <1>10. ApprovalNext => Goal
    BY <1>1, <1>2, <1>3, <1>4, <1>5, <1>6, <1>8, <1>7 DEF ApprovalNext
  <1>11. AdmissionNext => Goal
    BY <1>9 DEF AdmissionNext
  <1> QED
    BY <1>10, <1>11 DEF Next, vars, approvalVars

\* Only approve issues an authorization, and a request is never taken back.
LEMMA RequestedStep ==
  ASSUME TypeInv, [Next]_vars
  PROVE  IssuedIsRequested'
  <1> SUFFICES ASSUME NEW r \in ApprovalRequests, authorization'[r] # NotIssued
               PROVE  request'[r] # NoRequestYet
    BY DEF IssuedIsRequested, Requested
  <1>1. /\ request \in [ApprovalRequests -> [workflow : Workflows, version : Versions,
                          expires : Times] \cup {NoRequestYet}]
        /\ authorization \in [ApprovalRequests -> [state : AuthorizationStates,
                                expires : Times] \cup {NotIssued}]
        /\ authorization[r] # NotIssued => request[r] # NoRequestYet
    BY DEF TypeInv, TypeOK, ApprovalTypeOK, IssuedIsRequested, Requested
  <1>2. CASE UNCHANGED <<request, decision, authorization, admission>>
    BY <1>1, <1>2
  <1>3. ASSUME NEW q \in ApprovalRequests, Files(q) PROVE request'[r] # NoRequestYet
    BY <1>1, <1>3 DEF Files
  <1>4. ASSUME NEW q \in ApprovalRequests, Approves(q) PROVE request'[r] # NoRequestYet
    BY <1>1, <1>4 DEF Approves, Requested
  <1>5. ASSUME NEW q \in ApprovalRequests, Refuses(q) PROVE request'[r] # NoRequestYet
    BY <1>1, <1>5 DEF Refuses
  <1>6. ASSUME NEW q \in ApprovalRequests, Moves(q) PROVE request'[r] # NoRequestYet
    BY <1>1, <1>6 DEF Moves, SetAuthorization
  <1> QED
    BY <1>2, <1>3, <1>4, <1>5, <1>6, ApprovalSteps

\* Every action leaves all the variables within their types.
LEMMA TypeStep ==
  ASSUME TypeInv, [Next]_vars
  PROVE  TypeInv'
  <1>1. ASSUME WorkflowNext, UNCHANGED <<leaseVars, approvalVars, intents, envelope>>
        PROVE  TypeOK'
    <2>1. WorkflowTypeOK'
      BY <1>1, WorkflowStepTyped DEF TypeInv
    <2> QED
      BY <1>1, <2>1 DEF TypeInv, TypeOK, leaseVars, approvalVars, LeaseTypeOK, ApprovalTypeOK
  <1>2. ASSUME LeaseNext, UNCHANGED <<approvalVars, intents, envelope>>
        PROVE  TypeOK'
    <2>1. LeaseTypeOK'
      BY <1>2, LeaseStepTyped DEF TypeInv, TypeOK, CounterWithinGrants
    <2>2. UNCHANGED <<workflow, commands, clock>>
      BY <1>2 DEF LeaseNext, Acquire, HolderNext, StartAtomicCall, FinishAtomicCall, Release,
                  Expire, SweepReads, SweepExpires, SweepEnds
    <2> QED
      BY <1>2, <2>1, <2>2 DEF TypeInv, TypeOK, approvalVars, WorkflowTypeOK, ApprovalTypeOK
  <1>3. ASSUME ApprovalNext, UNCHANGED <<leaseVars, intents, envelope>>
        PROVE  TypeOK'
    <2>1. ApprovalTypeOK' /\ WorkflowTypeOK'
      BY <1>3, ApprovalStepTyped DEF TypeInv, TypeOK
    <2> QED
      BY <1>3, <2>1 DEF TypeInv, TypeOK, leaseVars, LeaseTypeOK
  <1>4. AdmissionNext => TypeOK'
    BY AdmissionStepTyped DEF AdmissionNext
  <1>5. UNCHANGED vars => TypeOK'
    BY DEF vars, leaseVars, approvalVars, TypeInv, TypeOK, WorkflowTypeOK, LeaseTypeOK,
           ApprovalTypeOK
  <1>6. TypeOK'
    BY <1>1, <1>2, <1>3, <1>4, <1>5 DEF Next
  <1> QED
    BY <1>6, CounterStep, RequestedStep DEF TypeInv

\* In every reachable state each table of the database holds rows of its type: the
\* tokens and lease ids stay within what was issued, and every state is one that the
\* enumerations of the source name.
THEOREM TypeCorrect == Spec => []TypeOK
  <1>1. Init => TypeInv
    BY TypeInit
  <1>2. TypeInv /\ [Next]_vars => TypeInv'
    BY TypeStep
  <1>3. TypeInv => TypeOK
    BY DEF TypeInv
  <1> QED
    BY <1>1, <1>2, <1>3, PTL DEF Spec

-----------------------------------------------------------------------------

\* No lease was issued under a token its counter has not reached, and the current
\* lease has the token of the counter.
TokensAreCounted ==
  /\ \A i \in DOMAIN granted : granted[i].token <= counter[granted[i].scope]
  /\ \A s \in Scopes : Leased(s) => lease[s].token = counter[s]

TokenInv == TokensIncrease /\ TokensAreCounted

\* What a step does to the current lease of a scope: nothing, a new one, or a change
\* that leaves its token alone.
LEMMA LeaseSteps ==
  ASSUME TypeInv, [Next]_vars, NEW s \in Scopes
  PROVE  \/ lease'[s] = lease[s]
         \/ lease'[s] = Available
         \/ \E l \in ContextLease, op \in Operations \cup {NoOperation} :
              ~Leased(s) /\ Issue(s, l, op) /\ l.token = MintToken(s)
         \/ /\ Leased(s)
            /\ \/ \E op \in Operations \cup {NoOperation} :
                    lease'[s] = [lease[s] EXCEPT !.operation = op]
               \/ lease'[s] = [lease[s] EXCEPT !.state = "in_flight_expired"]
  <1> DEFINE Goal(t) ==
         \/ lease'[t] = lease[t]
         \/ lease'[t] = Available
         \/ \E l \in ContextLease, op \in Operations \cup {NoOperation} :
              ~Leased(t) /\ Issue(t, l, op) /\ l.token = MintToken(t)
         \/ /\ Leased(t)
            /\ \/ \E op \in Operations \cup {NoOperation} :
                    lease'[t] = [lease[t] EXCEPT !.operation = op]
               \/ lease'[t] = [lease[t] EXCEPT !.state = "in_flight_expired"]
  <1> USE DEF TypeInv, TypeOK
  <1>0. lease \in [Scopes -> ContextLease \cup {Available}]
    BY DEF LeaseTypeOK
  <1>1. ASSUME NEW t \in Scopes, NEW at \in Past, NEW w \in Workflows, NEW mode \in Modes,
               NEW o \in Owners, NEW expires \in Times, Acquire(t, w, mode, o, at, expires)
        PROVE  Goal(s)
    <2> DEFINE l == NewLease(t, w, workflow[w].version, mode, o, expires)
    <2>1. workflow[w].version \in Versions
      BY <1>1 DEF Acquire, Recorded, WorkflowTypeOK, WorkflowRecord
    <2>2. l \in ContextLease
      BY <1>1, <2>1, NewLeaseTyped DEF Acquire, Issue, CounterWithinGrants
    <2>3. ~Leased(t) /\ Issue(t, l, NoOperation) /\ l.token = MintToken(t)
      BY <1>1 DEF Acquire, NewLease
    <2> HIDE DEF l
    <2>4. CASE s = t
      BY <2>2, <2>3, <2>4
    <2>5. CASE s # t
      BY <1>0, <2>3, <2>5 DEF Issue
    <2> QED
      BY <2>4, <2>5
  <1>2. ASSUME NEW t \in Scopes, NEW at \in Past, NEW h, NEW o \in Owners,
               HolderNext(t, h, o, at)
        PROVE  Goal(s)
    <2>1. Leased(t)
      BY <1>2, HeldIsLeased
      DEF HolderNext, StartAtomicCall, FinishAtomicCall, Release, HolderPasses
    <2>2. CASE \E op \in Operations \cup {NoOperation} :
                 lease' = [lease EXCEPT ![t] = [lease[t] EXCEPT !.operation = op]]
      BY <1>0, <2>1, <2>2
    <2>3. CASE lease' = [lease EXCEPT ![t] = Available]
      BY <1>0, <2>3
    <2>4. ASSUME NEW op \in Operations, StartAtomicCall(t, h, o, op, at)
          PROVE  lease' = [lease EXCEPT ![t] = [lease[t] EXCEPT !.operation = op]]
      BY <2>4 DEF StartAtomicCall
    <2>5. ASSUME NEW op \in Operations, FinishAtomicCall(t, h, o, op, at)
          PROVE  lease' = [lease EXCEPT ![t] = [lease[t] EXCEPT !.operation = NoOperation]]
      BY <2>5 DEF FinishAtomicCall
    <2>6. ASSUME NEW f \in BOOLEAN, Release(t, h, o, at, f)
          PROVE  lease' = [lease EXCEPT ![t] = Available]
      BY <2>6 DEF Release
    <2> HIDE DEF Goal
    <2> QED
      BY <1>2, <2>2, <2>3, <2>4, <2>5, <2>6 DEF HolderNext
  <1>3. ASSUME NEW t \in Scopes, Held(t), lease' = [lease EXCEPT ![t] = Expired(t)]
        PROVE  Goal(s)
    BY <1>0, <1>3, HeldIsLeased DEF Expired
  <1>4. ASSUME NEW t \in Scopes, NEW at \in Past, Expire(t, at) PROVE Goal(s)
    BY <1>3, <1>4 DEF Expire, Expirable
  <1>5. ASSUME NEW t \in Scopes, SweepExpires(t) PROVE Goal(s)
    <2>1. CASE Expirable(t, sweep.at)
      BY <1>3, <1>5, <2>1 DEF SweepExpires, Expirable
    <2>2. CASE ~Expirable(t, sweep.at)
      BY <1>5, <2>2 DEF SweepExpires
    <2> QED
      BY <2>1, <2>2
  <1>6. ASSUME NEW r \in ApprovalRequests, NEW t \in Scopes, NEW o \in Owners,
               NEW op \in Operations, NEW token \in 1..MaxGrants, NEW at \in Past,
               NEW expires \in Times, AdmitAndBeginWrite(r, t, o, op, token, at, expires)
        PROVE  Goal(s)
    <2> DEFINE l == NewLease(t, request[r].workflow, request[r].version + 1, "execution",
                             o, expires)
    <2>1. l \in ContextLease
      BY <1>6, AdmissionLeaseTyped
    <2>2. ~Leased(t) /\ Issue(t, l, op) /\ l.token = MintToken(t)
      BY <1>6 DEF AdmitAndBeginWrite, BeginWrite, NewLease
    <2> HIDE DEF l
    <2>3. CASE s = t
      BY <2>1, <2>2, <2>3
    <2>4. CASE s # t
      BY <1>0, <2>2, <2>4 DEF Issue
    <2> QED
      BY <2>3, <2>4
  <1>7. UNCHANGED lease => Goal(s)
    OBVIOUS
  <1>8. ASSUME NEW at \in Past, SweepReads(at) PROVE UNCHANGED lease
    BY <1>8 DEF SweepReads
  <1>9. SweepEnds => UNCHANGED lease
    BY DEF SweepEnds
  <1>10. LeaseNext => Goal(s)
    <2> HIDE DEF Goal
    <2> QED
      BY <1>1, <1>2, <1>4, <1>5, <1>7, <1>8, <1>9 DEF LeaseNext
  <1>11. AdmissionNext => Goal(s)
    <2> HIDE DEF Goal
    <2> QED
      BY <1>6 DEF AdmissionNext
  <1>12. Goal(s)
    <2> HIDE DEF Goal
    <2> QED
      BY <1>7, <1>10, <1>11 DEF Next, vars, leaseVars
  <1> QED
    BY <1>12

LEMMA TokenInit == Init => TokenInv
  BY DEF Init, LeaseInit, TokenInv, TokensIncrease, TokensAreCounted, Leased

\* The new token is larger than all the tokens of its scope.
LEMMA TokenStep ==
  ASSUME TypeInv, TokenInv, [Next]_vars
  PROVE  TokenInv'
  <1> USE DEF TypeInv, TypeOK
  <1>1. /\ granted \in Seq(ContextLease)
        /\ counter \in [Scopes -> 0..MaxGrants]
        /\ lease \in [Scopes -> ContextLease \cup {Available}]
    BY DEF LeaseTypeOK
  <1>2. \A l \in ContextLease : l.token \in Nat /\ l.scope \in Scopes
    BY LeaseAssumption DEF ContextLease
  <1>3. \A s \in Scopes : counter[s] \in Nat
    BY <1>1, LeaseAssumption
  <1>4. \A i \in DOMAIN granted : granted[i] \in ContextLease
    BY <1>1
  <1>5. LeaseTypeOK'
    BY TypeStep
  <1>6. CASE UNCHANGED <<counter, granted>>
    <2>1. /\ \A i, j \in DOMAIN granted : i < j /\ granted[i].scope = granted[j].scope
               => granted[i].token < granted[j].token
          /\ \A i \in DOMAIN granted : granted[i].token <= counter[granted[i].scope]
      BY DEF TokenInv, TokensIncrease, TokensAreCounted
    <2>2. ASSUME NEW s \in Scopes, Leased(s)' PROVE lease'[s].token = counter[s]
      <3>1. ~ \E l \in ContextLease, op \in Operations \cup {NoOperation} : Issue(s, l, op)
        BY <1>1, <1>6 DEF Issue
      <3>2. Leased(s) => lease[s].token = counter[s]
        BY DEF TokenInv, TokensAreCounted
      <3>3. Leased(s) => lease[s] \in ContextLease
        BY <1>1 DEF Leased
      <3> QED
        BY <2>2, <3>1, <3>2, <3>3, LeaseSteps DEF Leased, ContextLease
    <2>3. TokensAreCounted'
      BY <1>6, <2>1, <2>2 DEF TokensAreCounted
    <2>4. ASSUME NEW s \in Scopes, Leased(s)', NEW i \in DOMAIN granted, granted[i].scope = s
          PROVE  granted[i].token <= lease'[s].token
      BY <2>1, <2>2, <2>4
    <2> QED
      BY <1>6, <2>1, <2>3, <2>4 DEF TokenInv, TokensIncrease
  <1>7. ASSUME NEW t \in Scopes, NEW l \in ContextLease, Issues(t, l)
        PROVE  TokenInv'
    <2>1. /\ granted' = Append(granted, l)
          /\ counter' = [counter EXCEPT ![t] = l.token]
          /\ l.token = counter[t] + 1
          /\ l.scope = t
          /\ ~Leased(t)
      BY <1>7 DEF Issues, Issue, MintToken
    <2>2. PICK op \in Operations \cup {NoOperation} : Issue(t, l, op)
      BY <1>7 DEF Issues
    <2>3. lease' = [lease EXCEPT ![t] = [l EXCEPT !.operation = op]]
      BY <2>2 DEF Issue
    <2>4. /\ DOMAIN granted' = DOMAIN granted \cup {Len(granted) + 1}
          /\ \A i \in DOMAIN granted : granted'[i] = granted[i] /\ i < Len(granted) + 1 /\ i \in Nat
          /\ granted'[Len(granted) + 1] = l
          /\ Len(granted) \in Nat
      BY <1>1, <2>1
    <2>5. \A i \in DOMAIN granted : granted[i].token <= counter[granted[i].scope]
                                    /\ granted[i].scope \in Scopes /\ granted[i].token \in Nat
      BY <1>2, <1>4 DEF TokenInv, TokensAreCounted
    <2>6. \A s \in Scopes : counter[s] <= counter'[s] /\ counter'[s] \in Nat
      BY <1>1, <1>3, <2>1
    <2>7. ASSUME NEW i \in DOMAIN granted' PROVE granted'[i].token <= counter'[granted'[i].scope]
      <3>1. CASE i \in DOMAIN granted
        BY <1>3, <2>4, <2>5, <2>6, <3>1
      <3>2. CASE i = Len(granted) + 1
        BY <1>1, <1>2, <2>1, <2>4, <3>2
      <3> QED
        BY <2>4, <3>1, <3>2
    <2>8. ASSUME NEW i \in DOMAIN granted', NEW j \in DOMAIN granted', i < j,
                 granted'[i].scope = granted'[j].scope
          PROVE  granted'[i].token < granted'[j].token
      <3>1. i \in DOMAIN granted
        BY <2>4, <2>8
      <3>2. CASE j \in DOMAIN granted
        BY <2>4, <2>8, <3>1, <3>2 DEF TokenInv, TokensIncrease
      <3>3. CASE j = Len(granted) + 1
        BY <1>2, <1>3, <2>1, <2>4, <2>5, <2>8, <3>1, <3>3
      <3> QED
        BY <2>4, <3>2, <3>3
    <2>9. ASSUME NEW s \in Scopes, Leased(s)' PROVE lease'[s].token = counter'[s]
      <3>1. CASE s = t
        <4>1. lease'[s] = [l EXCEPT !.operation = op]
          BY <1>1, <2>3, <3>1
        <4>2. lease'[s].token = l.token
          BY <4>1 DEF ContextLease
        <4> QED
          BY <1>1, <2>1, <3>1, <4>2
      <3>2. CASE s # t
        BY <1>1, <2>1, <2>3, <2>9, <3>2 DEF TokenInv, TokensAreCounted, Leased
      <3> QED
        BY <3>1, <3>2
    <2>10. ASSUME NEW s \in Scopes, Leased(s)', NEW i \in DOMAIN granted', granted'[i].scope = s
           PROVE  granted'[i].token <= lease'[s].token
      BY <2>7, <2>9, <2>10
    <2> QED
      BY <2>7, <2>8, <2>9, <2>10 DEF TokenInv, TokensIncrease, TokensAreCounted
  <1> QED
    BY <1>6, <1>7, GrantsStep

\* The fencing tokens of a scope grow with every lease, by whichever transaction it is
\* issued and however the one before it ended, and the current lease has the newest.
THEOREM TokensAlwaysIncrease == Spec => []TokensIncrease
  <1>1. Init => TypeInv /\ TokenInv
    BY TypeInit, TokenInit
  <1>2. TypeInv /\ TokenInv /\ [Next]_vars => (TypeInv /\ TokenInv)'
    BY TypeStep, TokenStep
  <1>3. TokenInv => TokensIncrease
    BY DEF TokenInv
  <1> QED
    BY <1>1, <1>2, <1>3, PTL DEF Spec

-----------------------------------------------------------------------------
(* The scope of a call in flight.                                          *)

\* A lease with a call in flight is kept, by every step, but for its expiry and the
\* end of the call.
LEMMA CallStep ==
  ASSUME TypeInv, [Next]_vars, NEW s \in Scopes, Leased(s), ~NoCallInFlight(s)
  PROVE  \/ lease'[s] = lease[s]
         \/ lease'[s] = [lease[s] EXCEPT !.operation = NoOperation]
         \/ lease'[s] = [lease[s] EXCEPT !.state = "in_flight_expired"]
  <1> DEFINE Goal == \/ lease'[s] = lease[s]
                     \/ lease'[s] = [lease[s] EXCEPT !.operation = NoOperation]
                     \/ lease'[s] = [lease[s] EXCEPT !.state = "in_flight_expired"]
  <1>0. lease \in [Scopes -> ContextLease \cup {Available}]
    BY DEF TypeInv, TypeOK, LeaseTypeOK
  <1>1. ASSUME NEW t \in Scopes, NEW at, NEW w, NEW mode, NEW o, NEW expires,
               Acquire(t, w, mode, o, at, expires)
        PROVE  Goal
    BY <1>0, <1>1 DEF Acquire, Issue
  <1>2. ASSUME NEW t \in Scopes, NEW at, NEW h, NEW o, HolderNext(t, h, o, at)
        PROVE  Goal
    <2>1. ASSUME NEW op \in Operations, StartAtomicCall(t, h, o, op, at) PROVE Goal
      BY <1>0, <2>1 DEF StartAtomicCall
    <2>2. ASSUME NEW op \in Operations, FinishAtomicCall(t, h, o, op, at) PROVE Goal
      BY <1>0, <2>2 DEF FinishAtomicCall
    <2>3. ASSUME NEW f \in BOOLEAN, Release(t, h, o, at, f) PROVE Goal
      BY <1>0, <2>3 DEF Release
    <2> HIDE DEF Goal
    <2> QED
      BY <1>2, <2>1, <2>2, <2>3 DEF HolderNext
  <1>3. ASSUME NEW t \in Scopes, lease' = [lease EXCEPT ![t] = Expired(t)] PROVE Goal
    BY <1>0, <1>3 DEF Expired
  <1>4. ASSUME NEW t \in Scopes, NEW at, Expire(t, at) PROVE Goal
    BY <1>3, <1>4 DEF Expire
  <1>5. ASSUME NEW t \in Scopes, SweepExpires(t) PROVE Goal
    BY <1>3, <1>5 DEF SweepExpires
  <1>6. ASSUME NEW r \in ApprovalRequests, NEW t \in Scopes, NEW o, NEW op, NEW token,
               NEW at, NEW expires, AdmitAndBeginWrite(r, t, o, op, token, at, expires)
        PROVE  Goal
    BY <1>0, <1>6 DEF AdmitAndBeginWrite, BeginWrite, Issue
  <1>7. UNCHANGED lease => Goal
    OBVIOUS
  <1>8. (\E at \in Past : SweepReads(at)) \/ SweepEnds => UNCHANGED lease
    BY DEF SweepReads, SweepEnds
  <1> HIDE DEF Goal
  <1>9. LeaseNext => Goal
    BY <1>1, <1>2, <1>4, <1>5, <1>7, <1>8 DEF LeaseNext
  <1>10. AdmissionNext => Goal
    BY <1>6 DEF AdmissionNext
  <1>11. Goal
    BY <1>7, <1>9, <1>10 DEF Next, vars, leaseVars
  <1> QED
    BY <1>11 DEF Goal

\* Nobody else gets the context while a native call may be running in it: no release,
\* expiry, sweep, acquisition or admission takes the scope from the lease that
\* started the call.
THEOREM CallsKeepTheirScope == Spec => CallKeepsItsScope
  <1>1. TypeInv /\ [Next]_vars =>
          \A s \in Scopes : Leased(s) /\ ~NoCallInFlight(s) =>
            /\ lease'[s] # Available
            /\ lease'[s].id = lease[s].id
            /\ lease'[s].operation # lease[s].operation =>
                 lease'[s] = [lease[s] EXCEPT !.operation = NoOperation]
    <2> SUFFICES ASSUME TypeInv, [Next]_vars, NEW s \in Scopes, Leased(s), ~NoCallInFlight(s)
                 PROVE  /\ lease'[s] # Available
                        /\ lease'[s].id = lease[s].id
                        /\ lease'[s].operation # lease[s].operation =>
                             lease'[s] = [lease[s] EXCEPT !.operation = NoOperation]
      OBVIOUS
    <2>1. lease[s] \in ContextLease
      BY LeasedRow DEF TypeInv, TypeOK
    <2>2. CASE lease'[s] = lease[s]
      BY <2>2 DEF Leased
    <2>3. CASE lease'[s] = [lease[s] EXCEPT !.operation = NoOperation]
      BY <2>1, <2>3 DEF ContextLease, Available
    <2>4. CASE lease'[s] = [lease[s] EXCEPT !.state = "in_flight_expired"]
      BY <2>1, <2>4 DEF ContextLease, Available
    <2> QED
      BY <2>2, <2>3, <2>4, CallStep
  <1>2. Init => TypeInv
    BY TypeInit
  <1>3. TypeInv /\ [Next]_vars => TypeInv'
    BY TypeStep
  <1> QED
    BY <1>1, <1>2, <1>3, PTL DEF Spec, CallKeepsItsScope

-----------------------------------------------------------------------------
(* Commands.                                                               *)

\* An unrecorded workflow has no commands.
SerialInv == /\ CommandsAreSerial
             /\ \A w \in Workflows : ~Recorded(w) => commands[w] = <<>>

\* What a step does to the workflows: nothing, it records one, or it moves one on from
\* the version it has.
Records(w) == /\ ~Recorded(w)
              /\ \E state \in WorkflowState :
                   workflow' = [workflow EXCEPT ![w] = [state |-> state, version |-> 1]]
              /\ UNCHANGED commands

MovesOn(w) == /\ Recorded(w)
              /\ \E state \in WorkflowState, name \in DOMAIN Legal \cup {Admission} :
                   MovesTo(w, state, name, workflow[w].version)

LEMMA WorkflowSteps ==
  ASSUME TypeInv, [Next]_vars
  PROVE  \/ UNCHANGED <<workflow, commands>>
         \/ \E w \in Workflows : Records(w) \/ MovesOn(w)
  <1>1. ASSUME NEW w \in Workflows, NEW state \in FirstStates, Record(w, state)
        PROVE  Records(w)
    BY <1>1, WorkflowAssumption DEF Record, Records
  <1>2. ASSUME NEW w \in Workflows, NEW name \in DOMAIN Legal, NEW v \in Versions,
               Transition(w, name, v)
        PROVE  MovesOn(w)
    BY <1>2, LegalStates DEF Transition, MovesOn
  <1>3. ASSUME NEW r \in ApprovalRequests, NEW s \in Scopes, NEW o \in Owners,
               NEW op \in Operations, NEW token \in 1..MaxGrants, NEW at \in Past,
               NEW expires \in Times, AdmitAndBeginWrite(r, s, o, op, token, at, expires)
        PROVE  request[r].workflow \in Workflows /\ MovesOn(request[r].workflow)
    <2>1. MovesTo(request[r].workflow, "executing", Admission, request[r].version)
      BY <1>3 DEF AdmitAndBeginWrite, BeginWrite
    <2>2. "executing" \in WorkflowState
      BY DEF WorkflowState
    <2> QED
      BY <1>3, <2>1, <2>2, AdmissionFinds DEF MovesOn
  <1>4. Tick \/ LeaseNext \/ ApprovalNext => UNCHANGED <<workflow, commands>>
    BY DEF Tick, LeaseNext, Acquire, HolderNext, StartAtomicCall, FinishAtomicCall, Release,
           Expire, SweepReads, SweepExpires, SweepEnds, ApprovalNext, ApprovalFrame,
           CreateRequest, Approve, Refuse, RejectOrCancel, ExpireRequest, Admit,
           InvalidateAuthorization, MarkConsumed
  <1> QED
    BY <1>1, <1>2, <1>3, <1>4 DEF Next, WorkflowNext, AdmissionNext, vars

LEMMA SerialInit == Init => SerialInv
  BY DEF Init, WorkflowInit, SerialInv, CommandsAreSerial, Recorded

LEMMA SerialStep ==
  ASSUME TypeInv, SerialInv, [Next]_vars
  PROVE  SerialInv'
  <1>1. /\ workflow \in [Workflows -> WorkflowRecord \cup {Unrecorded}]
        /\ commands \in [Workflows -> Seq(Command)]
    BY DEF TypeInv, TypeOK, WorkflowTypeOK
  <1>2. CASE UNCHANGED <<workflow, commands>>
    BY <1>2 DEF SerialInv, CommandsAreSerial, Recorded
  <1>3. ASSUME NEW w \in Workflows, Records(w) PROVE SerialInv'
    BY <1>1, <1>3 DEF Records, SerialInv, CommandsAreSerial, Recorded
  <1>4. ASSUME NEW w \in Workflows, MovesOn(w) PROVE SerialInv'
    <2> DEFINE v == workflow[w].version
    <2>1. PICK state \in WorkflowState, name \in DOMAIN Legal \cup {Admission} :
            MovesTo(w, state, name, v)
      BY <1>4 DEF MovesOn
    <2>2. /\ workflow' = [workflow EXCEPT ![w] = [state |-> state, version |-> v + 1]]
          /\ commands' = [commands EXCEPT ![w] = Append(commands[w],
               [name |-> name, expected |-> v, resulting |-> v + 1])]
      BY <2>1 DEF MovesTo
    <2>3. v \in Nat /\ v = Len(commands[w]) + 1 /\ Recorded(w)
      BY <1>1, <1>4, WorkflowAssumption
      DEF SerialInv, CommandsAreSerial, MovesOn, Recorded, WorkflowRecord, Versions
    <2> HIDE DEF v
    <2>4. ASSUME NEW u \in Workflows
          PROVE  /\ \A i \in DOMAIN commands'[u] : commands'[u][i].expected = i
                                                   /\ commands'[u][i].resulting = i + 1
                 /\ Recorded(u)' => workflow'[u].version = Len(commands'[u]) + 1
                 /\ ~Recorded(u)' => commands'[u] = <<>>
      <3>1. CASE u = w
        <4> DEFINE c == [name |-> name, expected |-> v, resulting |-> v + 1]
        <4>1. commands'[u] = Append(commands[w], c) /\ commands[w] \in Seq(Command)
          BY <1>1, <2>2, <3>1
        <4>2. c.expected = v /\ c.resulting = v + 1
          OBVIOUS
        <4>3. \A i \in DOMAIN commands[w] : commands[w][i].expected = i
                                            /\ commands[w][i].resulting = i + 1
          BY DEF SerialInv, CommandsAreSerial
        <4>4. workflow'[u] = [state |-> state, version |-> v + 1]
          BY <1>1, <2>2, <3>1
        <4> HIDE DEF c
        <4>5. /\ DOMAIN commands'[u] = DOMAIN commands[w] \cup {v}
              /\ commands'[u][v] = c
              /\ Len(commands'[u]) = v
              /\ \A i \in DOMAIN commands[w] : commands'[u][i] = commands[w][i]
          BY <2>3, <4>1
        <4>6. Recorded(u)'
          BY <4>4, <2>3 DEF Recorded, Unrecorded
        <4> QED
          BY <4>2, <4>3, <4>4, <4>5, <4>6
      <3>2. CASE u # w
        BY <1>1, <2>2, <3>2 DEF SerialInv, CommandsAreSerial, Recorded
      <3> QED
        BY <3>1, <3>2
    <2> QED
      BY <2>4 DEF SerialInv, CommandsAreSerial
  <1> QED
    BY <1>2, <1>3, <1>4, WorkflowSteps

\* The commands of a workflow, transitions and admissions alike, were each decided on
\* the version that the one before it produced.
THEOREM CommandsAlwaysSerial == Spec => []CommandsAreSerial
  <1>1. Init => TypeInv /\ SerialInv
    BY TypeInit, SerialInit
  <1>2. TypeInv /\ SerialInv /\ [Next]_vars => (TypeInv /\ SerialInv)'
    BY TypeStep, SerialStep
  <1>3. SerialInv => CommandsAreSerial
    BY DEF SerialInv
  <1> QED
    BY <1>1, <1>2, <1>3, PTL DEF Spec

-----------------------------------------------------------------------------
(* Authorizations.                                                         *)

\* An authorization exists only for an approved request, and an admission only for an
\* authorization.
ApprovalInv ==
  /\ ConsumedIffAdmitted
  /\ \A r \in ApprovalRequests : authorization[r] # NotIssued => decision[r] = "approved"
  /\ \A r \in ApprovalRequests : admission[r] # "none" => authorization[r] # NotIssued

LEMMA ApprovalInvInit == Init => ApprovalInv
  BY DEF Init, ApprovalInit, ApprovalInv, ConsumedIffAdmitted, NotIssued

LEMMA ApprovalInvStep ==
  ASSUME TypeInv, ApprovalInv, [Next]_vars
  PROVE  ApprovalInv'
  <1>1. /\ decision \in [ApprovalRequests -> DecisionKinds \cup {"none"}]
        /\ authorization \in [ApprovalRequests ->
             [state : AuthorizationStates, expires : Times] \cup {NotIssued}]
        /\ admission \in [ApprovalRequests -> AdmissionStatuses \cup {"none"}]
    BY DEF TypeInv, TypeOK, ApprovalTypeOK
  <1>2. \A q \in ApprovalRequests :
          /\ Consumed(authorization[q].state) <=> admission[q] = "admitted"
          /\ authorization[q] # NotIssued => decision[q] = "approved"
          /\ admission[q] # "none" => authorization[q] # NotIssued
    BY DEF ApprovalInv, ConsumedIffAdmitted, Consumed
  <1> SUFFICES ASSUME NEW q \in ApprovalRequests
               PROVE  /\ Consumed(authorization'[q].state) <=> admission'[q] = "admitted"
                      /\ authorization'[q] # NotIssued => decision'[q] = "approved"
                      /\ admission'[q] # "none" => authorization'[q] # NotIssued
    BY DEF ApprovalInv, ConsumedIffAdmitted, Consumed
  <1>3. CASE UNCHANGED <<request, decision, authorization, admission>>
    BY <1>2, <1>3
  <1>4. ASSUME NEW r \in ApprovalRequests, Files(r)
        PROVE  UNCHANGED <<decision, authorization, admission>>
    BY <1>4 DEF Files
  <1>5. ASSUME NEW r \in ApprovalRequests, Approves(r), q = r
        PROVE  /\ Consumed(authorization'[q].state) <=> admission'[q] = "admitted"
               /\ authorization'[q] # NotIssued => decision'[q] = "approved"
               /\ admission'[q] # "none" => authorization'[q] # NotIssued
    <2>1. authorization[q] = NotIssued /\ admission[q] = "none"
      BY <1>2, <1>5 DEF Approves
    <2> QED
      BY <1>1, <1>5, <2>1 DEF Approves, Consumed, NotIssued
  <1>6. ASSUME NEW r \in ApprovalRequests, Refuses(r), q = r
        PROVE  /\ Consumed(authorization'[q].state) <=> admission'[q] = "admitted"
               /\ authorization'[q] # NotIssued => decision'[q] = "approved"
               /\ admission'[q] # "none" => authorization'[q] # NotIssued
    BY <1>1, <1>2, <1>6 DEF Refuses
  <1>7. ASSUME NEW r \in ApprovalRequests, Moves(r), q = r
        PROVE  /\ Consumed(authorization'[q].state) <=> admission'[q] = "admitted"
               /\ authorization'[q] # NotIssued => decision'[q] = "approved"
               /\ admission'[q] # "none" => authorization'[q] # NotIssued
    <2>1. PICK state \in AuthorizationStates :
            /\ SetAuthorization(r, state)
            /\ \/ /\ UNCHANGED admission
                  /\ Consumed(state) <=> Consumed(authorization[r].state)
               \/ \E status \in AdmissionStatuses :
                    /\ admission[r] = "none"
                    /\ admission' = [admission EXCEPT ![r] = status]
                    /\ Consumed(state) <=> status = "admitted"
      BY <1>7 DEF Moves
    <2>2. authorization[q] # NotIssued /\ decision'[q] = decision[q]
      BY <1>7 DEF Moves
    <2>3. authorization'[q].state = state /\ authorization'[q] # NotIssued
      BY <1>1, <1>7, <2>1, <2>2 DEF SetAuthorization, NotIssued, AuthorizationStates
    <2>4. Consumed(authorization'[q].state) <=> admission'[q] = "admitted"
      BY <1>1, <1>2, <1>7, <2>1, <2>3
    <2> QED
      BY <1>2, <2>2, <2>3, <2>4
  <1>8. ASSUME NEW r \in ApprovalRequests, Approves(r) \/ Refuses(r) \/ Moves(r), q # r
        PROVE  /\ authorization'[q] = authorization[q]
               /\ admission'[q] = admission[q]
               /\ decision'[q] = decision[q]
    BY <1>1, <1>8 DEF Approves, Refuses, Moves, SetAuthorization
  <1> QED
    BY <1>2, <1>3, <1>4, <1>5, <1>6, <1>7, <1>8, ApprovalSteps

\* An authorization is in a consumed state exactly when its admission is on record,
\* whoever admitted, invalidated or finished it, and in whatever order.
THEOREM ConsumedExactlyIfAdmitted == Spec => []ConsumedIffAdmitted
  <1>1. Init => TypeInv /\ ApprovalInv
    BY TypeInit, ApprovalInvInit
  <1>2. TypeInv /\ ApprovalInv /\ [Next]_vars => (TypeInv /\ ApprovalInv)'
    BY TypeStep, ApprovalInvStep
  <1>3. ApprovalInv => ConsumedIffAdmitted
    BY DEF ApprovalInv
  <1> QED
    BY <1>1, <1>2, <1>3, PTL DEF Spec

-----------------------------------------------------------------------------
(* Envelopes.                                                              *)

\* What an envelope e of the execution r rests on, in tables that other transactions
\* go on writing.
Grounded(r, e) ==
  /\ e.execution = r
  /\ e.workflow = request[r].workflow
  /\ request[r].version = e.version - 1
  /\ e.version - 1 \in DOMAIN commands[e.workflow]
  /\ commands[e.workflow][e.version - 1].name = Admission
  /\ e.lease \in DOMAIN granted
  /\ granted[e.lease].token = e.token
  /\ granted[e.lease].version = e.version
  /\ granted[e.lease].mode = "execution"

\* Every envelope is grounded and admitted, each for a version of its own.
EnvelopeInv ==
  /\ \A r \in ApprovalRequests : Admitted(r) =>
       /\ decision[r] = "approved"
       /\ admission[r] = "admitted"
       /\ envelope[r] \in intents
       /\ Grounded(r, envelope[r])
  /\ \A q, r \in ApprovalRequests : Admitted(q) /\ Admitted(r) /\ q # r =>
       <<request[q].workflow, request[q].version>> # <<request[r].workflow, request[r].version>>

LEMMA EnvelopeInit == Init => EnvelopeInv
  BY DEF Init, EnvelopeInv, Admitted

\* What is written stays written: requests, approvals and admissions are never taken
\* back, and the commands and the leases issued only grow at their ends.
LEMMA FactsStay ==
  ASSUME TypeInv, [Next]_vars
  PROVE  /\ \A r \in ApprovalRequests :
              /\ Requested(r) => request'[r] = request[r]
              /\ decision[r] # "none" => decision'[r] = decision[r]
              /\ admission[r] # "none" => admission'[r] = admission[r]
         /\ \A w \in Workflows : \A i \in DOMAIN commands[w] :
              i \in DOMAIN commands'[w] /\ commands'[w][i] = commands[w][i]
         /\ \A i \in DOMAIN granted : i \in DOMAIN granted' /\ granted'[i] = granted[i]
  <1>1. ASSUME NEW r \in ApprovalRequests
        PROVE  /\ Requested(r) => request'[r] = request[r]
               /\ decision[r] # "none" => decision'[r] = decision[r]
               /\ admission[r] # "none" => admission'[r] = admission[r]
    <2>1. /\ decision \in [ApprovalRequests -> DecisionKinds \cup {"none"}]
          /\ admission \in [ApprovalRequests -> AdmissionStatuses \cup {"none"}]
          /\ request = [q \in ApprovalRequests |-> request[q]]
      BY DEF TypeInv, TypeOK, ApprovalTypeOK
    <2>2. CASE UNCHANGED <<request, decision, authorization, admission>>
      BY <2>2
    <2>3. ASSUME NEW q \in ApprovalRequests, Files(q) \/ Approves(q) \/ Refuses(q)
          PROVE  /\ Requested(r) => request'[r] = request[r]
                 /\ decision[r] # "none" => decision'[r] = decision[r]
                 /\ admission[r] # "none" => admission'[r] = admission[r]
      BY <2>1, <2>3 DEF Files, Approves, Refuses
    <2>4. ASSUME NEW q \in ApprovalRequests, Moves(q)
          PROVE  /\ request' = request /\ decision' = decision
                 /\ admission[r] # "none" => admission'[r] = admission[r]
      BY <2>1, <2>4 DEF Moves
    <2> QED
      BY <2>2, <2>3, <2>4, ApprovalSteps
  <1>2. ASSUME NEW w \in Workflows, NEW i \in DOMAIN commands[w]
        PROVE  i \in DOMAIN commands'[w] /\ commands'[w][i] = commands[w][i]
    <2>1. commands \in [Workflows -> Seq(Command)]
      BY DEF TypeInv, TypeOK, WorkflowTypeOK
    <2>2. CASE commands' = commands
      BY <2>2
    <2>3. ASSUME NEW u \in Workflows, Records(u) PROVE commands' = commands
      BY <2>3 DEF Records
    <2>4. ASSUME NEW u \in Workflows, MovesOn(u)
          PROVE  i \in DOMAIN commands'[w] /\ commands'[w][i] = commands[w][i]
      <3>1. PICK c : commands' = [commands EXCEPT ![u] = Append(commands[u], c)]
        BY <2>4 DEF MovesOn, MovesTo
      <3> QED
        BY <2>1, <3>1
    <2> QED
      BY <2>2, <2>3, <2>4, WorkflowSteps
  <1>3. ASSUME NEW i \in DOMAIN granted
        PROVE  i \in DOMAIN granted' /\ granted'[i] = granted[i]
    <2>1. granted \in Seq(ContextLease)
      BY DEF TypeInv, TypeOK, LeaseTypeOK
    <2>2. granted' = granted \/ \E l \in ContextLease : granted' = Append(granted, l)
      BY GrantsStep DEF Issues, Issue
    <2> QED
      BY <2>1, <2>2
  <1> QED
    BY <1>1, <1>2, <1>3

\* The invariants that an envelope leans on.
IInv == TypeInv /\ TokenInv /\ SerialInv /\ ApprovalInv /\ EnvelopeInv

\* What was admitted before a step is grounded after it.
LEMMA GroundedStays ==
  ASSUME IInv, [Next]_vars, NEW r \in ApprovalRequests, Admitted(r), NEW e, e = envelope[r]
  PROVE  /\ request'[r] = request[r]
         /\ decision'[r] = "approved"
         /\ admission'[r] = "admitted"
         /\ Grounded(r, e)'
  <1>1. /\ decision[r] = "approved"
        /\ admission[r] = "admitted"
        /\ Grounded(r, e)
    BY DEF IInv, EnvelopeInv
  <1>2. Requested(r) /\ request[r].workflow \in Workflows
    BY <1>1 DEF IInv, ApprovalInv, TypeInv, IssuedIsRequested, Requested, TypeOK, ApprovalTypeOK
  <1>3. /\ request'[r] = request[r]
        /\ decision'[r] = decision[r]
        /\ admission'[r] = admission[r]
    BY <1>1, <1>2, FactsStay DEF IInv
  <1>4. /\ e.version - 1 \in DOMAIN commands'[e.workflow]
        /\ commands'[e.workflow][e.version - 1] = commands[e.workflow][e.version - 1]
    BY <1>1, <1>2, FactsStay DEF IInv, Grounded
  <1>5. e.lease \in DOMAIN granted' /\ granted'[e.lease] = granted[e.lease]
    BY <1>1, FactsStay DEF IInv, Grounded
  <1> QED
    BY <1>1, <1>3, <1>4, <1>5 DEF Grounded

\* The version that a request binds is behind its workflow once it was executed.
LEMMA ExecutedIsPast ==
  ASSUME IInv, NEW r \in ApprovalRequests, Admitted(r)
  PROVE  request[r].version < workflow[request[r].workflow].version
  <1> DEFINE w == request[r].workflow
             i == request[r].version
  <1>1. i \in DOMAIN commands[w]
    BY DEF IInv, EnvelopeInv, Grounded
  <1>2. w \in Workflows /\ i \in Versions
    BY DEF IInv, EnvelopeInv, ApprovalInv, TypeInv, IssuedIsRequested, Requested, TypeOK,
           ApprovalTypeOK
  <1>3. commands[w] \in Seq(Command)
    BY <1>2 DEF IInv, TypeInv, TypeOK, WorkflowTypeOK
  <1>4. Recorded(w) /\ workflow[w].version = Len(commands[w]) + 1
    BY <1>1, <1>2 DEF IInv, SerialInv, CommandsAreSerial
  <1> HIDE DEF w, i
  <1>5. i < workflow[w].version
    BY <1>1, <1>3, <1>4
  <1> QED
    BY <1>5 DEF w, i

\* One admission writes an envelope that is grounded, for a version that no other
\* execution had.
LEMMA AdmissionGrounds ==
  ASSUME IInv, [Next]_vars,
         NEW r \in ApprovalRequests, NEW s \in Scopes, NEW o \in Owners,
         NEW op \in Operations, NEW token \in 1..MaxGrants, NEW at \in Past,
         NEW expires \in Times, AdmitAndBeginWrite(r, s, o, op, token, at, expires)
  PROVE  EnvelopeInv'
  <1> DEFINE w == request[r].workflow
             v == request[r].version
             l == NewLease(s, w, v + 1, "execution", o, expires)
             intent == [execution |-> r, workflow |-> w, version |-> v + 1,
                        lease |-> l.id, token |-> token, operation |-> op]
  <1>1. /\ MovesTo(w, "executing", Admission, v)
        /\ Issue(s, l, op)
        /\ ConsumeAuthorization(r)
        /\ intents' = intents \cup {intent}
        /\ envelope' = [envelope EXCEPT ![r] = intent]
        /\ token = MintToken(s)
        /\ admission[r] = "none"
    BY DEF AdmitAndBeginWrite, BeginWrite, AuthorizationAdmissible
  <1>2. /\ authorization[r] # NotIssued
        /\ w \in Workflows /\ v \in Versions /\ v + 1 \in Versions
        /\ Recorded(w) /\ workflow[w].version = v
    BY AdmissionFinds DEF IInv
  <1>3. /\ request' = request /\ decision' = decision
        /\ admission' = [admission EXCEPT ![r] = "admitted"]
    BY <1>1 DEF ConsumeAuthorization
  <1>4. decision'[r] = "approved" /\ admission'[r] = "admitted"
    BY <1>2, <1>3 DEF IInv, ApprovalInv, TypeInv, TypeOK, ApprovalTypeOK
  <1>5. PICK e : e = intent
    OBVIOUS
  <1>6. Grounded(r, e)'
    <2>1. /\ commands \in [Workflows -> Seq(Command)]
          /\ granted \in Seq(ContextLease)
          /\ v = Len(commands[w]) + 1
      BY <1>2 DEF IInv, TypeInv, TypeOK, WorkflowTypeOK, LeaseTypeOK, SerialInv, CommandsAreSerial
    <2>2. commands' = [commands EXCEPT ![w] = Append(commands[w],
            [name |-> Admission, expected |-> v, resulting |-> workflow[w].version + 1])]
      BY <1>1 DEF MovesTo
    <2>3. v \in DOMAIN commands'[w] /\ commands'[w][v].name = Admission
      BY <1>2, <2>1, <2>2
    <2>4. granted' = Append(granted, l)
      BY <1>1 DEF Issue
    <2>5. l.id = Len(granted) + 1 /\ l.token = token /\ l.version = v + 1 /\ l.mode = "execution"
      BY <1>1 DEF NewLease
    <2>6. l.id \in DOMAIN granted' /\ granted'[l.id] = l
      BY <2>1, <2>4, <2>5
    <2>7. intent.version - 1 = v
      BY <1>2 DEF Versions
    <2>8. /\ e.execution = r /\ e.workflow = w /\ e.version = v + 1
          /\ e.lease = l.id /\ e.token = token
      BY <1>5
    <2> HIDE DEF intent, l
    <2>9. request'[r].workflow = w /\ request'[r].version = v
      BY <1>3
    <2> HIDE DEF w, v
    <2> QED
      BY <1>5, <2>3, <2>5, <2>6, <2>7, <2>8, <2>9 DEF Grounded
  <1>7. ~Admitted(r)
    BY <1>1 DEF IInv, EnvelopeInv
  <1>8. /\ envelope'[r] = intent /\ intent \in intents' /\ intent.execution = r
        /\ \A q \in ApprovalRequests \ {r} : envelope'[q] = envelope[q]
    BY <1>1 DEF IInv, TypeInv, TypeOK
  <1>9. intent # NoEnvelope
    BY DEF NoEnvelope
  <1> HIDE DEF w, v, l, intent
  <1>10. ASSUME NEW q \in ApprovalRequests, Admitted(q)'
        PROVE  /\ decision'[q] = "approved"
               /\ admission'[q] = "admitted"
               /\ envelope'[q] \in intents'
               /\ Grounded(q, envelope[q])'
    <2>1. CASE q = r
      BY <1>4, <1>5, <1>6, <1>8, <2>1 DEF Grounded
    <2>2. CASE q # r
      <3>1. Admitted(q) /\ envelope[q] \in intents /\ envelope'[q] = envelope[q]
        BY <1>8, <1>10, <2>2 DEF Admitted, IInv, EnvelopeInv
      <3>2. PICK f : f = envelope[q]
        OBVIOUS
      <3>3. decision'[q] = "approved" /\ admission'[q] = "admitted" /\ Grounded(q, f)'
        BY <3>1, <3>2, GroundedStays
      <3> QED
        BY <1>1, <3>1, <3>2, <3>3 DEF Grounded
    <2> QED
      BY <2>1, <2>2
  <1>11. ASSUME NEW p \in ApprovalRequests, NEW q \in ApprovalRequests,
                Admitted(p)', Admitted(q)', p # q
         PROVE  <<request'[p].workflow, request'[p].version>>
                  # <<request'[q].workflow, request'[q].version>>
    <2>1. ASSUME NEW x \in ApprovalRequests, Admitted(x)
          PROVE  /\ request[x].version < workflow[request[x].workflow].version
                 /\ request[x].version \in Nat
      <3>1. request[x].version \in Nat
        BY <2>1 DEF IInv, EnvelopeInv, ApprovalInv, TypeInv, IssuedIsRequested, Requested, TypeOK,
                    ApprovalTypeOK, Versions
      <3> QED
        BY <2>1, <3>1, ExecutedIsPast
    <2>2. ASSUME NEW x \in ApprovalRequests, Admitted(x)
          PROVE  <<request[x].workflow, request[x].version>> # <<w, v>>
      BY <1>2, <2>1, <2>2
    <2>3. /\ p # r => Admitted(p)
          /\ q # r => Admitted(q)
      BY <1>8, <1>11 DEF Admitted
    <2>4. request[r].workflow = w /\ request[r].version = v
      BY DEF w, v
    <2>5. CASE p = r
      BY <1>3, <1>11, <2>2, <2>3, <2>4, <2>5
    <2>6. CASE q = r
      BY <1>3, <1>11, <2>2, <2>3, <2>4, <2>6
    <2>7. CASE p # r /\ q # r
      BY <1>3, <1>11, <2>3, <2>7 DEF IInv, EnvelopeInv
    <2> QED
      BY <2>5, <2>6, <2>7
  <1> QED
    BY <1>10, <1>11 DEF EnvelopeInv

LEMMA EnvelopeStep ==
  ASSUME IInv, [Next]_vars
  PROVE  EnvelopeInv'
  <1>1. ASSUME UNCHANGED <<intents, envelope>> PROVE EnvelopeInv'
    <2>1. ASSUME NEW r \in ApprovalRequests, Admitted(r)'
          PROVE  /\ request'[r] = request[r]
                 /\ decision'[r] = "approved"
                 /\ admission'[r] = "admitted"
                 /\ envelope'[r] \in intents'
                 /\ Grounded(r, envelope[r])'
      <3>1. Admitted(r) /\ envelope[r] \in intents /\ envelope'[r] = envelope[r]
        BY <1>1, <2>1 DEF Admitted, IInv, EnvelopeInv
      <3>2. PICK e : e = envelope[r]
        OBVIOUS
      <3>3. /\ request'[r] = request[r] /\ decision'[r] = "approved"
            /\ admission'[r] = "admitted" /\ Grounded(r, e)'
        BY <3>1, <3>2, GroundedStays
      <3> QED
        BY <1>1, <3>1, <3>2, <3>3 DEF Grounded
    <2>2. \A r \in ApprovalRequests : Admitted(r)' => Admitted(r)
      BY <1>1 DEF Admitted
    <2>3. \A p, q \in ApprovalRequests : Admitted(p) /\ Admitted(q) /\ p # q =>
            <<request[p].workflow, request[p].version>>
              # <<request[q].workflow, request[q].version>>
      BY DEF IInv, EnvelopeInv
    <2> QED
      BY <2>1, <2>2, <2>3 DEF EnvelopeInv
  <1> QED
    BY <1>1, AdmissionGrounds DEF Next, AdmissionNext, vars

\* The inductive invariant holds in every reachable state.
LEMMA Invariance == Spec => []IInv
  <1>1. Init => IInv
    BY TypeInit, TokenInit, SerialInit, ApprovalInvInit, EnvelopeInit DEF IInv
  <1>2. IInv /\ [Next]_vars => IInv'
    BY TypeStep, TokenStep, SerialStep, ApprovalInvStep, EnvelopeStep DEF IInv
  <1> QED
    BY <1>1, <1>2, PTL DEF Spec

\* The envelope that lets the gateway owner begin a write is backed by an approval, an
\* admission, the command that moved the workflow on from the approved version, an
\* intent and an execution lease with the intent's token, and stays so.
THEOREM EnvelopesAreGrounded == Spec => []EnvelopeIsGrounded
  <1>1. IInv => EnvelopeIsGrounded
    BY DEF IInv, EnvelopeInv, Grounded, EnvelopeIsGrounded
  <1> QED
    BY <1>1, Invariance, PTL

\* A version of a workflow is executed at most once, however many requests for it were
\* approved.
THEOREM VersionsAreExecutedOnce == Spec => []OneExecutionPerVersion
  <1>1. IInv => OneExecutionPerVersion
    BY DEF IInv, EnvelopeInv, OneExecutionPerVersion
  <1> QED
    BY <1>1, Invariance, PTL

-----------------------------------------------------------------------------
(* Fencing.                                                                *)

CallBegins(s) == /\ lease'[s] # Available
                 /\ lease'[s].operation # NoOperation
                 /\ Leased(s) => NoCallInFlight(s)

\* A call begins by start_atomic_call or by an admission, and either way the workflow
\* is at the version of the lease when the step is over.
LEMMA FencedStep ==
  ASSUME IInv, [Next]_vars, NEW s \in Scopes, CallBegins(s)
  PROVE  workflow'[lease'[s].workflow].version = lease'[s].version
  <1> DEFINE Goal == workflow'[lease'[s].workflow].version = lease'[s].version
  <1>0. /\ lease \in [Scopes -> ContextLease \cup {Available}]
        /\ workflow = [w \in Workflows |-> workflow[w]]
    BY DEF IInv, TypeInv, TypeOK, LeaseTypeOK, WorkflowTypeOK
  <1>1. lease'[s] # lease[s]
    BY DEF CallBegins, Leased, NoCallInFlight
  <1>2. ASSUME NEW t \in Scopes, NEW at, NEW w, NEW mode, NEW o, NEW expires,
               Acquire(t, w, mode, o, at, expires)
        PROVE  Goal
    <2> DEFINE l == NewLease(t, w, workflow[w].version, mode, o, expires)
    <2>1. lease' = [lease EXCEPT ![t] = [l EXCEPT !.operation = NoOperation]]
      BY <1>2 DEF Acquire, Issue
    <2>2. [l EXCEPT !.operation = NoOperation].operation = NoOperation
      BY DEF NewLease
    <2> HIDE DEF l
    <2>3. lease'[s].operation = NoOperation
      BY <1>0, <1>1, <2>1, <2>2
    <2> QED
      BY <2>3 DEF CallBegins
  <1>3. ASSUME NEW t \in Scopes, NEW at, NEW h, NEW o, NEW op \in Operations,
               StartAtomicCall(t, h, o, op, at)
        PROVE  Goal
    <2>1. t = s /\ lease[s] \in ContextLease
      BY <1>0, <1>1, <1>3, HeldIsLeased, LeasedRow
      DEF StartAtomicCall, HolderPasses, IInv, TypeInv, TypeOK
    <2>2. /\ lease'[s] = [lease[s] EXCEPT !.operation = op]
          /\ workflow[lease[s].workflow].version = lease[s].version
          /\ workflow' = workflow
      BY <1>0, <1>3, <2>1 DEF StartAtomicCall, HolderPasses
    <2> QED
      BY <2>1, <2>2 DEF ContextLease
  <1>4. ASSUME NEW t \in Scopes,
               \/ lease' = [lease EXCEPT ![t] = Available]
               \/ /\ Leased(t)
                  /\ lease' = [lease EXCEPT ![t].operation = NoOperation]
               \/ Leased(t) /\ lease' = [lease EXCEPT ![t] = Expired(t)]
        PROVE  Goal
    <2>1. t = s
      BY <1>0, <1>1, <1>4
    <2>2. CASE lease' = [lease EXCEPT ![t] = Available]
      BY <1>0, <2>1, <2>2 DEF CallBegins
    <2>3. CASE Leased(t) /\ lease' = [lease EXCEPT ![t].operation = NoOperation]
      BY <1>0, <2>1, <2>3, LeasedRow
      DEF CallBegins, ContextLease, IInv, TypeInv, TypeOK
    <2>4. CASE Leased(t) /\ lease' = [lease EXCEPT ![t] = Expired(t)]
      BY <1>0, <2>1, <2>4, LeasedRow
      DEF CallBegins, Expired, NoCallInFlight, ContextLease, IInv, TypeInv, TypeOK
    <2> QED
      BY <1>4, <2>2, <2>3, <2>4
  <1>5. ASSUME NEW t \in Scopes, NEW at, NEW h, NEW o, HolderNext(t, h, o, at)
        PROVE  Goal
    <2>1. Leased(t)
      BY <1>5, HeldIsLeased
      DEF HolderNext, StartAtomicCall, FinishAtomicCall, Release, HolderPasses, IInv, TypeInv,
          TypeOK
    <2>2. ASSUME NEW op \in Operations, FinishAtomicCall(t, h, o, op, at) PROVE Goal
      BY <1>4, <2>1, <2>2 DEF FinishAtomicCall
    <2>3. ASSUME NEW f \in BOOLEAN, Release(t, h, o, at, f) PROVE Goal
      BY <1>4, <2>3 DEF Release
    <2> HIDE DEF Goal
    <2> QED
      BY <1>3, <1>5, <2>2, <2>3 DEF HolderNext
  <1>6. ASSUME NEW t \in Scopes, Held(t), lease' = [lease EXCEPT ![t] = Expired(t)]
        PROVE  Goal
    BY <1>4, <1>6, HeldIsLeased DEF IInv, TypeInv, TypeOK
  <1>7. ASSUME NEW t \in Scopes, NEW at, Expire(t, at) PROVE Goal
    BY <1>6, <1>7 DEF Expire, Expirable
  <1>8. ASSUME NEW t \in Scopes, SweepExpires(t) PROVE Goal
    BY <1>1, <1>6, <1>8 DEF SweepExpires, Expirable
  <1>9. ASSUME NEW r \in ApprovalRequests, NEW t \in Scopes, NEW o \in Owners,
               NEW op \in Operations, NEW token \in 1..MaxGrants, NEW at \in Past,
               NEW expires \in Times, AdmitAndBeginWrite(r, t, o, op, token, at, expires)
        PROVE  Goal
    <2> DEFINE w == request[r].workflow
               v == request[r].version
               l == NewLease(t, w, v + 1, "execution", o, expires)
    <2>1. /\ MovesTo(w, "executing", Admission, v)
          /\ lease' = [lease EXCEPT ![t] = [l EXCEPT !.operation = op]]
      BY <1>9 DEF AdmitAndBeginWrite, BeginWrite, Issue
    <2>2. w \in Workflows /\ workflow[w].version = v
      BY <1>9, AdmissionFinds DEF IInv
    <2>3. workflow'[w].version = v + 1
      BY <1>0, <2>1, <2>2 DEF MovesTo
    <2>4. [l EXCEPT !.operation = op].workflow = w /\ [l EXCEPT !.operation = op].version = v + 1
      BY DEF NewLease
    <2> HIDE DEF l, w, v
    <2>5. lease'[s] = [l EXCEPT !.operation = op]
      BY <1>0, <1>1, <2>1
    <2> QED
      BY <2>3, <2>4, <2>5
  <1>10. (\E at \in Past : SweepReads(at)) \/ SweepEnds => UNCHANGED lease
    BY DEF SweepReads, SweepEnds
  <1> HIDE DEF Goal
  <1>11. LeaseNext => Goal
    BY <1>1, <1>2, <1>5, <1>7, <1>8, <1>10 DEF LeaseNext
  <1>12. AdmissionNext => Goal
    BY <1>9 DEF AdmissionNext
  <1>13. Goal
    BY <1>1, <1>11, <1>12 DEF Next, vars, leaseVars
  <1> QED
    BY <1>13 DEF Goal

\* No native call begins under a lease whose workflow has moved on since it was
\* issued.
THEOREM CallsAreFenced == Spec => CallsStartFenced
  <1>1. IInv /\ [Next]_vars =>
          \A s \in Scopes :
            lease'[s] # Available /\ lease'[s].operation # NoOperation
            /\ (Leased(s) => NoCallInFlight(s))
              => workflow'[lease'[s].workflow].version = lease'[s].version
    BY FencedStep DEF CallBegins
  <1> QED
    BY <1>1, Invariance, PTL DEF Spec, CallsStartFenced
=============================================================================
