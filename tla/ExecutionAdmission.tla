------------------------- MODULE ExecutionAdmission --------------------------
(***************************************************************************)
(* persistence/execution_admission.py and the stores it joins: one         *)
(* transaction consumes an authorization, moves the workflow to executing, *)
(* leases the context with a call already in flight, and writes the intent *)
(* of the write and the envelope that lets the gateway owner go on.  The   *)
(* stores are also used on their own, by other callers, before, after and  *)
(* between; SQLite serializes the transactions of all of them.             *)
(*                                                                         *)
(* Abstractions.  An admission that is sent again is answered with its     *)
(* stored envelope and changes nothing.  intents holds what admissions     *)
(* wrote to reconciliation_intents: commit_intent only adds other rows.    *)
(***************************************************************************)
EXTENDS LeaseStore, ApprovalStore

VARIABLES intents,  \* reconciliation_intents, as far as admissions write it
          envelope  \* execution_admission_envelopes, by execution id

vars == <<workflow, commands, clock, leaseVars, approvalVars, intents, envelope>>

WriteAheadIntent == [execution : ApprovalRequests, workflow : Workflows,
                     version : Versions, lease : 1..MaxGrants,
                     token : 1..MaxGrants, operation : Operations]

NoEnvelope == [execution |-> "none"]
Admitted(r) == envelope[r] # NoEnvelope

TypeOK == /\ WorkflowTypeOK /\ LeaseTypeOK /\ ApprovalTypeOK
          /\ intents \subseteq WriteAheadIntent
          /\ envelope \in [ApprovalRequests -> WriteAheadIntent \cup {NoEnvelope}]

Init == /\ WorkflowInit /\ LeaseInit /\ ApprovalInit
        /\ intents = {}
        /\ envelope = [r \in ApprovalRequests |-> NoEnvelope]

\* _validate_authorization, for a caller that presents it intact.
AuthorizationAdmissible(r, at) ==
  /\ authorization[r].state = "issued"
  /\ at < authorization[r].expires
  /\ admission[r] = "none"

\* Fault: the status of the admission is written where the state belongs.
ConsumeByStatus(r) ==
  /\ SetAuthorization(r, "admitted")
  /\ admission' = [admission EXCEPT ![r] = "admitted"]
  /\ UNCHANGED <<request, decision, refused>>

ConsumeAuthorization(r) ==
  /\ SetAuthorization(r, "consuming")
  /\ admission' = [admission EXCEPT ![r] = "admitted"]
  /\ UNCHANGED <<request, decision, refused>>

\* All that is written together: the workflow at its next version, the lease with
\* the call in flight, the intent, the consumed authorization, the envelope.
BeginWrite(r, version, s, o, op, token, expires) ==
  LET w == request[r].workflow
      l == NewLease(s, w, version + 1, "execution", o, expires)
      intent == [execution |-> r, workflow |-> w, version |-> version + 1,
                 lease |-> l.id, token |-> token, operation |-> op] IN
  /\ MovesTo(w, "executing", Admission, version)
  /\ Issue(s, l, op)
  /\ ConsumeAuthorization(r)
  /\ intents' = intents \cup {intent}
  /\ envelope' = [envelope EXCEPT ![r] = intent]
  /\ UNCHANGED <<clock, sweep>>

FreshOperation(op) ==
  \A r \in ApprovalRequests : Admitted(r) => envelope[r].operation # op

\* Fault: the workflow is not revalidated, and moves on from wherever it is.
AdmitUnvalidated(r, s, o, op, token, at, expires) ==
  /\ expires > at
  /\ AuthorizationAdmissible(r, at)
  /\ ~Leased(s)
  /\ token = MintToken(s)
  /\ BeginWrite(r, workflow[request[r].workflow].version, s, o, op, token, expires)

\* Fault: the token the intent was made for is not compared with the minted one.
AdmitAnyToken(r, s, o, op, token, at, expires) ==
  /\ expires > at
  /\ AuthorizationAdmissible(r, at)
  /\ MatchesWorkflow(r)
  /\ ~Leased(s)
  /\ FreshOperation(op)
  /\ BeginWrite(r, request[r].version, s, o, op, token, expires)

\* The caller made its intent beforehand, for the next workflow version, a lease
\* id of its own and the fencing token it expects.  Any precondition that fails
\* rolls everything back.
AdmitAndBeginWrite(r, s, o, op, token, at, expires) ==
  /\ expires > at
  /\ AuthorizationAdmissible(r, at)
  /\ MatchesWorkflow(r)
  /\ ~Leased(s)
  /\ token = MintToken(s)
  /\ FreshOperation(op)
  /\ BeginWrite(r, request[r].version, s, o, op, token, expires)

-----------------------------------------------------------------------------
WorkflowNext ==
  \/ \E w \in Workflows, state \in FirstStates : Record(w, state)
  \/ \E w \in Workflows, name \in DOMAIN Legal, v \in Versions : Transition(w, name, v)
  \/ Tick

\* A holder presents a lease that was issued to it or to another instance.
HolderNext(s, h, o, at) ==
  \/ \E op \in Operations : StartAtomicCall(s, h, o, op, at)
                            \/ FinishAtomicCall(s, h, o, op, at)
  \/ \E forAuthorization \in BOOLEAN : Release(s, h, o, at, forAuthorization)

LeaseNext ==
  \/ \E s \in Scopes, at \in Past :
       \/ \E w \in Workflows, mode \in Modes, o \in Owners, expires \in Times :
            Acquire(s, w, mode, o, at, expires)
       \/ \E i \in DOMAIN granted, o \in Owners : HolderNext(s, granted[i], o, at)
       \/ Expire(s, at)
  \/ \E at \in Past : SweepReads(at)
  \/ \E s \in Scopes : SweepExpires(s)
  \/ SweepEnds

ApprovalNext ==
  \E r \in ApprovalRequests :
    \/ \E w \in Workflows, expires \in Times : CreateRequest(r, w, expires)
    \/ \E at \in Past :
         \/ \E expires \in Times : Approve(r, at, expires)
         \/ Refuse(r, at)
         \/ \E kind \in {"rejected", "cancelled"} : RejectOrCancel(r, at, kind)
         \/ ExpireRequest(r, at)
         \/ \E intact \in BOOLEAN : Admit(r, intact, at)
    \/ InvalidateAuthorization(r)
    \/ MarkConsumed(r)

AdmissionNext ==
  \E r \in ApprovalRequests, s \in Scopes, o \in Owners, op \in Operations,
     token \in 1..MaxGrants, at \in Past, expires \in Times :
    AdmitAndBeginWrite(r, s, o, op, token, at, expires)

Next ==
  \/ WorkflowNext /\ UNCHANGED <<leaseVars, approvalVars, intents, envelope>>
  \/ LeaseNext /\ UNCHANGED <<approvalVars, intents, envelope>>
  \/ ApprovalNext /\ UNCHANGED <<leaseVars, intents, envelope>>
  \/ AdmissionNext

Spec == Init /\ [][Next]_vars

-----------------------------------------------------------------------------
\* Commands on one workflow, decided by callers that do not know of each other,
\* are serial: each was decided on the version the one before it produced, so that
\* no update is lost (the compare-and-swap of transition and of the coordinator).
CommandsAreSerial ==
  \A w \in Workflows :
    /\ \A i \in DOMAIN commands[w] : commands[w][i].expected = i
                                     /\ commands[w][i].resulting = i + 1
    /\ Recorded(w) => workflow[w].version = Len(commands[w]) + 1

\* Fencing tokens of a scope grow from lease to lease, over releases, expiries and
\* admissions, and the current lease has the newest one: whoever still holds an
\* older lease can be told by its token (mint_fencing_token).
TokensIncrease ==
  /\ \A i, j \in DOMAIN granted :
       i < j /\ granted[i].scope = granted[j].scope => granted[i].token < granted[j].token
  /\ \A s \in Scopes, i \in DOMAIN granted :
       Leased(s) /\ granted[i].scope = s => granted[i].token <= lease[s].token

\* While a native call may be running, nobody else gets the context: the scope stays
\* with the lease that started the call until its holder reports the end, whatever
\* expires, is swept, or is presented by a former holder.
CallKeepsItsScope ==
  [][\A s \in Scopes : Leased(s) /\ ~NoCallInFlight(s) =>
       /\ lease'[s] # Available
       /\ lease'[s].id = lease[s].id
       /\ lease'[s].operation # lease[s].operation =>
            lease'[s] = [lease[s] EXCEPT !.operation = NoOperation]]_vars

\* A native call starts only for a workflow that is still at the version its lease
\* was issued for: a command that got in between has fenced the holder off.
CallsStartFenced ==
  [][\A s \in Scopes :
       lease'[s] # Available /\ lease'[s].operation # NoOperation
       /\ (Leased(s) => NoCallInFlight(s))
         => workflow'[lease'[s].workflow].version = lease'[s].version]_vars

\* An envelope, all the gateway owner has to go by, is backed by every durable fact:
\* an approval, an admission that consumed it, the command that moved the workflow
\* from the version that was approved, the intent, and a lease under the token the
\* intent was made for.
EnvelopeIsGrounded ==
  \A r \in ApprovalRequests : Admitted(r) =>
    LET e == envelope[r] IN
    /\ decision[r] = "approved"
    /\ admission[r] = "admitted"
    /\ e \in intents
    /\ commands[e.workflow][e.version - 1].name = Admission
    /\ request[r].version = e.version - 1
    /\ granted[e.lease].token = e.token
    /\ granted[e.lease].version = e.version
    /\ granted[e.lease].mode = "execution"

\* However many requests were approved for it, one version of a workflow leads to
\* one execution at most.
OneExecutionPerVersion ==
  \A q, r \in ApprovalRequests : Admitted(q) /\ Admitted(r) /\ q # r =>
    <<request[q].workflow, request[q].version>> # <<request[r].workflow, request[r].version>>

\* An authorization counts as consumed exactly when its admission was recorded, by
\* the authority or by the coordinator: invalidating it, admitting it again and
\* ending its execution do not change what was recorded.
ConsumedIffAdmitted ==
  \A r \in ApprovalRequests :
    authorization[r].state \in {"consuming", "consumed"} <=> admission[r] = "admitted"

\* A caller that was told that a request expired, or lost its binding, was told of a
\* decision that is on record.
RefusalIsRecorded == \A r \in refused : decision[r] # "none"

\* expire_due starts on every held lease whose time has come.
DueLeasesAreSwept ==
  [][sweep = Idle /\ sweep' # Idle =>
       \A s \in Scopes : Held(s) /\ lease[s].expires <= sweep'.at => s \in sweep'.left]_vars
=============================================================================
