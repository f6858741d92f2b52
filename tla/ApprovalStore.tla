---------------------------- MODULE ApprovalStore ----------------------------
(***************************************************************************)
(* The local approval authority of persistence/approval_store.py.  A       *)
(* request binds one version of a workflow that awaits authorization; one  *)
(* terminal decision is recorded for it; an approval issues one            *)
(* authorization, which is admitted once.  Each action is one SQL          *)
(* transaction of ApprovalAuthorityStore.                                  *)
(*                                                                         *)
(* Abstractions.  The execution id of an authorization, unique to its      *)
(* request, is the request.  Of the bindings, those that can change are    *)
(* modelled: the workflow's state and version.  A caller that presents an  *)
(* authorization presents it intact or not; not intact is also one that    *)
(* another authority instance issued.                                      *)
(*                                                                         *)
(* refused is a history variable: the requests whose caller was told, by   *)
(* an exception, that the request expired or lost its binding.             *)
(***************************************************************************)
EXTENDS WorkflowStore

CONSTANTS ApprovalRequests  \* approval request ids

VARIABLES request,        \* authority_approval_requests
          decision,       \* authority_decisions
          authorization,  \* authority_authorizations
          admission,      \* authority_admissions
          refused

approvalVars == <<request, decision, authorization, admission, refused>>

NoRequestYet == [workflow |-> "none"]
Requested(r) == request[r] # NoRequestYet

DecisionKinds == {"approved", "rejected", "expired", "invalidated", "cancelled"}
AuthorizationStates == {"issued", "consuming", "consumed", "expired", "invalidated"}
AdmissionStatuses == {"admitted", "expired", "invalidated"}

NotIssued == [state |-> "none"]

ApprovalTypeOK ==
  /\ request \in [ApprovalRequests ->
       [workflow : Workflows, version : Versions, expires : Times] \cup {NoRequestYet}]
  /\ decision \in [ApprovalRequests -> DecisionKinds \cup {"none"}]
  /\ authorization \in [ApprovalRequests ->
       [state : AuthorizationStates, expires : Times] \cup {NotIssued}]
  /\ admission \in [ApprovalRequests -> AdmissionStatuses \cup {"none"}]
  /\ refused \subseteq ApprovalRequests

ApprovalInit == /\ request = [r \in ApprovalRequests |-> NoRequestYet]
                /\ decision = [r \in ApprovalRequests |-> "none"]
                /\ authorization = [r \in ApprovalRequests |-> NotIssued]
                /\ admission = [r \in ApprovalRequests |-> "none"]
                /\ refused = {}

ApprovalFrame == UNCHANGED <<workflow, commands, clock>>

\* _matches_workflow, the configuration and the proposal being fixed.
MatchesWorkflow(r) ==
  LET w == request[r].workflow IN
  /\ workflow[w].state = "awaiting_authorization"
  /\ workflow[w].version = request[r].version

\* A request expires after it was made, which was no earlier than time 0; it may
\* be filed any time later.
CreateRequest(r, w, expires) ==
  /\ ~Requested(r)
  /\ expires > 0
  /\ workflow[w].state = "awaiting_authorization"
  /\ request' = [request EXCEPT ![r] = [workflow |-> w,
                   version |-> workflow[w].version, expires |-> expires]]
  /\ ApprovalFrame /\ UNCHANGED <<decision, authorization, admission, refused>>

\* _pending_request lets the caller go on.
Pending(r, at) == /\ Requested(r)
                  /\ decision[r] = "none"
                  /\ at < request[r].expires

Decide(r, kind) == decision' = [decision EXCEPT ![r] = kind]

Approve(r, at, expires) ==
  /\ Pending(r, at)
  /\ at < expires /\ expires <= request[r].expires
  /\ MatchesWorkflow(r)
  /\ Decide(r, "approved")
  /\ authorization' = [authorization EXCEPT ![r] =
                         [state |-> "issued", expires |-> expires]]
  /\ ApprovalFrame /\ UNCHANGED <<request, admission, refused>>

\* approve, reject or cancel finds the request expired, or approve finds that its
\* workflow moved on.  The terminal decision is inserted, and then the exception
\* that tells the caller rolls the transaction back.
Refuse(r, at) ==
  /\ Requested(r)
  /\ decision[r] = "none"
  /\ at >= request[r].expires \/ ~MatchesWorkflow(r)
  /\ refused' = refused \cup {r}
  /\ ApprovalFrame /\ UNCHANGED <<request, decision, authorization, admission>>

\* reject and cancel.
RejectOrCancel(r, at, kind) ==
  /\ Pending(r, at)
  /\ Decide(r, kind)
  /\ ApprovalFrame /\ UNCHANGED <<request, authorization, admission, refused>>

ExpireRequest(r, at) ==
  /\ Requested(r)
  /\ decision[r] = "none"
  /\ at >= request[r].expires
  /\ Decide(r, "expired")
  /\ ApprovalFrame /\ UNCHANGED <<request, authorization, admission, refused>>

SetAuthorization(r, state) ==
  authorization' = [authorization EXCEPT ![r].state = state]

\* Fault: an authorization whose admission was recorded is invalidated.
InvalidateAdmitted(r) ==
  /\ authorization[r].state \in {"issued", "consuming"}
  /\ SetAuthorization(r, "invalidated")
  /\ ApprovalFrame /\ UNCHANGED <<request, decision, admission, refused>>

InvalidateAuthorization(r) ==
  /\ authorization[r].state = "issued"
  /\ SetAuthorization(r, "invalidated")
  /\ ApprovalFrame /\ UNCHANGED <<request, decision, admission, refused>>

\* _admission_outcome: the status an admission gets.
AdmissionOutcome(r, intact, at) ==
  CASE authorization[r].state \in {"expired", "invalidated"} -> authorization[r].state
    [] authorization[r].state # "issued" \/ ~intact -> "invalidated"
    [] at >= authorization[r].expires -> "expired"
    [] ~MatchesWorkflow(r) -> "invalidated"
    [] OTHER -> "admitted"

\* admit on its own: the outcome is recorded once and for all, and the state of
\* the authorization follows it.
Admit(r, intact, at) ==
  LET outcome == AdmissionOutcome(r, intact, at) IN
  /\ authorization[r] # NotIssued
  /\ admission[r] = "none"
  /\ admission' = [admission EXCEPT ![r] = outcome]
  /\ SetAuthorization(r, IF outcome = "admitted" THEN "consuming" ELSE outcome)
  /\ ApprovalFrame /\ UNCHANGED <<request, decision, refused>>

MarkConsumed(r) ==
  /\ authorization[r].state = "consuming"
  /\ SetAuthorization(r, "consumed")
  /\ ApprovalFrame /\ UNCHANGED <<request, decision, admission, refused>>
=============================================================================
