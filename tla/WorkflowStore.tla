---------------------------- MODULE WorkflowStore ----------------------------
(***************************************************************************)
(* The durable workflow records of persistence/workflow_store.py: a state, *)
(* a version, and the commands that changed them.  Each action is one SQL  *)
(* transaction (BEGIN IMMEDIATE ... COMMIT) of WorkflowStore.              *)
(*                                                                         *)
(* Abstractions.  An idempotency key is the position at which its command  *)
(* was recorded: a fresh key takes the next position.  A command that is   *)
(* sent again under its key changes nothing (it is answered with the       *)
(* stored record, or refused when it differs), and so does one that is     *)
(* refused: neither is a step.  Audit events, which are written in the     *)
(* transaction of the change they describe, are left out.                  *)
(*                                                                         *)
(* clock is the wall clock.  A store never reads it: its callers do, at    *)
(* some moment before their transaction gets the database lock, and pass   *)
(* the time along.  It counts half seconds: an odd time has a fraction.    *)
(***************************************************************************)
EXTENDS Naturals, Sequences, FiniteSets

CONSTANTS Workflows,    \* workflow ids
          FirstStates,  \* bound: the states in which a workflow is recorded
          MaxVersion,   \* bound: workflow versions
          MaxTime       \* bound: of the clock

VARIABLES workflow,  \* workflow_records
          commands,  \* workflow_commands, by workflow
          clock

WorkflowState ==
  {"new", "previewing", "awaiting_authorization", "execution_admission",
   "executing", "calculating", "verifying", "completed", "failed_before_effect",
   "reconciliation_required", "quarantined", "rollback_previewing",
   "awaiting_rollback_authorization", "rollback_admission", "rolling_back",
   "rollback_verifying", "rolled_back", "abandoned"}

\* _LEGAL_TRANSITIONS
Legal ==
  [start_preview |-> <<"new", "previewing">>,
   record_preview |-> <<"previewing", "awaiting_authorization">>,
   reject_or_expire_preview |-> <<"awaiting_authorization", "abandoned">>,
   admit_execution |-> <<"awaiting_authorization", "execution_admission">>,
   start_execution |-> <<"execution_admission", "executing">>,
   start_calculation |-> <<"executing", "calculating">>,
   start_verification |-> <<"calculating", "verifying">>,
   complete |-> <<"verifying", "completed">>,
   fail_before_effect |-> <<"executing", "failed_before_effect">>,
   require_reconciliation |-> <<"executing", "reconciliation_required">>,
   recover_no_effect |-> <<"reconciliation_required", "failed_before_effect">>,
   quarantine |-> <<"reconciliation_required", "quarantined">>,
   start_rollback_preview |-> <<"completed", "rollback_previewing">>,
   record_rollback_preview |->
     <<"rollback_previewing", "awaiting_rollback_authorization">>,
   admit_rollback |-> <<"awaiting_rollback_authorization", "rollback_admission">>,
   start_rollback |-> <<"rollback_admission", "rolling_back">>,
   start_rollback_verification |-> <<"rolling_back", "rollback_verifying">>,
   complete_rollback |-> <<"rollback_verifying", "rolled_back">>]

Admission == "admit_execution_and_commit_intent"

ASSUME WorkflowAssumption == /\ FirstStates \subseteq WorkflowState
                             /\ MaxVersion \in Nat \ {0}
                             /\ MaxTime \in Nat

Versions == 1..MaxVersion
Times == 0..MaxTime

\* The moments at which a caller may have read the clock.
Past == 0..clock

WorkflowRecord == [state : WorkflowState, version : Versions]
Command == [name : DOMAIN Legal \cup {Admission},
            expected : Versions, resulting : Versions]

Unrecorded == [state |-> "unrecorded", version |-> 0]
Recorded(w) == workflow[w] # Unrecorded

WorkflowTypeOK ==
  /\ workflow \in [Workflows -> WorkflowRecord \cup {Unrecorded}]
  /\ commands \in [Workflows -> Seq(Command)]
  /\ clock \in Times

WorkflowInit == /\ workflow = [w \in Workflows |-> Unrecorded]
                /\ commands = [w \in Workflows |-> <<>>]
                /\ clock = 0

\* A new workflow id: any other is refused.
Record(w, state) ==
  /\ ~Recorded(w)
  /\ workflow' = [workflow EXCEPT ![w] = [state |-> state, version |-> 1]]
  /\ UNCHANGED <<commands, clock>>

\* The state and version change and the command that made it, written together.
MovesTo(w, state, name, expected) ==
  LET next == workflow[w].version + 1 IN
  /\ next <= MaxVersion
  /\ workflow' = [workflow EXCEPT ![w] = [state |-> state, version |-> next]]
  /\ commands' = [commands EXCEPT ![w] =
       Append(@, [name |-> name, expected |-> expected, resulting |-> next])]

\* Fault: the version the caller decided on is not compared.
TransitionUncompared(w, name, expected) ==
  /\ Recorded(w)
  /\ workflow[w].state = Legal[name][1]
  /\ MovesTo(w, Legal[name][2], name, expected)
  /\ UNCHANGED clock

\* One named transition under a fresh key, for a caller that decided on it when
\* the workflow had the expected version.
Transition(w, name, expected) ==
  /\ Recorded(w)
  /\ workflow[w].version = expected
  /\ workflow[w].state = Legal[name][1]
  /\ MovesTo(w, Legal[name][2], name, expected)
  /\ UNCHANGED clock

Tick == /\ clock < MaxTime
        /\ clock' = clock + 1
        /\ UNCHANGED <<workflow, commands>>
=============================================================================
