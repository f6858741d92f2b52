--------------------------- MODULE HeadlineHarness ---------------------------
(***************************************************************************)
(* DeterministicHeadlineHarness of gateway/fake.py: the ledger of changes  *)
(* applied directly to live values and of the rollbacks that undo them.    *)
(* Every method holds the lock, and so is one step; callers read the       *)
(* values of a preview, ask for their fingerprint, have the document       *)
(* authorized and present it, and others call and write in between.        *)
(*                                                                         *)
(* Abstractions.  A target is an asset with its one attribute; a digest is *)
(* what it digests, so that an authorization is bound to a document.  A    *)
(* call that is refused changes nothing, and is no step; documents and     *)
(* authorizations that expire are refused, so clocks are left out.  Load   *)
(* flows, their comparison and inventory pages change no value.  Callers   *)
(* draw documents up one after the other; those that are authorized are    *)
(* presented in any order.                                                 *)
(***************************************************************************)
EXTENDS Naturals, Sequences, FiniteSets

CONSTANTS Targets, Amounts,  \* what may be changed, and to what
          Lineages,          \* workflows
          MaxAuthorizations, \* bound: authorizations registered
          MaxOutside         \* bound: changes by others and faults injected

VARIABLES live,            \* _values
          workspace,       \* _workspace_revision
          counters,        \* _workflow_counters; 0 where there is none
          authorizations,  \* _registered_authorizations with _execution_states
          applied,         \* _applied
          interruptAfter,  \* _partial_mutation_after; 0 for None
          draft,           \* the preview or rollback plan that is drawn up
          writings,         \* history: what each consumed authorization wrote
          outside          \* counter

harnessVars == <<live, workspace, counters, authorizations, applied, interruptAfter,
                 draft, writings, outside>>

NoDocument == [kind |-> "none"]

HarnessInit == /\ live = [t \in Targets |-> 1]
               /\ workspace = 0
               /\ counters = [w \in Lineages |-> 0]
               /\ authorizations = <<>>
               /\ applied = <<>>
               /\ interruptAfter = 0
               /\ draft = NoDocument
               /\ writings = <<>>
               /\ outside = 0

TargetsOf(changes) == {changes[i].target : i \in DOMAIN changes}

\* live_state_fingerprint().
Fingerprint(changes) == [t \in TargetsOf(changes) |-> live[t]]

\* A workflow is known from its first authorization, at the version that states.
Version(w) == IF counters[w] = 0 THEN 1 ELSE counters[w]

-----------------------------------------------------------------------------
\* The caller of apply_change reads the values; a preview may name a target twice.
ReadForPreview ==
  /\ draft = NoDocument
  /\ Len(authorizations) < MaxAuthorizations
  /\ \E w \in Lineages, n \in 1..2, v \in Amounts : \E at \in [1..n -> Targets] :
       draft' =
         [kind |-> "change", workflow |-> w, version |-> Version(w), workspace |-> workspace,
          changes |-> [i \in 1..n |-> [target |-> at[i], before |-> live[at[i]], after |-> v]],
          change |-> 0, conflicts |-> {}, fingerprint |-> <<>>]
  /\ UNCHANGED <<live, workspace, counters, authorizations, applied, interruptAfter,
                 writings, outside>>

TakeFingerprint ==
  /\ draft.kind = "change"
  /\ draft.fingerprint = <<>>
  /\ draft' = [draft EXCEPT !.fingerprint = Fingerprint(draft.changes)]
  /\ UNCHANGED <<live, workspace, counters, authorizations, applied, interruptAfter,
                 writings, outside>>

\* Fault: what others wrote since is taken for what the change wrote.
NoneChanged(changes) == {}

ChangedSince(changes) == {t \in Targets : \E i \in DOMAIN changes :
                         changes[i].target = t /\ live[t] # changes[i].after}

\* plan_rollback(): in the version of any workflow.
PlanRollback(n, w) ==
  LET done == applied[n].changes IN
  /\ draft = NoDocument
  /\ Len(authorizations) < MaxAuthorizations
  /\ counters[w] > 0
  /\ draft' =
       [kind |-> "rollback", workflow |-> w, version |-> counters[w], workspace |-> workspace,
        changes |-> [i \in DOMAIN done |-> [target |-> done[i].target,
                                            before |-> live[done[i].target],
                                            after |-> done[i].before]],
        change |-> n, conflicts |-> ChangedSince(done), fingerprint |-> Fingerprint(done)]
  /\ UNCHANGED <<live, workspace, counters, authorizations, applied, interruptAfter,
                 writings, outside>>

\* register_test_authorization(): setdefault of the counter.
Registers(d) ==
  /\ Len(authorizations) < MaxAuthorizations
  /\ authorizations' = Append(authorizations, [document |-> d, state |-> "registered"])
  /\ counters' = [counters EXCEPT ![d.workflow] = IF @ = 0 THEN d.version ELSE @]
  /\ UNCHANGED <<live, workspace, applied, interruptAfter, writings, outside>>

Register == /\ draft.kind = "rollback" \/ (draft.kind = "change" /\ draft.fingerprint # <<>>)
            /\ Registers(draft)
            /\ draft' = NoDocument

\* Another authorization of a document that has one.
RegisterAgain(x) == Registers(authorizations[x].document) /\ UNCHANGED draft

-----------------------------------------------------------------------------
\* The revisions that apply_change and execute_rollback compare.
IsCurrent(d) == d.workspace = workspace /\ d.version = counters[d.workflow]

ValuesHold(d) == /\ d.fingerprint = Fingerprint(d.changes)
                 /\ \A i \in DOMAIN d.changes : live[d.changes[i].target] = d.changes[i].before

\* _require_registered_authorization() and _reserve_authorization(); the document
\* it is presented with is the one it is bound to.
Authorizes(x) == authorizations[x].state = "registered"
Reserve(x) == [authorizations EXCEPT ![x].state = "consumed"]

\* Where a second write of a target finds the first one there.
Clashes(changes) == {j \in DOMAIN changes : \E i \in 1..(j - 1) :
                       /\ changes[i].target = changes[j].target
                       /\ \A k \in (i + 1)..(j - 1) : changes[k].target # changes[j].target
                       /\ changes[i].after # changes[j].before}

\* The writes made before the first clash.
Unclashed(changes) == CHOOSE n \in 0..Len(changes) :
  /\ 1..n \cap Clashes(changes) = {}
  /\ n < Len(changes) => n + 1 \in Clashes(changes)

\* The values after the first n changes are written.
ValuesAfter(changes, n) == [t \in Targets |->
  LET writes == {i \in 1..n : changes[i].target = t} IN
  IF writes = {} THEN live[t]
  ELSE changes[CHOOSE i \in writes : \A j \in writes : j <= i].after]

Effect(x, d, n, recorded) ==
  [authorization |-> x, kind |-> d.kind, workflow |-> d.workflow, version |-> d.version,
   change |-> d.change, changes |-> SubSeq(d.changes, 1, n), recorded |-> recorded,
   overwrote |-> [t \in {d.changes[i].target : i \in 1..n} |-> live[t]]]

Confirmed(changes, n) == SubSeq(changes, 1, n)

\* _record_applied().
RecordApplied(d, n, status) ==
  /\ applied' = Append(applied, [changes |-> Confirmed(d.changes, n), status |-> status])
  /\ workspace' = workspace + 1
  /\ counters' = [counters EXCEPT ![d.workflow] = @ + 1]

\* The write that finds an unexpected value raises StaleContext, after the writes
\* before it, and nothing is recorded of them.
ApplyChange(x) ==
  LET d == authorizations[x].document
      n == Unclashed(d.changes)
      interrupted == interruptAfter # 0 /\ interruptAfter <= n
      count == IF interrupted THEN interruptAfter ELSE n
      recorded == interrupted \/ n = Len(d.changes) IN
  /\ d.kind = "change"
  /\ Authorizes(x)
  /\ IsCurrent(d)
  /\ ValuesHold(d)
  /\ authorizations' = Reserve(x)
  /\ live' = ValuesAfter(d.changes, count)
  /\ writings' = Append(writings, Effect(x, d, count, recorded))
  /\ interruptAfter' = IF interrupted THEN 0 ELSE interruptAfter
  /\ IF recorded
     THEN RecordApplied(d, count, IF interrupted THEN "reconciliation_required" ELSE "verified")
     ELSE UNCHANGED <<applied, workspace, counters>>
  /\ UNCHANGED <<draft, outside>>

ExecuteRollback(x) ==
  LET d == authorizations[x].document IN
  /\ d.kind = "rollback"
  /\ Authorizes(x)
  /\ IsCurrent(d)
  /\ ValuesHold(d)
  /\ d.conflicts = {}
  /\ authorizations' = Reserve(x)
  /\ live' = ValuesAfter(d.changes, Len(d.changes))
  /\ writings' = Append(writings, Effect(x, d, Len(d.changes), TRUE))
  /\ workspace' = workspace + 1
  /\ counters' = [counters EXCEPT ![d.workflow] = @ + 1]
  /\ UNCHANGED <<applied, interruptAfter, draft, outside>>

-----------------------------------------------------------------------------
\* force_external_change(): another writer.
ForceExternalChange(t, v) ==
  /\ outside < MaxOutside
  /\ outside' = outside + 1
  /\ live[t] # v
  /\ live' = [live EXCEPT ![t] = v]
  /\ UNCHANGED <<workspace, counters, authorizations, applied, interruptAfter,
                 draft, writings>>

InjectPartialMutation(n) ==
  /\ outside < MaxOutside
  /\ outside' = outside + 1
  /\ interruptAfter' = n
  /\ UNCHANGED <<live, workspace, counters, authorizations, applied, draft, writings>>

HarnessNext ==
  \/ ReadForPreview \/ TakeFingerprint \/ Register
  \/ \E n \in DOMAIN applied, w \in Lineages : PlanRollback(n, w)
  \/ \E x \in DOMAIN authorizations : RegisterAgain(x) \/ ApplyChange(x) \/ ExecuteRollback(x)
  \/ \E t \in Targets, v \in Amounts : ForceExternalChange(t, v)
  \/ \E n \in 1..2 : InjectPartialMutation(n)

HarnessSpec == HarnessInit /\ [][HarnessNext]_harnessVars

-----------------------------------------------------------------------------
Recorded == {e \in DOMAIN writings : writings[e].recorded}
Undoings == {e \in DOMAIN writings : writings[e].kind = "rollback"}

\* The recorded writings that are changes, in the order of the ledger.
ChangeOf(n) == CHOOSE e \in Recorded \ Undoings :
  Cardinality({f \in Recorded \ Undoings : f <= e}) = n

\* No authorization is spent twice, and no version of a workflow has two effects
\* that are recorded.
EffectsAreSingle == \A e, f \in DOMAIN writings : e # f =>
  /\ writings[e].authorization # writings[f].authorization
  /\ {e, f} \subseteq Recorded =>
       <<writings[e].workflow, writings[e].version>> # <<writings[f].workflow, writings[f].version>>

\* The ledger has what was written, of an interrupted change as of a whole one;
\* only a preview that changes a target twice leaves writes it has no record of.
EffectsAreRecorded ==
  /\ \A n \in DOMAIN applied : applied[n].changes = writings[ChangeOf(n)].changes
  /\ \A e \in DOMAIN writings \ Recorded :
       Clashes(authorizations[writings[e].authorization].document.changes) # {}

\* A rollback finds what its change wrote, and leaves what its change found there.
RollbacksUndo == \A e \in Undoings :
  LET change == writings[ChangeOf(writings[e].change)] IN
  /\ DOMAIN writings[e].overwrote = DOMAIN change.overwrote
  /\ \A i \in DOMAIN change.changes :
       writings[e].overwrote[change.changes[i].target] = change.changes[i].after
  /\ \A i \in DOMAIN writings[e].changes :
       writings[e].changes[i].after = change.overwrote[writings[e].changes[i].target]

\* The ledger of the harness can be trusted with a rollback: each effect was
\* authorized for itself alone, the ledger tells what it wrote although the change
\* was interrupted, and a rollback overwrites nothing but its own change, whatever
\* others wrote between its plan and its execution (apply_change, plan_rollback,
\* execute_rollback).
LedgerUndoes == EffectsAreSingle /\ EffectsAreRecorded /\ RollbacksUndo
==============================================================================
