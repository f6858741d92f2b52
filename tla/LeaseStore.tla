----------------------------- MODULE LeaseStore ------------------------------
(***************************************************************************)
(* The exclusive leases on the live PowerFactory context, with fencing     *)
(* tokens: persistence/lease_store.py.  Each action is one SQL transaction *)
(* of ContextLeaseStore, except expire_due, which reads the due leases in  *)
(* one and expires them in one more each.                                  *)
(*                                                                         *)
(* A scope is a service scope digest and a configuration key.  granted     *)
(* lists the leases ever issued, in order, and a lease id is a position in *)
(* it.  It is what a caller may still hold: acquire returns the lease, and *)
(* its holder presents id, token, owner and workflow version later on, by  *)
(* when the row may be gone.  A call the store refuses leaves the row as   *)
(* it is (it appends a stale_fence_rejected event) and is no step here.    *)
(***************************************************************************)
EXTENDS WorkflowStore

CONSTANTS Scopes,
          Owners,      \* owner instance ids
          Operations,  \* operation ids
          NoOperation,
          MaxGrants    \* bound: leases ever issued

ASSUME LeaseAssumption == /\ NoOperation \notin Operations
                          /\ MaxGrants \in Nat

VARIABLES lease,    \* context_leases: the current lease of a scope
          counter,  \* context_lease_fence_counters
          granted,  \* history: every lease as it was issued
          sweep     \* the expire_due() that runs: its time and what is left

leaseVars == <<lease, counter, granted, sweep>>

Modes == {"preview", "execution", "rollback"}
HELD_STATES == {"held_preview", "held_execution", "held_rollback"}
LeaseStates == HELD_STATES \cup {"in_flight_expired"}

HeldState(mode) == CASE mode = "preview" -> "held_preview"
                     [] mode = "execution" -> "held_execution"
                     [] mode = "rollback" -> "held_rollback"

ContextLease ==
  [id : 1..MaxGrants, scope : Scopes, workflow : Workflows, version : Versions,
   token : 1..MaxGrants, mode : Modes, state : LeaseStates, expires : Times,
   owner : Owners, operation : Operations \cup {NoOperation}]

\* The absence of a row.
Available == [state |-> "available"]
Leased(s) == lease[s] # Available
Held(s) == lease[s].state \in HELD_STATES

Idle == [at |-> 0, left |-> {}]

LeaseTypeOK == /\ lease \in [Scopes -> ContextLease \cup {Available}]
               /\ counter \in [Scopes -> 0..MaxGrants]
               /\ granted \in Seq(ContextLease)
               /\ sweep \in [at : Times, left : SUBSET Scopes]

LeaseInit == /\ lease = [s \in Scopes |-> Available]
             /\ counter = [s \in Scopes |-> 0]
             /\ granted = <<>>
             /\ sweep = Idle

\* Fault: the counter starts again when a scope is free.
MintTokenAnew(s) == IF Leased(s) THEN counter[s] + 1 ELSE 1

\* The next token of a scope; the counter outlives the lease rows.
MintToken(s) == counter[s] + 1

\* A free scope gets a new row: the issued lease, with the operation it starts.
Issue(s, l, op) ==
  /\ Len(granted) < MaxGrants
  /\ counter' = [counter EXCEPT ![s] = l.token]
  /\ granted' = Append(granted, l)
  /\ lease' = [lease EXCEPT ![s] = [l EXCEPT !.operation = op]]

NewLease(s, w, v, mode, o, expires) ==
  [id |-> Len(granted) + 1, scope |-> s, workflow |-> w, version |-> v,
   token |-> MintToken(s), mode |-> mode, state |-> HeldState(mode),
   expires |-> expires, owner |-> o, operation |-> NoOperation]

Acquire(s, w, mode, o, at, expires) ==
  /\ ~Leased(s)
  /\ Recorded(w)
  /\ expires > at
  /\ Issue(s, NewLease(s, w, workflow[w].version, mode, o, expires), NoOperation)
  /\ UNCHANGED <<workflow, commands, clock, sweep>>

\* Fault: the holder's copy of the workflow version is all that is compared.
HolderPassesAlone(s, h, o, at) ==
  /\ Held(s)
  /\ lease[s].id = h.id
  /\ lease[s].token = h.token
  /\ lease[s].owner = o
  /\ lease[s].version = h.version
  /\ at < lease[s].expires

\* _holder_failure finds nothing against the caller o that presents the lease h:
\* the row is its own, and the workflow is still at the version it was issued for.
HolderPasses(s, h, o, at) ==
  /\ Held(s)
  /\ lease[s].id = h.id
  /\ lease[s].token = h.token
  /\ lease[s].owner = o
  /\ lease[s].version = h.version
  /\ at < lease[s].expires
  /\ workflow[lease[s].workflow].version = lease[s].version

NoCallInFlight(s) == lease[s].operation = NoOperation

StartAtomicCall(s, h, o, op, at) ==
  /\ HolderPasses(s, h, o, at)
  /\ NoCallInFlight(s)
  /\ lease' = [lease EXCEPT ![s].operation = op]
  /\ UNCHANGED <<workflow, commands, clock, counter, granted, sweep>>

FinishAtomicCall(s, h, o, op, at) ==
  /\ HolderPasses(s, h, o, at)
  /\ lease[s].operation = op
  /\ lease' = [lease EXCEPT ![s].operation = NoOperation]
  /\ UNCHANGED <<workflow, commands, clock, counter, granted, sweep>>

\* release, and release_for_authorization of a preview lease.
Release(s, h, o, at, forAuthorization) ==
  /\ HolderPasses(s, h, o, at)
  /\ NoCallInFlight(s)
  /\ forAuthorization => lease[s].mode = "preview"
  /\ lease' = [lease EXCEPT ![s] = Available]
  /\ UNCHANGED <<workflow, commands, clock, counter, granted, sweep>>

\* Fault: an expired lease frees its scope whatever it was doing.
ExpiredFreely(s) == Available

\* What expire leaves: a call in flight may still take effect, so that its scope
\* stays leased.
Expired(s) == IF NoCallInFlight(s) THEN Available
              ELSE [lease[s] EXCEPT !.state = "in_flight_expired"]

Expirable(s, at) == Held(s) /\ at >= lease[s].expires

Expire(s, at) ==
  /\ Expirable(s, at)
  /\ lease' = [lease EXCEPT ![s] = Expired(s)]
  /\ UNCHANGED <<workflow, commands, clock, counter, granted, sweep>>

-----------------------------------------------------------------------------
(* expire_due.                                                             *)

\* expires_at <= ? compares the ISO texts of two times.  A time on the second has
\* no fraction and ends in "Z", which sorts after the "." of a fraction.
TextuallyNotAfter(a, b) ==
  \/ a \div 2 < b \div 2
  \/ a \div 2 = b \div 2 /\ (a % 2 = 1 \/ b % 2 = 0)

SweepReads(at) ==
  /\ sweep = Idle
  /\ sweep' = [at |-> at,
               left |-> {s \in Scopes : Held(s) /\ TextuallyNotAfter(lease[s].expires, at)}]
  /\ UNCHANGED <<workflow, commands, clock, lease, counter, granted>>

\* expire() is called for the scopes that were read, one by one.  When it raises,
\* the others are not tried.
SweepExpires(s) ==
  /\ s \in sweep.left
  /\ IF Expirable(s, sweep.at)
     THEN /\ lease' = [lease EXCEPT ![s] = Expired(s)]
          /\ sweep' = [sweep EXCEPT !.left = @ \ {s}]
     ELSE /\ sweep' = Idle
          /\ UNCHANGED lease
  /\ UNCHANGED <<workflow, commands, clock, counter, granted>>

SweepEnds == /\ sweep # Idle
             /\ sweep.left = {}
             /\ sweep' = Idle
             /\ UNCHANGED <<workflow, commands, clock, lease, counter, granted>>
=============================================================================
