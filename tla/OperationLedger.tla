-------------------------- MODULE OperationLedger ---------------------------
(***************************************************************************)
(* What a caller of the gateway owner may rely on, whatever threads,       *)
(* deadlines and crashes are behind it: an admitted operation waits, is    *)
(* begun at most once, performs its native call at most once and only      *)
(* after it was begun, and ends in one outcome for good.  A cancelled      *)
(* operation never performs; one reported done or failed has performed;    *)
(* one whose outcome is unknown may have, or may still.                    *)
(***************************************************************************)
EXTENDS Naturals

CONSTANT Keys

VARIABLES phase,     \* of each operation
          performed  \* whether its native call was made

ledgerVars == <<phase, performed>>

Phases == {"absent", "waiting", "begun", "cancelled", "done", "failed", "unknown"}

LedgerTypeOK == /\ phase \in [Keys -> Phases]
                /\ performed \in [Keys -> BOOLEAN]

LedgerInit == /\ phase = [k \in Keys |-> "absent"]
              /\ performed = [k \in Keys |-> FALSE]

Becomes(k, p) == /\ phase' = [phase EXCEPT ![k] = p]
                 /\ UNCHANGED performed

Accept(k) == phase[k] = "absent" /\ Becomes(k, "waiting")
Begin(k) == phase[k] = "waiting" /\ Becomes(k, "begun")

Perform(k) == /\ phase[k] \in {"begun", "unknown"}
              /\ ~performed[k]
              /\ performed' = [performed EXCEPT ![k] = TRUE]
              /\ UNCHANGED phase

Conclude(k) == /\ phase[k] = "begun"
               /\ performed[k]
               /\ \E p \in {"done", "failed"} : Becomes(k, p)

Doubt(k) == phase[k] = "begun" /\ Becomes(k, "unknown")

\* Waiting operations are cancelled together when a worker stops or is built,
\* and one by one when their deadline passes.
Withdraw == \E ks \in SUBSET {k \in Keys : phase[k] = "waiting"} :
              /\ phase' = [k \in Keys |-> IF k \in ks THEN "cancelled" ELSE phase[k]]
              /\ UNCHANGED performed

\* A worker that is built finds every begun operation without an outcome.
Orphan == /\ phase' = [k \in Keys |-> IF phase[k] = "begun" THEN "unknown"
                                      ELSE phase[k]]
          /\ UNCHANGED performed

LedgerNext == \/ \E k \in Keys : \/ Accept(k) \/ Begin(k) \/ Perform(k)
                                 \/ Conclude(k) \/ Doubt(k)
              \/ Withdraw \/ Orphan

LedgerSpec == LedgerInit /\ [][LedgerNext]_ledgerVars
=============================================================================
