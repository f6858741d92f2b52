------------------------- MODULE MCSerializedWorker -------------------------
(* Instances of SerializedWorker and ReplacementOwner for TLC. *)
EXTENDS ReplacementOwner, TLC

Symmetry == Permutations(Keys) \cup Permutations(Requests) \cup Permutations(Clients)

\* The deadlines that some step can still read: states that differ in the others
\* only have the same future.
LiveDeadlines(k) == CASE rec[k].state = "QUEUED" -> due[k]
                      [] rec[k].state \in InFlight -> due[k] \ {"queue"}
                      [] OTHER -> {}

View == <<rec, order, [k \in Keys |-> LiveDeadlines(k)], current, worker, owner,
          watchdog, client, calls, faults>>
=============================================================================
