---------------------------- MODULE NativeVendor ----------------------------
(***************************************************************************)
(* The attached PowerFactory session of gateway/native_powerfactory2026.py *)
(* and what it drives.  The engine is external: one active project and     *)
(* study case, and the values the latest calculation left in its objects,  *)
(* which are only told apart by the calculation they come from.            *)
(*                                                                         *)
(* Abstractions.  The configuration checks of start() hold; native class   *)
(* and attribute mappings are accepted; every object of the active project *)
(* can be read.  The operational scenario, which the runtime never asks    *)
(* for, is left out.                                                       *)
(***************************************************************************)
EXTENDS Naturals, Sequences

CONSTANTS Projects,    \* projects of the current user
          StudyCases,  \* the study cases in the study folder of each
          Opened,      \* what may be open in an engine that was just acquired
          Nothing      \* no project, no study case

VARIABLES engine,    \* what is active, and whose values its objects hold
          executed,  \* history: the load flows performed, by idempotency key
          vendor     \* the fields of NativePowerFactory2026Vendor

vendorVars == <<engine, executed, vendor>>

NoContext == [project |-> Nothing, case |-> Nothing]

\* A new engine process, with what the user had open in it.
FreshEngine(c) == [active |-> c, results |-> 0]

NewVendor == [attached |-> FALSE, activated |-> FALSE, prior |-> NoContext,
              executions |-> {}]

VendorInit == /\ \E c \in Opened : engine = FreshEngine(c)
              /\ executed = <<>>
              /\ vendor = NewVendor

-----------------------------------------------------------------------------
\* GetApplicationExt: the one acquisition.
VendorStart == /\ vendor' = [vendor EXCEPT !.attached = TRUE]
               /\ UNCHANGED <<engine, executed>>

\* Fault: the prior context is read at each activation.
PriorOfLastActivation == engine.active

\* The context found by the first activation is the one to restore.
Prior == IF vendor.activated THEN vendor.prior ELSE engine.active

VendorActivates(r) ==
  /\ r.project \in Projects
  /\ r.case \in StudyCases[r.project]
  /\ vendor' = [vendor EXCEPT !.prior = Prior, !.activated = TRUE]
  /\ engine' = FreshEngine([project |-> r.project, case |-> r.case])
  /\ UNCHANGED executed

\* The project is not among the user's, or does not activate; or it is activated,
\* with one of its cases or none, and then the study case is missing or does not
\* activate: the exception leaves the project active.  Or all is activated, and
\* cannot be verified.
VendorFails(r) ==
  \/ /\ vendor' = [vendor EXCEPT !.prior = Prior]
     /\ \/ UNCHANGED engine
        \/ /\ r.project \in Projects
           /\ \E c \in StudyCases[r.project] \cup {Nothing} :
                engine' = FreshEngine([project |-> r.project, case |-> c])
     /\ UNCHANGED executed
  \/ VendorActivates(r)

\* ComLdf runs; whether it converges is the engine's affair.  The objects then
\* hold what it left, converged or not.
VendorExecutes(key) ==
  LET e == Len(executed) + 1 IN
  /\ executed' = Append(executed, key)
  /\ engine' = [engine EXCEPT !.results = e]
  /\ vendor' = [vendor EXCEPT !.executions = @ \cup {e}]

\* ComLdf calculates, and Execute raises or returns no status.
VendorRaises(key) == /\ executed' = Append(executed, key)
                     /\ engine' = [engine EXCEPT !.results = Len(executed) + 1]
                     /\ UNCHANGED vendor

\* close(): restores what was found if a context was activated, and forgets
\* everything, whether the native calls succeed (ok) or not.
VendorCloses(ok) ==
  /\ engine' = IF ok /\ vendor.activated /\ vendor.prior.project # Nothing
               THEN FreshEngine(vendor.prior) ELSE engine
  /\ vendor' = NewVendor
  /\ UNCHANGED executed
=============================================================================
