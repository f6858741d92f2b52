------------------------------ MODULE Gateway ------------------------------
(***************************************************************************)
(* PowerFactoryGateway2026 of gateway/powerfactory2026.py: the handlers    *)
(* the owner thread runs, one at a time, each from the request in the row  *)
(* of its key to the result or the failure it leaves there.                *)
(*                                                                         *)
(* Abstractions.  A configuration key is the context it digests.  A result *)
(* cell is the execution it was calculated by.  What is logged, timestamps *)
(* and warnings are left out; reading the log is an operation like others. *)
(***************************************************************************)
EXTENDS GatewayOwner, NativeVendor

CONSTANTS Objects,   \* how many objects with results a project has
          PageSize   \* result_page_size of the load-flow service

\* LoadFlowService refuses a page size below one.
ASSUME PageAssumption == Objects \in Nat /\ PageSize \in Nat \ {0}

VARIABLES adapter,   \* the fields of PowerFactoryGateway2026
          visit      \* history: what was active when the vendor was attached,
                     \* whether an activation failed since, and how it closed

gatewayVars == <<adapter, visit, vendorVars, ownerVars>>

NewVisit(c) == [found |-> c, failed |-> FALSE, closed |-> "no"]

NewAdapter == [started |-> FALSE, context |-> NoContext, executions |-> <<>>,
               cursors |-> <<>>]

GatewayInit == /\ OwnerInit
               /\ VendorInit
               /\ adapter = NewAdapter
               /\ visit = NewVisit(engine.active)

Request(k) == operation[k].request

\* start(): a started gateway answers with the session it has.
StartSession(k) ==
  IF adapter.started
  THEN Done(k, <<>>) /\ UNCHANGED <<adapter, visit, vendorVars>>
  ELSE \/ /\ VendorStart
          /\ adapter' = [adapter EXCEPT !.started = TRUE]
          /\ visit' = NewVisit(engine.active)
          /\ Done(k, <<>>)
       \/ Raised(k) /\ UNCHANGED <<adapter, visit, vendorVars>>

\* activate_context(): the cached context changes only with a success.
ActivateContext(k) ==
  LET r == Request(k).context IN
  /\ IF ~adapter.started
     THEN Raised(k) /\ UNCHANGED <<adapter, visit, vendorVars>>
     ELSE \/ /\ VendorActivates(r)
             /\ adapter' = [adapter EXCEPT !.context = r]
             /\ Done(k, <<>>)
             /\ UNCHANGED visit
          \/ /\ VendorFails(r)
             /\ Raised(k)
             /\ visit' = [visit EXCEPT !.failed = TRUE]
             /\ UNCHANGED adapter

\* _require_configuration(): the key is compared with the cached context.
RequireConfiguration(c) == adapter.started /\ adapter.context # NoContext
                           /\ adapter.context = c

-----------------------------------------------------------------------------
\* The execution this session made for an idempotency key.
ExecutionsFor(key) == {e \in DOMAIN adapter.executions : adapter.executions[e].key = key}

Executed(e, key, ok) == [x \in DOMAIN adapter.executions \cup {e} |->
  IF x = e THEN [key |-> key, ok |-> ok] ELSE adapter.executions[x]]

\* Executed anew, not answered with the execution there is.
Executes(r) == RequireConfiguration(r.context) /\ ExecutionsFor(r.key) = {}

\* A command that raises is not cached, whether the engine had calculated or not.
ExecuteCommand(k) ==
  LET r == Request(k)
      e == Len(executed) + 1 IN
  /\ UNCHANGED visit
  /\ IF ~RequireConfiguration(r.context)
     THEN Raised(k) /\ UNCHANGED <<adapter, vendorVars>>
     ELSE IF ~Executes(r)
     THEN /\ \E x \in ExecutionsFor(r.key) :
               Done(k, [execution |-> x, ok |-> adapter.executions[x].ok])
          /\ UNCHANGED <<adapter, vendorVars>>
     ELSE \/ Raised(k) /\ UNCHANGED <<adapter, vendorVars>>
          \/ Raised(k) /\ VendorRaises(r.key) /\ UNCHANGED adapter
          \/ \E ok \in BOOLEAN :
               /\ VendorExecutes(r.key)
               /\ adapter' = [adapter EXCEPT !.executions = Executed(e, r.key, ok)]
               /\ Done(k, [execution |-> e, ok |-> ok])

\* Results are collected of an execution of this session that succeeded, and
\* with a cursor this session handed out for them.
Collects(r) == /\ RequireConfiguration(r.context)
               /\ r.execution \in DOMAIN adapter.executions
               /\ adapter.executions[r.execution].ok
               /\ r.cursor # <<>> => r.cursor \in DOMAIN adapter.cursors
               /\ engine.active.project = r.context.project

\* Fault: the next page begins one object too late.
OffsetPastPage(r) == IF r.cursor = <<>> THEN 0 ELSE adapter.cursors[r.cursor] + 1

\* _decode_cursor(): where the page begins.
Offset(r) == IF r.cursor = <<>> THEN 0 ELSE adapter.cursors[r.cursor]

\* _encode_cursor(): a token that is bound to what it continues.
Token(r) == <<Cardinality(DOMAIN adapter.cursors) + 1, r.execution>>

\* The cells are read from the objects as they are now; reading one may fail.
CollectResults(k) ==
  LET r == Request(k)
      next == IF Offset(r) + PageSize < Objects THEN Offset(r) + PageSize ELSE Objects
      page == [i \in 1..(next - Offset(r)) |-> engine.results]
      more == next < Objects IN
  /\ UNCHANGED <<visit, vendorVars>>
  /\ \/ Raised(k) /\ UNCHANGED adapter
     \/ /\ Collects(r)
        /\ Done(k, [values |-> page, next |-> IF more THEN Token(r) ELSE <<>>])
        /\ adapter' = IF more
                      THEN [adapter EXCEPT !.cursors = [t \in DOMAIN @ \cup {Token(r)} |->
                              IF t = Token(r) THEN next ELSE @[t]]]
                      ELSE adapter

\* read_logs(): needs no context.
ReadLogs(k) == /\ IF adapter.started THEN Done(k, <<>>)
                  ELSE Raised(k)
               /\ UNCHANGED <<adapter, visit, vendorVars>>

\* close(): succeeds as an operation even when the native restoration does not,
\* which only its result says.
CloseSession(k) ==
  IF ~adapter.started
  THEN Done(k, TRUE) /\ UNCHANGED <<adapter, visit, vendorVars>>
  ELSE \E ok \in BOOLEAN : /\ VendorCloses(ok)
                           /\ adapter' = NewAdapter
                           /\ visit' = [visit EXCEPT !.closed = IF ok THEN "restored" ELSE "unsure"]
                           /\ Done(k, ok)

\* The handler an operation names.
Serve(k) == CASE k[1] = "start" -> StartSession(k)
              [] k[1] = "activate" -> ActivateContext(k)
              [] k[1] = "execute" -> ExecuteCommand(k)
              [] k[1] = "results" -> CollectResults(k)
              [] k[1] = "logs" -> ReadLogs(k)
              [] k[1] = "close" -> CloseSession(k)
=============================================================================
