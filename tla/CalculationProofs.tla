-------------------------- MODULE CalculationProofs --------------------------
(***************************************************************************)
(* What a validated load flow stores, for any number of callers, keys,     *)
(* objects, page sizes, faults and restarts: RetriesAgree and              *)
(* ConvergedIsComplete; and what a comparison of two snapshots says of     *)
(* them, TrendsFollowOverlays.                                             *)
(*                                                                         *)
(* A run is made of rows of the table: the command of its key, and the     *)
(* pages, each of which was asked for with the cursor of the one before.   *)
(* PagesInv says what these rows tell (TableTold), that a caller who goes  *)
(* on has read them so far (FlowsTold), and that runs are what they tell   *)
(* (RunsTold).  A row that is done stays as it is, which is what makes the *)
(* later attempts agree with the earlier.                                  *)
(***************************************************************************)
EXTENDS SessionProofs, Comparison, SequenceTheorems

\* The rows of an idempotency key from which its runs are made.
ExecuteKey(key) == <<"execute", key>>
PageKey(key, n) == <<"results", <<key, n>>>>
Told == {"execute", "results"}

IsDone(k) == k \in DOMAIN operation /\ State(k) = "done"

\* How many objects the pages before the nth have.
Start(n) == n * PageSize

\* What is queued has no result yet.
Undone == \A i \in DOMAIN queue : State(queue[i]) # "done"

\* What the gateway remembers was performed, and the objects hold values that are not
\* older; there are executions and requests for them only while a context is active.
Memory == /\ engine.results \in 0..Len(executed)
          /\ \A e \in DOMAIN adapter.executions : /\ e \in 1..engine.results
                                                  /\ executed[e] = adapter.executions[e].key
                                                  /\ active # NoContext
          /\ \A i \in DOMAIN queue : queue[i][1] = "execute" => active # NoContext

\* The cursors are numbered as they are handed out.
TokensNumbered == LET tokens == DOMAIN adapter.cursors IN
  /\ IsFiniteSet(tokens)
  /\ \A c \in tokens : c[1] \in Nat /\ c[1] <= Cardinality(tokens)

\* A command that is done names the execution of its key.
ExecutionsTold == \A k \in DOMAIN operation : k[1] = "execute" /\ State(k) = "done" =>
  /\ Result(k).execution \in DOMAIN executed
  /\ executed[Result(k).execution] = k[2]

\* The request r of page n goes on where the page before it ended.
Follows(key, n, r) ==
  /\ IsDone(ExecuteKey(key))
  /\ r.execution = Result(ExecuteKey(key)).execution
  /\ n = 0 => r.cursor = <<>>
  /\ n # 0 => /\ IsDone(PageKey(key, n - 1))
              /\ r.cursor = Result(PageKey(key, n - 1)).next
              /\ r.cursor # <<>>

\* The cursor of a page of an execution this session knows stands for its end.
CursorTold(k) == Request(k).execution \in DOMAIN adapter.executions =>
  /\ Result(k).next \in DOMAIN adapter.cursors
  /\ adapter.cursors[Result(k).next] = Start(k[2][2] + 1)

\* The values of a page that is done, none older than its execution: a full page that
\* is not the last, or the rest of the objects.
PageTold(k) == LET page == Result(k).values IN
  /\ page \in Seq(Nat) /\ Len(page) <= PageSize
  /\ \A i \in DOMAIN page : page[i] >= Request(k).execution
  /\ Result(k).next = <<>> => Start(k[2][2]) + Len(page) = Objects
  /\ Result(k).next # <<>> => /\ Len(page) = PageSize
                              /\ Start(k[2][2] + 1) < Objects
                              /\ CursorTold(k)

PagesTold == \A k \in DOMAIN operation : k[1] = "results" =>
  /\ k[2][2] \in Nat /\ k = PageKey(k[2][1], k[2][2])
  /\ Follows(k[2][1], k[2][2], Request(k))
  /\ State(k) = "done" => PageTold(k)

TableTold == Undone /\ Memory /\ TokensNumbered /\ ExecutionsTold /\ PagesTold

\* The value at i is the one in the row of its page.
Cell(key, i, v) == \E n \in Nat, j \in 1..PageSize :
  /\ i = Start(n) + j
  /\ IsDone(PageKey(key, n))
  /\ j \in DOMAIN Result(PageKey(key, n)).values
  /\ v = Result(PageKey(key, n)).values[j]

Collected(key, values) == /\ values \in Seq(Nat)
                          /\ \A i \in DOMAIN values : Cell(key, i, values[i])

Named(key, e) == IsDone(ExecuteKey(key)) /\ e = Result(ExecuteKey(key)).execution

\* A call goes on from a command that is done, with the pages before the one it waits for.
Going(c) ==
  /\ c.pc \in {"called", "execute", "logs", "results"} => active # NoContext
  /\ c.pc \in {"called", "execute", "logs"} => c.values = <<>>
  /\ c.pc = "execute" => c.op = ExecuteKey(c.key)
  /\ c.pc \in {"logs", "results"} => Named(c.key, c.execution)
  /\ c.pc = "results" => /\ Collected(c.key, c.values)
                         /\ \E n \in Nat : c.op = PageKey(c.key, n) /\ Len(c.values) = Start(n)

FlowTold(t) == /\ Going(call[t])
               /\ call[t].pc \in {"execute", "results"} => Op(t) \in DOMAIN operation

FlowsTold == \A t \in Threads : FlowTold(t)

RunTold(run) == IF run.state = "CONVERGED"
                THEN /\ Len(run.values) = Objects
                     /\ Collected(run.key, run.values)
                     /\ Named(run.key, run.execution)
                ELSE run.values = <<>>

RunsTold == \A run \in runs : RunTold(run)

PagesInv == TableTold /\ FlowsTold /\ RunsTold

-----------------------------------------------------------------------------
\* Where pages begin.
LEMMA StartOfPages ==
  /\ Start(0) = 0
  /\ \A n \in Nat : /\ Start(n) \in Nat
                    /\ Start(n + 1) = Start(n) + PageSize
  BY PageAssumption DEF Start

\* A later page begins after the end of an earlier one.
LEMMA PagesApart ==
  ASSUME NEW n \in Nat, NEW m \in Nat, NEW i \in 1..PageSize, NEW j \in 1..PageSize,
         Start(n) + i = Start(m) + j
  PROVE  n = m /\ i = j
<1>1. \A a, b \in Nat : a < b => Start(a) + PageSize <= Start(b)
  <2> SUFFICES ASSUME NEW a \in Nat, NEW b \in Nat, a < b
               PROVE  Start(a) + PageSize <= Start(b)
    OBVIOUS
  <2>1. PICK d \in Nat : b = a + 1 + d
    <3>1. b - a - 1 \in Nat /\ b = a + 1 + (b - a - 1)
      OBVIOUS
    <3> QED BY <3>1
  <2>2. (a + 1 + d) * PageSize = a * PageSize + PageSize + d * PageSize
    <3>1. \A p \in Nat : (a + 1 + d) * p = a * p + p + d * p
      OBVIOUS
    <3> QED BY <3>1, PageAssumption
  <2>3. /\ d * PageSize \in Nat /\ a * PageSize \in Nat
        /\ b * PageSize = (a + 1 + d) * PageSize
    BY <2>1, PageAssumption
  <2>4. /\ Start(a) \in Nat /\ Start(b) \in Nat /\ d * PageSize \in Nat /\ PageSize \in Nat
        /\ Start(b) = Start(a) + PageSize + d * PageSize
    BY <2>2, <2>3, PageAssumption DEF Start
  <2> HIDE DEF Start
  <2>5. \A x, y, p, q \in Nat : y = x + p + q => x + p <= y
    OBVIOUS
  <2> QED BY <2>4, <2>5
<1>2. Start(n) \in Nat /\ Start(m) \in Nat /\ PageSize \in Nat
  BY StartOfPages, PageAssumption
<1>3. ~(n < m)
  BY <1>1, <1>2
<1>4. ~(m < n)
  BY <1>1, <1>2
<1>5. n = m
  BY <1>3, <1>4
<1> QED BY <1>2, <1>5

-----------------------------------------------------------------------------
\* Rows of executions and pages stay, with their requests; what is done stays as it is.
Keeps == \A k \in DOMAIN operation : k[1] \in Told =>
  /\ k \in DOMAIN operation'
  /\ operation'[k].request = operation[k].request
  /\ State(k) = "done" => operation'[k] = operation[k]

\* None of them becomes done.
NoNews == \A k \in DOMAIN operation' : k[1] \in Told /\ operation'[k].state = "done" =>
            k \in DOMAIN operation /\ State(k) = "done"

\* None of them is new.
NoneNew == \A k \in DOMAIN operation' : k[1] \in Told => k \in DOMAIN operation

\* What was served keeps the other rows, and may be done.
LEMMA ConcludesKeeps ==
  ASSUME OpInv, Undone, queue # <<>>, NEW state, NEW x, Concludes(NextServed, state, x)
  PROVE  /\ Keeps /\ NoneNew /\ Undone' /\ DOMAIN operation' = DOMAIN operation
         /\ NextServed \in DOMAIN operation /\ State(NextServed) # "done"
         /\ \A k \in DOMAIN operation : k # NextServed => operation'[k] = operation[k]
         /\ operation'[NextServed].state = "done" =>
              state = "done" /\ operation'[NextServed].result = x
<1>1. NextServed \in DOMAIN operation /\ State(NextServed) # "done"
  BY HeadOfQueue DEF Undone
<1>2. /\ DOMAIN operation' = DOMAIN operation
      /\ \A k \in DOMAIN operation : k # NextServed => operation'[k] = operation[k]
  BY DEF Concludes
<1>3. /\ operation'[NextServed].request = operation[NextServed].request
      /\ operation'[NextServed].state = "done" =>
           state = "done" /\ operation'[NextServed].result = x
  <2>1. DOMAIN operation[NextServed] = RowFields
    BY <1>1 DEF OpInv, RowsShaped
  <2> QED BY <1>1, <2>1 DEF Concludes, State, RowFields
<1>4. Keeps /\ NoneNew
  BY <1>1, <1>2, <1>3 DEF Keeps, NoneNew, State
<1>5. Undone'
  <2> SUFFICES ASSUME NEW i \in DOMAIN queue' PROVE operation'[queue'[i]].state # "done"
    BY DEF Undone, State
  <2>1. PICK j \in DOMAIN queue : queue'[i] = queue[j] /\ queue[j] # NextServed
    BY ConcludesRewrites DEF Shrinks
  <2>2. queue[j] \in DOMAIN operation
    BY DEF OpInv, Queued
  <2> QED BY <1>2, <2>1, <2>2 DEF Undone, State
<1> QED BY <1>1, <1>2, <1>3, <1>4, <1>5

\* A new row of an execution or a page waits, and is queued.
LEMMA SubmitKeeps ==
  ASSUME OpInv, Undone, NEW k, NEW r, Submits(k, r)
  PROVE  /\ Keeps /\ NoNews /\ Undone'
         /\ DOMAIN operation' = DOMAIN operation \cup {k}
         /\ operation'[k].request = r
<1>1. /\ DOMAIN operation' = DOMAIN operation \cup {k}
      /\ operation'[k].request = r /\ operation'[k].state = "waiting"
      /\ \A x \in DOMAIN operation : operation'[x] = operation[x]
  <2>1. operation' = With(k, r) /\ k \notin DOMAIN operation
    BY DEF Submits
  <2>2. /\ DOMAIN operation' = DOMAIN operation \cup {k}
        /\ operation'[k] = Row(r) /\ Row(r).request = r /\ Row(r).state = "waiting"
        /\ \A x \in DOMAIN operation : x # k => operation'[x] = operation[x]
    BY <2>1, WithAdds
  <2> QED BY <2>1, <2>2
<1>2. Keeps
  BY <1>1 DEF Keeps
<1>3. NoNews
  <2> SUFFICES ASSUME NEW x \in DOMAIN operation', operation'[x].state = "done"
               PROVE  x \in DOMAIN operation /\ State(x) = "done"
    BY DEF NoNews
  <2>1. x # k
    BY <1>1
  <2> QED BY <1>1, <2>1 DEF State
<1>4. Undone'
  <2> SUFFICES ASSUME NEW i \in DOMAIN queue' PROVE operation'[queue'[i]].state # "done"
    BY DEF Undone, State
  <2>1. /\ queue \in Seq(DOMAIN operation) /\ Len(queue) \in Nat
        /\ DOMAIN queue = 1..Len(queue)
        /\ queue' = Append(queue, k)
    BY DEF OpInv, Queued, Submits
  <2>2. queue \in Seq(DOMAIN operation \cup {k})
    BY <2>1, SeqGrows
  <2>3. CASE i \in DOMAIN queue
    BY <1>1, <2>1, <2>2, <2>3 DEF Undone, State
  <2>4. CASE i \notin DOMAIN queue
    <3>1. queue'[i] = k
      BY <2>1, <2>2, <2>4
    <3> QED BY <1>1, <3>1
  <2> QED BY <2>3, <2>4
<1> QED BY <1>1, <1>2, <1>3, <1>4

\* What is queued of commands was queued before.
Requeues == \A i \in DOMAIN queue' : queue'[i][1] = "execute" =>
              \E j \in DOMAIN queue : queue[j] = queue'[i]

\* Rows that are cancelled or left for reconciliation, and a queue that shrinks.
LEMMA GiveUpKeeps ==
  ASSUME OpInv, Undone, Shrinks,
         DOMAIN operation' = DOMAIN operation,
         \A k \in DOMAIN operation :
           /\ operation'[k].request = operation[k].request
           /\ \/ operation'[k] = operation[k]
              \/ State(k) # "done" /\ operation'[k].state # "done"
  PROVE  Keeps /\ NoNews /\ NoneNew /\ Undone' /\ Requeues
<1>1. Keeps /\ NoNews /\ NoneNew
  BY DEF Keeps, NoNews, NoneNew, State
<1>2. Undone'
  <2> SUFFICES ASSUME NEW i \in DOMAIN queue' PROVE operation'[queue'[i]].state # "done"
    BY DEF Undone, State
  <2>1. PICK j \in DOMAIN queue : queue'[i] = queue[j]
    BY DEF Shrinks
  <2>2. queue[j] \in DOMAIN operation
    BY DEF OpInv, Queued
  <2> QED BY <2>1, <2>2 DEF Undone, State
<1>3. Requeues
  BY DEF Requeues, Shrinks
<1> QED BY <1>1, <1>2, <1>3

\* The steps by which no operation is submitted or performed.
Rests == \/ UNCHANGED ownerVars /\ Quiet
         \/ (\E s : ShutdownSerialization(s)) /\ Quiet
         \/ Builds
         \/ Stops /\ Quiet
         \/ Restarts

LEMMA RestKeeps ==
  ASSUME OpInv, Undone, Rests
  PROVE  Keeps /\ NoNews /\ NoneNew /\ Undone' /\ Requeues
<1>1. \A k \in DOMAIN operation : DOMAIN operation[k] = RowFields
  BY DEF OpInv, RowsShaped
<1>2. /\ DOMAIN Cancelled = DOMAIN operation
      /\ \A k \in DOMAIN operation : /\ Cancelled[k].request = operation[k].request
                                     /\ \/ Cancelled[k] = operation[k]
                                        \/ State(k) # "done" /\ Cancelled[k].state # "done"
  BY <1>1 DEF Cancelled, RowFields, State
<1>3. CASE UNCHANGED ownerVars
  BY <1>3 DEF ownerVars, Keeps, NoNews, NoneNew, Undone, Requeues, State
<1>4. CASE \E s : ShutdownSerialization(s)
  <2>1. Shrinks
    BY <1>4, ShutdownShrinks DEF ShutdownSerialization, Hangs
  <2>2. operation' = Cancelled
    BY <1>4 DEF ShutdownSerialization
  <2> QED BY <1>2, <2>1, <2>2, GiveUpKeeps
<1>5. CASE Builds
  <2> DEFINE k == FreshKey("start")
  <2>1. PICK r : operation' = With(k, r)
    BY <1>5 DEF Builds
  <2>2. k[1] \notin Told /\ k[1] # "execute"
    BY DEF FreshKey, Told
  <2>3. DOMAIN queue' = {1} /\ queue'[1] = k
    BY <1>5 DEF Builds
  <2> HIDE DEF k
  <2>4. /\ DOMAIN operation' = DOMAIN operation \cup {k}
        /\ operation'[k].state = "waiting"
        /\ \A x \in DOMAIN operation : x # k => operation'[x] = operation[x]
    BY <2>1, WithAdds
  <2>5. Keeps /\ NoNews /\ NoneNew
    BY <2>2, <2>4 DEF Keeps, NoNews, NoneNew, State
  <2>6. Undone' /\ Requeues
    BY <2>2, <2>3, <2>4 DEF Undone, Requeues, State
  <2> QED BY <2>5, <2>6
<1>6. CASE Stops
  <2>1. CASE \E i \in DOMAIN queue : CancelQueued(i)
    <3>1. PICK i \in DOMAIN queue : CancelQueued(i)
      BY <2>1
    <3>2. /\ Shrinks /\ queue[i] \in DOMAIN operation /\ State(queue[i]) = "waiting"
          /\ operation' = [operation EXCEPT ![queue[i]].state = "cancelled"]
      BY <3>1, CancelTakesOne
    <3>3. /\ DOMAIN operation' = DOMAIN operation
          /\ \A k \in DOMAIN operation : k # queue[i] => operation'[k] = operation[k]
          /\ operation'[queue[i]].request = operation[queue[i]].request
          /\ operation'[queue[i]].state # "done"
      BY <1>1, <3>2 DEF RowFields
    <3> QED BY <3>2, <3>3, GiveUpKeeps
  <2>2. CASE queue # <<>> /\ Quarantine(NextServed)
    <3>1. Shrinks
      BY <2>2 DEF Quarantine, Shrinks, OpInv, Queued
    <3>2. NextServed \in DOMAIN operation /\ State(NextServed) # "done"
      BY <2>2, HeadOfQueue DEF Undone
    <3>3. /\ DOMAIN operation' = DOMAIN operation
          /\ \A k \in DOMAIN operation : k # NextServed => operation'[k] = operation[k]
          /\ operation'[NextServed].request = operation[NextServed].request
          /\ operation'[NextServed].state # "done"
      BY <1>1, <2>2, <3>2 DEF Quarantine, RowFields
    <3> QED BY <3>1, <3>2, <3>3, GiveUpKeeps
  <2> QED BY <1>6, <2>1, <2>2 DEF Stops
<1>7. CASE Restarts
  <2>1. Shrinks
    BY <1>7, ShutdownShrinks DEF Restarts
  <2>2. CASE operation' = Cancelled
    BY <1>2, <2>1, <2>2, GiveUpKeeps
  <2>3. CASE queue # <<>> /\ operation' = Orphans(NextServed)
    <3> DEFINE k == NextServed
    <3>1. k \in DOMAIN operation /\ State(k) # "done"
      BY <2>3, HeadOfQueue DEF Undone
    <3>2. /\ DOMAIN operation' = DOMAIN operation
          /\ \A x \in DOMAIN operation : x # k => operation'[x] = Cancelled[x]
          /\ operation'[k] = [operation[k] EXCEPT !.state = "unknown"]
      BY <2>3, <3>1 DEF Orphans
    <3>3. operation'[k].request = operation[k].request /\ operation'[k].state # "done"
      BY <1>1, <3>1, <3>2 DEF RowFields
    <3> HIDE DEF k
    <3> QED BY <1>2, <2>1, <3>1, <3>2, <3>3, GiveUpKeeps
  <2> QED BY <1>7, <2>2, <2>3 DEF Restarts, EndsInCall
<1> QED BY <1>3, <1>4, <1>5, <1>6, <1>7 DEF Rests

\* Each step rests, submits or serves.
LEMMA StepRestsOrNot ==
  ASSUME GatewayStep
  PROVE  \/ Rests
         \/ (\E k, r : GoodKey(k, r) /\ Submits(k, r)) /\ Quiet
         \/ queue # <<>> /\ Serve(NextServed)
  BY DEF GatewayStep, Rests

\* What every step keeps of the rows.
LEMMA StepKeepsDone ==
  ASSUME OpInv, Undone, GatewayStep
  PROVE  Keeps /\ Undone'
<1>1. CASE Rests
  BY <1>1, RestKeeps
<1>2. CASE \E k, r : Submits(k, r)
  BY <1>2, SubmitKeeps
<1>3. CASE queue # <<>> /\ Serve(NextServed)
  BY <1>3, ServeConcludes, ConcludesKeeps
<1> QED BY <1>1, <1>2, <1>3, StepRestsOrNot

-----------------------------------------------------------------------------
\* Executions are only added to the history.
ExecutedGrows == /\ DOMAIN executed \subseteq DOMAIN executed'
                 /\ \A e \in DOMAIN executed : executed'[e] = executed[e]

\* The gateway learns of no execution it did not make in this step, and while it knows
\* an execution it keeps the cursors.
GatewayKeeps == /\ \A e \in DOMAIN adapter'.executions :
                     e \in DOMAIN adapter.executions \/ e \notin DOMAIN executed
                /\ \A e \in DOMAIN adapter.executions : e \in DOMAIN adapter'.executions =>
                     \A c \in DOMAIN adapter.cursors : /\ c \in DOMAIN adapter'.cursors
                                                       /\ adapter'.cursors[c] = adapter.cursors[c]

\* What is done stays done, with its request and its result.
LEMMA DoneLasts ==
  ASSUME Keeps
  PROVE  \A k : k[1] \in Told /\ IsDone(k) =>
           /\ k \in DOMAIN operation'
           /\ operation'[k] = operation[k] /\ operation[k].state = "done"
  BY DEF Keeps, IsDone, State

\* The place of a page among the others is settled when it is asked for.
LEMMA FollowsLasts ==
  ASSUME Keeps, NEW key, NEW n \in Nat, NEW r, Follows(key, n, r)
  PROVE  Follows(key, n, r)'
<1>1. IsDone(ExecuteKey(key)) /\ r.execution = Result(ExecuteKey(key)).execution
  BY DEF Follows
<1>2. IsDone(ExecuteKey(key))' /\ r.execution = Result(ExecuteKey(key))'.execution
  <2> DEFINE k == ExecuteKey(key)
  <2>1. k[1] \in Told
    BY DEF ExecuteKey, Told
  <2>2. /\ k \in DOMAIN operation'
        /\ operation'[k] = operation[k] /\ operation[k].state = "done"
    BY <1>1, <2>1, DoneLasts
  <2> QED BY <1>1, <2>2 DEF IsDone, State, Result, ExecuteKey
<1>3. ASSUME n # 0
      PROVE  /\ IsDone(PageKey(key, n - 1))'
             /\ r.cursor = Result(PageKey(key, n - 1))'.next
             /\ r.cursor # <<>>
  <2> DEFINE k == PageKey(key, n - 1)
  <2>1. k[1] \in Told
    BY DEF PageKey, Told
  <2>2. IsDone(k) /\ r.cursor = Result(k).next /\ r.cursor # <<>>
    BY <1>3 DEF Follows
  <2>3. /\ k \in DOMAIN operation'
        /\ operation'[k] = operation[k] /\ operation[k].state = "done"
    BY <2>1, <2>2, DoneLasts
  <2> QED BY <2>2, <2>3 DEF IsDone, State, Result, PageKey
<1> QED BY <1>2, <1>3 DEF Follows

\* The execution a page belongs to was performed.
LEMMA PageExecution ==
  ASSUME TableTold, NEW key, NEW n, NEW r, Follows(key, n, r)
  PROVE  r.execution \in DOMAIN executed
<1>1. ExecuteKey(key)[1] = "execute"
  BY DEF ExecuteKey
<1> QED BY <1>1 DEF Follows, IsDone, TableTold, ExecutionsTold

\* A page that is done lasts, and its cursor as long as its execution is known.
LEMMA PagesLast ==
  ASSUME TableTold, Keeps, GatewayKeeps,
         NEW k \in DOMAIN operation, k[1] = "results"
  PROVE  /\ k[2][2] \in Nat /\ k = PageKey(k[2][1], k[2][2])
         /\ Follows(k[2][1], k[2][2], Request(k))'
         /\ State(k) = "done" => PageTold(k)' /\ operation'[k] = operation[k]
<1>1. /\ k[2][2] \in Nat /\ k = PageKey(k[2][1], k[2][2])
      /\ Follows(k[2][1], k[2][2], Request(k))
      /\ State(k) = "done" => PageTold(k)
  BY DEF TableTold, PagesTold
<1>2. k[1] \in Told
  BY DEF Told
<1>3. Follows(k[2][1], k[2][2], Request(k))'
  <2>1. PICK r : r = Request(k)
    OBVIOUS
  <2>2. Request(k)' = r
    BY <1>2, <2>1 DEF Keeps, Request
  <2>3. Follows(k[2][1], k[2][2], r)
    BY <1>1, <2>1
  <2>4. Follows(k[2][1], k[2][2], r)'
    BY <1>1, <2>3, FollowsLasts
  <2> QED BY <2>2, <2>4 DEF Follows
<1>4. ASSUME State(k) = "done" PROVE PageTold(k)' /\ operation'[k] = operation[k]
  <2>1. operation'[k] = operation[k] /\ PageTold(k)
    BY <1>1, <1>2, <1>4 DEF Keeps
  <2>2. CursorTold(k) => CursorTold(k)'
    <3>1. Request(k).execution \in DOMAIN executed
      BY <1>1, PageExecution
    <3> QED BY <2>1, <3>1 DEF GatewayKeeps, CursorTold, Request, Result, Start
  <2> QED BY <2>1, <2>2 DEF PageTold, Request, Result, Start
<1> QED BY <1>1, <1>3, <1>4

\* What every step keeps of the rows that tell what was executed.
LEMMA ToldLasts ==
  ASSUME TableTold, Keeps, GatewayKeeps, ExecutedGrows, NoNews, NoneNew
  PROVE  ExecutionsTold' /\ PagesTold'
<1>1. ExecutionsTold'
  <2> SUFFICES ASSUME NEW k \in DOMAIN operation', k[1] = "execute", operation'[k].state = "done"
               PROVE  /\ operation'[k].result.execution \in DOMAIN executed'
                      /\ executed'[operation'[k].result.execution] = k[2]
    BY DEF ExecutionsTold, State, Result
  <2>1. k \in DOMAIN operation /\ State(k) = "done" /\ operation'[k] = operation[k]
    BY DEF NoNews, Keeps, Told
  <2> QED BY <2>1 DEF TableTold, ExecutionsTold, ExecutedGrows, Result
<1>2. PagesTold'
  <2> SUFFICES ASSUME NEW k \in DOMAIN operation', k[1] = "results"
               PROVE  /\ k[2][2] \in Nat /\ k = PageKey(k[2][1], k[2][2])
                      /\ Follows(k[2][1], k[2][2], Request(k))'
                      /\ operation'[k].state = "done" => PageTold(k)'
    BY DEF PagesTold, State, PageKey
  <2>1. /\ k \in DOMAIN operation
        /\ operation'[k].state = "done" => State(k) = "done"
    BY DEF NoneNew, NoNews, Told
  <2> QED BY <2>1, PagesLast
<1> QED BY <1>1, <1>2

-----------------------------------------------------------------------------
\* A context that is active stays so until the process ends.
ActiveStays == Restarts \/ (active # NoContext => active' # NoContext)

\* An adapter without executions and cursors knows nothing that could be wrong.
LEMMA NewAdapterKnowsNothing ==
  ASSUME adapter' = NewAdapter
  PROVE  GatewayKeeps /\ TokensNumbered' /\ DOMAIN adapter'.executions = {}
<1>1. DOMAIN adapter'.executions = {} /\ DOMAIN adapter'.cursors = {}
  BY DEF NewAdapter
<1> QED BY <1>1, FS_EmptySet DEF GatewayKeeps, TokensNumbered

\* The history of executions over the end of the process and without a handler.
LEMMA RestGrows ==
  ASSUME OpInv, Rests
  PROVE  ExecutedGrows /\ Len(executed) \in Nat /\ Len(executed') \in Nat
         /\ Len(executed) <= Len(executed')
<1>1. executed \in Seq(Payloads) /\ Len(executed) \in Nat
  BY DEF OpInv, Performed
<1>2. CASE executed' = executed
  BY <1>1, <1>2 DEF ExecutedGrows
<1>3. CASE queue # <<>> /\ EndsInCall(NextServed) /\ executed' # executed
  <2> DEFINE key == Request(NextServed).key
  <2>1. executed' = Append(executed, key) /\ NextServed = <<"execute", key>>
    BY <1>3, HeadOfQueue DEF EndsInCall, MayHaveExecuted, OpInv, RowsShaped, Request
  <2>2. key \in Payloads
    BY <1>3, <2>1, HeadOfQueue DEF Payloads
  <2> HIDE DEF key
  <2> QED BY <1>1, <2>1, <2>2 DEF ExecutedGrows
<1> QED BY <1>2, <1>3 DEF Rests, Quiet, vendorVars, Builds, Restarts

\* The steps that perform and submit nothing.
LEMMA RestKeepsTold ==
  ASSUME OpInv, TableTold, Rests, ActiveStays
  PROVE  TableTold'
<1>1. Keeps /\ NoNews /\ NoneNew /\ Undone' /\ Requeues
  BY RestKeeps DEF TableTold
<1>2. ExecutedGrows /\ Len(executed) \in Nat /\ Len(executed') \in Nat
      /\ Len(executed) <= Len(executed')
  BY RestGrows
<1>3. CASE Quiet /\ ~Restarts
  <2>1. adapter' = adapter /\ engine' = engine /\ executed' = executed
        /\ (active # NoContext => active' # NoContext)
    BY <1>3 DEF Quiet, vendorVars, ActiveStays
  <2>2. GatewayKeeps /\ TokensNumbered'
    BY <2>1 DEF GatewayKeeps, TableTold, TokensNumbered
  <2>3. Memory'
    BY <1>1, <2>1 DEF TableTold, Memory, Requeues
  <2> QED BY <1>1, <1>2, <2>2, <2>3, ToldLasts DEF TableTold
<1>4. CASE Builds /\ ~Restarts
  <2>1. adapter' = NewAdapter /\ engine' = engine /\ executed' = executed
        /\ (active # NoContext => active' # NoContext)
    BY <1>4 DEF Builds, ActiveStays
  <2>2. Memory'
    BY <1>1, <2>1, NewAdapterKnowsNothing DEF TableTold, Memory, Requeues
  <2> QED BY <1>1, <1>2, <2>1, <2>2, NewAdapterKnowsNothing, ToldLasts DEF TableTold
<1>5. CASE Restarts
  <2>1. adapter' = NewAdapter /\ engine'.results = 0 /\ DOMAIN queue' = {}
    BY <1>5 DEF Restarts, FreshEngine
  <2>2. Memory'
    BY <1>2, <2>1, NewAdapterKnowsNothing DEF Memory
  <2> QED BY <1>1, <1>2, <2>1, <2>2, NewAdapterKnowsNothing, ToldLasts DEF TableTold
<1> QED BY <1>3, <1>4, <1>5 DEF Rests

\* A submission of a command needs an active context, and one of a page what came before.
Asks(k, r) ==
  /\ k[1] = "execute" => active # NoContext
  /\ k[1] = "results" => /\ k[2][2] \in Nat /\ k = PageKey(k[2][1], k[2][2])
                         /\ Follows(k[2][1], k[2][2], r)

LEMMA SubmitKeepsTold ==
  ASSUME OpInv, TableTold, NEW k, NEW r, Submits(k, r), Asks(k, r), Quiet,
         active # NoContext => active' # NoContext
  PROVE  TableTold'
<1>1. /\ Keeps /\ NoNews /\ Undone'
      /\ DOMAIN operation' = DOMAIN operation \cup {k}
      /\ operation'[k].request = r
      /\ k \notin DOMAIN operation
  BY SubmitKeeps DEF TableTold, Submits
<1>2. adapter' = adapter /\ engine' = engine /\ executed' = executed
  BY DEF Quiet, vendorVars
<1>3. GatewayKeeps /\ TokensNumbered'
  BY <1>2 DEF GatewayKeeps, TableTold, TokensNumbered
<1>4. Memory'
  <2>1. /\ queue \in Seq(DOMAIN operation) /\ Len(queue) \in Nat
        /\ DOMAIN queue = 1..Len(queue)
        /\ queue' = Append(queue, k)
    BY DEF OpInv, Queued, Submits
  <2>2. queue \in Seq(DOMAIN operation \cup {k})
    BY <2>1, SeqGrows
  <2>3. \A i \in DOMAIN queue' : queue'[i] = k \/ (i \in DOMAIN queue /\ queue'[i] = queue[i])
    BY <2>1, <2>2
  <2> QED BY <1>2, <2>3 DEF TableTold, Memory, Asks
<1>5. ExecutionsTold'
  BY <1>1, <1>2 DEF TableTold, ExecutionsTold, NoNews, Keeps, Told, State, Result
<1>6. PagesTold'
  <2> SUFFICES ASSUME NEW x \in DOMAIN operation', x[1] = "results"
               PROVE  /\ x[2][2] \in Nat /\ x = PageKey(x[2][1], x[2][2])
                      /\ Follows(x[2][1], x[2][2], Request(x))'
                      /\ operation'[x].state = "done" => PageTold(x)'
    BY DEF PagesTold, State, PageKey
  <2>1. CASE x \in DOMAIN operation
    <3>1. operation'[x].state = "done" => State(x) = "done"
      BY <1>1 DEF NoNews, Told
    <3> QED BY <1>1, <1>3, <2>1, <3>1, PagesLast
  <2>2. CASE x = k
    <3>1. x[2][2] \in Nat /\ x = PageKey(x[2][1], x[2][2]) /\ Follows(x[2][1], x[2][2], r)
      BY <2>2 DEF Asks
    <3>2. Follows(x[2][1], x[2][2], r)'
      BY <1>1, <3>1, FollowsLasts
    <3>3. Request(x)' = r
      BY <1>1, <2>2 DEF Request
    <3>4. operation'[x].state # "done"
      BY <1>1, <2>2 DEF NoNews, Told
    <3> QED BY <3>1, <3>2, <3>3, <3>4 DEF Follows
  <2> QED BY <1>1, <2>1, <2>2
<1> QED BY <1>1, <1>3, <1>4, <1>5, <1>6 DEF TableTold

\* A handler that makes no execution and no page.
LEMMA OtherKeepsTold ==
  ASSUME OpInv, TableTold, queue # <<>>, Serve(NextServed), NextServed[1] \notin Told,
         active' = active, executed' = executed,
         \/ /\ adapter'.executions = adapter.executions
            /\ adapter'.cursors = adapter.cursors
            /\ engine'.results = engine.results
         \/ /\ DOMAIN adapter'.executions = {}
            /\ adapter'.cursors = adapter.cursors \/ adapter' = NewAdapter
            /\ engine'.results \in {0, engine.results}
  PROVE  TableTold'
<1> DEFINE k == NextServed
<1>1. /\ Keeps /\ NoneNew /\ Undone' /\ DOMAIN operation' = DOMAIN operation
      /\ \A x \in DOMAIN operation : x # k => operation'[x] = operation[x]
  BY ServeConcludes, ConcludesKeeps DEF TableTold
<1>2. NoNews
  BY <1>1 DEF NoNews, State
<1>3. ExecutedGrows /\ Len(executed) \in Nat
  BY DEF ExecutedGrows, OpInv, Performed
<1>4. Shrinks
  BY ServeConcludes, ConcludesRewrites
<1>5. Memory'
  BY <1>3, <1>4 DEF TableTold, Memory, Shrinks
<1>6. TokensNumbered'
  BY NewAdapterKnowsNothing DEF TableTold, TokensNumbered
<1>7. GatewayKeeps
  BY DEF GatewayKeeps
<1> QED BY <1>1, <1>2, <1>3, <1>5, <1>6, <1>7, ToldLasts DEF TableTold

\* A command that is done, whether it was executed or answered with what there was.
LEMMA CommandKeepsTold ==
  ASSUME OpInv, VisitInv, TableTold, queue # <<>>, Serve(NextServed), NextServed[1] = "execute",
         active' = active
  PROVE  TableTold'
<1> DEFINE k == NextServed
           r == Request(k)
           n == Len(executed) + 1
<1>1. /\ Keeps /\ NoneNew /\ Undone' /\ DOMAIN operation' = DOMAIN operation
      /\ k \in DOMAIN operation /\ State(k) # "done"
      /\ \A x \in DOMAIN operation : x # k => operation'[x] = operation[x]
  BY ServeConcludes, ConcludesKeeps DEF TableTold
<1>2. Shrinks
  BY ServeConcludes, ConcludesRewrites
<1>3. k = <<"execute", r.key>> /\ k[2] = r.key
  BY <1>1 DEF OpInv, RowsShaped, Request
<1>4. active # NoContext
  BY HeadOfQueue DEF TableTold, Memory
<1>5. executed \in Seq(Payloads) /\ Len(executed) \in Nat /\ DOMAIN executed = 1..Len(executed)
      /\ r.key \in Payloads
  BY <1>1, <1>3 DEF OpInv, Performed, Payloads
<1>6. ExecuteCommand(k)
  BY DEF Serve
<1>7. ASSUME GatewayKeeps, ExecutedGrows, Memory', TokensNumbered',
             operation'[k].state = "done" =>
               /\ operation'[k].result.execution \in DOMAIN executed'
               /\ executed'[operation'[k].result.execution] = k[2]
      PROVE  TableTold'
  <2>1. ExecutionsTold'
    <3> SUFFICES ASSUME NEW x \in DOMAIN operation', x[1] = "execute", operation'[x].state = "done"
                 PROVE  /\ operation'[x].result.execution \in DOMAIN executed'
                        /\ executed'[operation'[x].result.execution] = x[2]
      BY DEF ExecutionsTold, State, Result
    <3>1. CASE x = k
      BY <1>7, <3>1
    <3>2. CASE x # k
      <4>1. x \in DOMAIN operation /\ State(x) = "done" /\ operation'[x] = operation[x]
        BY <1>1, <3>2 DEF State
      <4> QED BY <1>7, <4>1 DEF TableTold, ExecutionsTold, ExecutedGrows, Result
    <3> QED BY <3>1, <3>2
  <2>2. PagesTold'
    <3> SUFFICES ASSUME NEW x \in DOMAIN operation', x[1] = "results"
                 PROVE  /\ x[2][2] \in Nat /\ x = PageKey(x[2][1], x[2][2])
                        /\ Follows(x[2][1], x[2][2], Request(x))'
                        /\ operation'[x].state = "done" => PageTold(x)'
      BY DEF PagesTold, State, PageKey
    <3>1. x \in DOMAIN operation /\ operation'[x] = operation[x]
      BY <1>1
    <3> QED BY <1>1, <1>7, <3>1, PagesLast DEF State
  <2> QED BY <1>1, <1>7, <2>1, <2>2 DEF TableTold
<1>8. ASSUME adapter' = adapter, engine' = engine, executed' = executed
      PROVE  GatewayKeeps /\ ExecutedGrows /\ Memory' /\ TokensNumbered'
  BY <1>2, <1>8 DEF GatewayKeeps, ExecutedGrows, TableTold, Memory, TokensNumbered, Shrinks
<1>9. CASE Raised(k) /\ UNCHANGED <<adapter, vendorVars>>
  <2>1. operation'[k].state # "done"
    BY <1>9, ConcludesKeeps DEF Raised, TableTold
  <2> QED BY <1>7, <1>8, <1>9, <2>1 DEF vendorVars
<1>10. CASE /\ \E x \in ExecutionsFor(r.key) :
                 Done(k, [execution |-> x, ok |-> adapter.executions[x].ok])
            /\ UNCHANGED <<adapter, vendorVars>>
  <2>1. PICK x \in ExecutionsFor(r.key) :
               Done(k, [execution |-> x, ok |-> adapter.executions[x].ok])
    BY <1>10
  <2>2. x \in DOMAIN executed /\ executed[x] = k[2]
    BY <1>3, <1>5 DEF ExecutionsFor, TableTold, Memory
  <2>3. operation'[k].state = "done" => operation'[k].result.execution = x
    BY <2>1, ConcludesKeeps DEF Done, TableTold
  <2> QED BY <1>7, <1>8, <1>10, <2>2, <2>3 DEF vendorVars
<1>11. CASE \E ok \in BOOLEAN :
              /\ VendorExecutes(r.key)
              /\ adapter' = [adapter EXCEPT !.executions = Executed(n, r.key, ok)]
              /\ Done(k, [execution |-> n, ok |-> ok])
  <2>1. PICK ok \in BOOLEAN :
              /\ VendorExecutes(r.key)
              /\ adapter' = [adapter EXCEPT !.executions = Executed(n, r.key, ok)]
              /\ Done(k, [execution |-> n, ok |-> ok])
    BY <1>11
  <2>2. executed' = Append(executed, r.key) /\ engine' = [engine EXCEPT !.results = n]
    BY <2>1 DEF VendorExecutes
  <2>3. engine'.results = n
    BY <2>2 DEF VisitInv, Shaped
  <2>4. adapter'.executions = Executed(n, r.key, ok) /\ adapter'.cursors = adapter.cursors
    BY <2>1 DEF VisitInv, Shaped
  <2>5. /\ Len(executed') = n /\ DOMAIN executed' = 1..n /\ executed'[n] = r.key
        /\ \A e \in DOMAIN executed : executed'[e] = executed[e]
    BY <1>5, <2>2
  <2>6. operation'[k].state = "done" => operation'[k].result.execution = n
    BY <2>1, ConcludesKeeps DEF Done, TableTold
  <2>7. ExecutedGrows
    BY <1>5, <2>5 DEF ExecutedGrows
  <2>8. /\ DOMAIN adapter'.executions = DOMAIN adapter.executions \cup {n}
        /\ adapter'.executions[n].key = r.key
        /\ \A e \in DOMAIN adapter.executions : e # n =>
             adapter'.executions[e] = adapter.executions[e]
    BY <2>4 DEF Executed
  <2>9. GatewayKeeps
    BY <1>5, <2>4, <2>8 DEF GatewayKeeps
  <2>10. TokensNumbered'
    BY <2>4 DEF TableTold, TokensNumbered
  <2>11. Memory'
    <3>1. \A e \in DOMAIN adapter'.executions :
            e \in 1..n /\ executed'[e] = adapter'.executions[e].key
      BY <1>5, <2>5, <2>8 DEF TableTold, Memory
    <3> QED BY <1>2, <1>4, <1>5, <2>3, <2>5, <3>1 DEF Memory
  <2> QED BY <1>3, <1>5, <1>7, <2>5, <2>6, <2>7, <2>9, <2>10, <2>11
<1>12. CASE Raised(k) /\ VendorRaises(r.key) /\ UNCHANGED adapter
  <2>1. /\ executed' = Append(executed, r.key) /\ adapter' = adapter
        /\ engine' = [engine EXCEPT !.results = n]
    BY <1>12 DEF VendorRaises
  <2>2. engine'.results = n
    BY <2>1 DEF VisitInv, Shaped
  <2>3. /\ Len(executed') = n /\ DOMAIN executed' = 1..n
        /\ \A e \in DOMAIN executed : executed'[e] = executed[e]
    BY <1>5, <2>1
  <2>4. operation'[k].state # "done"
    BY <1>12, ConcludesKeeps DEF Raised, TableTold
  <2>5. ExecutedGrows
    BY <1>5, <2>3 DEF ExecutedGrows
  <2>6. GatewayKeeps /\ TokensNumbered'
    BY <2>1 DEF GatewayKeeps, TableTold, TokensNumbered
  <2>7. Memory'
    <3>1. \A e \in DOMAIN adapter'.executions :
            e \in 1..n /\ executed'[e] = adapter'.executions[e].key
      BY <1>5, <2>1, <2>3 DEF TableTold, Memory
    <3> QED BY <1>2, <1>4, <1>5, <2>2, <2>3, <3>1 DEF Memory
  <2> QED BY <1>7, <2>4, <2>5, <2>6, <2>7
<1> QED BY <1>6, <1>9, <1>10, <1>11, <1>12 DEF ExecuteCommand

\* A cursor that is honoured stands for where the page before it ended.
LEMMA OffsetOfPage ==
  ASSUME TableTold, NEW k \in DOMAIN operation, k[1] = "results", Collects(Request(k))
  PROVE  /\ Offset(Request(k)) = Start(k[2][2])
         /\ Start(k[2][2]) \in Nat /\ Start(k[2][2]) <= Objects
<1> DEFINE key == k[2][1]
           n == k[2][2]
           r == Request(k)
<1>1. n \in Nat /\ k = PageKey(key, n) /\ Follows(key, n, r)
  BY DEF TableTold, PagesTold
<1>2. CASE n = 0
  BY <1>1, <1>2, StartOfPages, PageAssumption DEF Follows, Offset
<1>3. CASE n # 0
  <2> DEFINE p == PageKey(key, n - 1)
  <2>1. /\ p \in DOMAIN operation /\ State(p) = "done"
        /\ r.cursor = Result(p).next /\ r.cursor # <<>>
    BY <1>1, <1>3 DEF Follows, IsDone
  <2>2. p[1] = "results" /\ p[2][1] = key /\ p[2][2] = n - 1
    BY DEF PageKey
  <2>3. Follows(key, n - 1, Request(p)) /\ PageTold(p)
    BY <2>1, <2>2 DEF TableTold, PagesTold
  <2>4. Request(p).execution = r.execution
    BY <1>1, <2>3 DEF Follows
  <2>5. p[2][2] + 1 = n
    BY <1>1, <2>2
  <2>6. Start(n) < Objects /\ CursorTold(p)
    BY <2>1, <2>3, <2>5 DEF PageTold
  <2>7. adapter.cursors[r.cursor] = Start(n)
    BY <2>1, <2>4, <2>5, <2>6 DEF CursorTold, Collects
  <2>8. Offset(r) = Start(n)
    BY <2>1, <2>7 DEF Offset
  <2>9. Start(n) \in Nat
    BY <1>1, StartOfPages
  <2> QED BY <2>6, <2>8, <2>9, PageAssumption
<1> QED BY <1>2, <1>3

\* A page that is collected is full or the rest, of values that are not older than the
\* execution.
LEMMA PageKeepsTold ==
  ASSUME OpInv, VisitInv, TableTold, queue # <<>>, active' = active,
         NEW k, k = NextServed, Serve(k), k[1] = "results"
  PROVE  TableTold'
<1> DEFINE r == Request(k)
           n == k[2][2]
           next == IF Offset(r) + PageSize < Objects THEN Offset(r) + PageSize ELSE Objects
           page == [i \in 1..(next - Offset(r)) |-> engine.results]
           tokens == DOMAIN adapter.cursors
<1>1. /\ Keeps /\ NoneNew /\ Undone' /\ DOMAIN operation' = DOMAIN operation
      /\ k \in DOMAIN operation /\ State(k) # "done"
      /\ \A x \in DOMAIN operation : x # k => operation'[x] = operation[x]
  BY ServeConcludes, ConcludesKeeps DEF TableTold
<1>2. Shrinks
  BY ServeConcludes, ConcludesRewrites
<1>3. CollectResults(k)
  BY DEF Serve
<1>4. engine' = engine /\ executed' = executed
  BY <1>3 DEF CollectResults, vendorVars
<1>5. adapter' = adapter \/ \E x : adapter' = [adapter EXCEPT !.cursors = x]
  BY <1>3 DEF CollectResults
<1>6. adapter'.executions = adapter.executions
  BY <1>5 DEF VisitInv, Shaped
<1>7. Memory' /\ ExecutedGrows
  BY <1>2, <1>4, <1>6 DEF TableTold, Memory, Shrinks, ExecutedGrows
<1>8. ASSUME GatewayKeeps, TokensNumbered', operation'[k].state = "done" => PageTold(k)'
      PROVE  TableTold'
  <2>1. ExecutionsTold'
    <3> SUFFICES ASSUME NEW x \in DOMAIN operation', x[1] = "execute", operation'[x].state = "done"
                 PROVE  /\ operation'[x].result.execution \in DOMAIN executed'
                        /\ executed'[operation'[x].result.execution] = x[2]
      BY DEF ExecutionsTold, State, Result
    <3>1. x \in DOMAIN operation /\ State(x) = "done" /\ operation'[x] = operation[x]
      BY <1>1 DEF State
    <3> QED BY <1>4, <3>1 DEF TableTold, ExecutionsTold, Result
  <2>2. PagesTold'
    <3> SUFFICES ASSUME NEW x \in DOMAIN operation', x[1] = "results"
                 PROVE  /\ x[2][2] \in Nat /\ x = PageKey(x[2][1], x[2][2])
                        /\ Follows(x[2][1], x[2][2], Request(x))'
                        /\ operation'[x].state = "done" => PageTold(x)'
      BY DEF PagesTold, State, PageKey
    <3>1. /\ x \in DOMAIN operation
          /\ x # k => operation'[x] = operation[x]
      BY <1>1
    <3>2. CASE x = k
      BY <1>1, <1>8, <3>1, <3>2, PagesLast
    <3>3. CASE x # k
      BY <1>1, <1>8, <3>1, <3>3, PagesLast DEF State
    <3> QED BY <3>2, <3>3
  <2> QED BY <1>1, <1>7, <1>8, <2>1, <2>2 DEF TableTold
<1>9. CASE Raised(k) /\ adapter' = adapter
  <2>1. operation'[k].state # "done"
    BY <1>9, ConcludesKeeps DEF Raised, TableTold
  <2> QED BY <1>8, <1>9, <2>1 DEF GatewayKeeps, TableTold, TokensNumbered
<1>10. CASE Collects(r) /\ ~(Raised(k) /\ adapter' = adapter)
  <2>1. /\ Offset(r) = Start(n) /\ n \in Nat /\ Start(n) \in Nat /\ Start(n) <= Objects
        /\ Start(n + 1) = Start(n) + PageSize
    BY <1>1, <1>10, OffsetOfPage, StartOfPages DEF TableTold, PagesTold
  <2>2. /\ r.execution \in DOMAIN adapter.executions
        /\ engine.results \in Nat /\ engine.results >= r.execution
    <3>1. Len(executed) \in Nat
      BY DEF OpInv, Performed
    <3> QED BY <1>10, <3>1 DEF Collects, TableTold, Memory
  <2>3. next \in Nat /\ Start(n) <= next /\ next <= Start(n) + PageSize /\ next <= Objects
    BY <2>1, PageAssumption
  <2>4. /\ page \in Seq(Nat) /\ Len(page) = next - Start(n)
        /\ \A i \in DOMAIN page : page[i] = engine.results
    <3> DEFINE m == next - Offset(r)
    <3>1. m \in Nat /\ m = next - Start(n)
      BY <2>1, <2>3
    <3>2. page = [i \in 1..m |-> engine.results]
      OBVIOUS
    <3> HIDE DEF m, next, page
    <3> QED BY <2>2, <3>1, <3>2
  <2> HIDE DEF page
  <2>5. Request(k)' = r
    BY <1>1 DEF Keeps, Request, Told
  <2>6. CASE next < Objects
    <3> DEFINE token == Token(r)
               m == Cardinality(tokens)
    <3>1. Done(k, [values |-> page, next |-> token])
      BY <1>3, <1>10, <2>6 DEF CollectResults, page
    <3>2. adapter' = [adapter EXCEPT !.cursors = [t \in DOMAIN @ \cup {token} |->
                        IF t = token THEN next ELSE @[t]]]
      BY <1>3, <1>10, <2>6 DEF CollectResults
    <3>3. /\ DOMAIN adapter'.cursors = tokens \cup {token}
          /\ adapter'.cursors[token] = next
          /\ \A t \in tokens : t # token => adapter'.cursors[t] = adapter.cursors[t]
      BY <3>2 DEF VisitInv, Shaped
    <3>4. token[1] = m + 1 /\ token # <<>>
      BY DEF Token
    <3>5. IsFiniteSet(tokens) /\ m \in Nat /\ \A t \in tokens : t[1] \in Nat /\ t[1] <= m
      BY FS_CardinalityType DEF TableTold, TokensNumbered
    <3>6. token \notin tokens
      BY <3>4, <3>5
    <3>7. IsFiniteSet(tokens \cup {token}) /\ Cardinality(tokens \cup {token}) = m + 1
      BY <3>5, <3>6, FS_AddElement
    <3>8. TokensNumbered'
      <4>1. \A t \in tokens \cup {token} : t[1] \in Nat /\ t[1] <= m + 1
        BY <3>4, <3>5
      <4> HIDE DEF token, m, tokens
      <4> QED BY <3>3, <3>7, <4>1 DEF TokensNumbered
    <3>9. GatewayKeeps
      BY <1>6, <3>3, <3>6 DEF GatewayKeeps
    <3>10. ASSUME operation'[k].state = "done" PROVE PageTold(k)'
      <4>1. operation'[k].result = [values |-> page, next |-> token]
        BY <3>1, <3>10, ConcludesKeeps DEF Done, TableTold
      <4>2. Result(k)'.values = page /\ Result(k)'.next = token
        BY <4>1 DEF Result
      <4>3. next = Start(n + 1) /\ Len(page) = PageSize
        BY <2>1, <2>4, <2>6, PageAssumption
      <4>4. CursorTold(k)'
        BY <3>3, <4>2, <4>3 DEF CursorTold, Start
      <4> HIDE DEF next, token
      <4> QED BY <2>2, <2>4, <2>5, <2>6, <3>4, <4>2, <4>3, <4>4, PageAssumption DEF PageTold, Start
    <3> QED BY <1>8, <3>8, <3>9, <3>10
  <2>7. CASE ~(next < Objects)
    <3>1. Done(k, [values |-> page, next |-> <<>>]) /\ adapter' = adapter
      BY <1>3, <1>10, <2>7 DEF CollectResults, page
    <3>2. TokensNumbered' /\ GatewayKeeps
      BY <3>1 DEF GatewayKeeps, TableTold, TokensNumbered
    <3>3. ASSUME operation'[k].state = "done" PROVE PageTold(k)'
      <4>1. operation'[k].result = [values |-> page, next |-> <<>>]
        BY <3>1, <3>3, ConcludesKeeps DEF Done, TableTold
      <4>2. Result(k)'.values = page /\ Result(k)'.next = <<>>
        BY <4>1 DEF Result
      <4>3. Start(n) + Len(page) = Objects /\ Len(page) <= PageSize
        BY <2>1, <2>3, <2>4, <2>7, PageAssumption
      <4> HIDE DEF next
      <4> QED BY <2>2, <2>4, <2>5, <4>2, <4>3 DEF PageTold, Start
    <3> QED BY <1>8, <3>2, <3>3
  <2> QED BY <2>6, <2>7
<1> QED BY <1>3, <1>9, <1>10 DEF CollectResults

\* Every handler.
LEMMA ServeKeepsTold ==
  ASSUME OpInv, VisitInv, ServeInv, TableTold, queue # <<>>, Serve(NextServed), active' = active
  PROVE  TableTold'
<1> DEFINE k == NextServed
<1>1. k[1] \in Kinds
  BY HeadOfQueue DEF OpInv, RowsShaped
<1>2. CASE k[1] = "start"
  <2>1. /\ adapter' = adapter \/ adapter' = [adapter EXCEPT !.started = TRUE]
        /\ engine' = engine /\ executed' = executed
    BY <1>2 DEF Serve, StartSession, vendorVars, VendorStart
  <2>2. adapter'.executions = adapter.executions /\ adapter'.cursors = adapter.cursors
    BY <2>1 DEF VisitInv, Shaped
  <2> QED BY <1>2, <2>1, <2>2, OtherKeepsTold DEF Told
<1>3. CASE k[1] = "activate"
  <2>1. active = NoContext
    BY <1>3, HeadOfQueue DEF ServeInv, ActiveServed, Serving, Activating
  <2>2. DOMAIN adapter.executions = {}
    BY <2>1 DEF TableTold, Memory
  <2>3. /\ adapter' = adapter \/ \E r : adapter' = [adapter EXCEPT !.context = r]
        /\ engine' = engine \/ \E c : engine' = FreshEngine(c)
        /\ executed' = executed
    BY <1>3 DEF Serve, ActivateContext, vendorVars, VendorActivates, VendorFails
  <2>4. adapter'.executions = adapter.executions /\ adapter'.cursors = adapter.cursors
    BY <2>3 DEF VisitInv, Shaped
  <2>5. engine'.results \in {0, engine.results}
    BY <2>3 DEF FreshEngine
  <2> QED BY <1>3, <2>2, <2>3, <2>4, <2>5, OtherKeepsTold DEF Told
<1>4. CASE k[1] = "logs"
  <2>1. adapter' = adapter /\ engine' = engine /\ executed' = executed
    BY <1>4 DEF Serve, ReadLogs, vendorVars
  <2> QED BY <1>4, <2>1, OtherKeepsTold DEF Told
<1>5. CASE k[1] = "close"
  <2>1. CASE adapter' = adapter /\ engine' = engine /\ executed' = executed
    BY <1>5, <2>1, OtherKeepsTold DEF Told
  <2>2. CASE adapter' = NewAdapter /\ \E ok \in BOOLEAN : VendorCloses(ok)
    <3>1. engine'.results \in {0, engine.results} /\ executed' = executed
      BY <2>2 DEF VendorCloses, FreshEngine
    <3>2. DOMAIN adapter'.executions = {}
      BY <2>2, NewAdapterKnowsNothing
    <3> QED BY <1>5, <2>2, <3>1, <3>2, OtherKeepsTold DEF Told
  <2> QED BY <1>5, <2>1, <2>2 DEF Serve, CloseSession, vendorVars
<1>6. CASE k[1] = "execute"
  BY <1>6, CommandKeepsTold
<1>7. CASE k[1] = "results"
  BY <1>7, PageKeepsTold
<1> QED BY <1>1, <1>2, <1>3, <1>4, <1>5, <1>6, <1>7 DEF Kinds

\* What a step of the session is to the rows.
TableStep == \/ Rests
             \/ (\E k, r : Submits(k, r) /\ Asks(k, r)) /\ Quiet
             \/ queue # <<>> /\ Serve(NextServed) /\ active' = active

\* The rows over each of them.
LEMMA StepKeepsTold ==
  ASSUME OpInv, VisitInv, ServeInv, TableTold, TableStep, ActiveStays
  PROVE  TableTold' /\ Keeps
<1>1. CASE Rests
  BY <1>1, RestKeepsTold, RestKeeps DEF TableTold
<1>2. CASE (\E k, r : Submits(k, r) /\ Asks(k, r)) /\ Quiet
  <2>1. CASE Restarts
    BY <2>1, RestKeepsTold, RestKeeps DEF TableTold, Rests
  <2>2. CASE active # NoContext => active' # NoContext
    BY <1>2, <2>2, SubmitKeepsTold, SubmitKeeps DEF TableTold
  <2> QED BY <2>1, <2>2 DEF ActiveStays
<1>3. CASE queue # <<>> /\ Serve(NextServed) /\ active' = active
  BY <1>3, ServeKeepsTold, ServeConcludes, ConcludesKeeps DEF TableTold
<1> QED BY <1>1, <1>2, <1>3 DEF TableStep

-----------------------------------------------------------------------------
\* What was collected of rows that are done can still be read there.
LEMMA CollectedLasts ==
  ASSUME Keeps, NEW key, NEW values, Collected(key, values)
  PROVE  Collected(key, values)'
<1> SUFFICES ASSUME NEW i \in DOMAIN values PROVE Cell(key, i, values[i])'
  BY DEF Collected
<1>1. PICK n \in Nat, j \in 1..PageSize :
        /\ i = Start(n) + j
        /\ IsDone(PageKey(key, n))
        /\ j \in DOMAIN Result(PageKey(key, n)).values
        /\ values[i] = Result(PageKey(key, n)).values[j]
  BY DEF Collected, Cell
<1> DEFINE k == PageKey(key, n)
<1>2. k[1] \in Told
  BY DEF PageKey, Told
<1>3. k \in DOMAIN operation' /\ operation'[k] = operation[k] /\ operation[k].state = "done"
  BY <1>1, <1>2, DoneLasts
<1> QED BY <1>1, <1>3 DEF Cell, IsDone, State, Result, PageKey, Start

LEMMA NamedLasts ==
  ASSUME Keeps, NEW key, NEW e, Named(key, e)
  PROVE  Named(key, e)'
<1> DEFINE k == ExecuteKey(key)
<1>1. k[1] \in Told
  BY DEF ExecuteKey, Told
<1>2. k \in DOMAIN operation' /\ operation'[k] = operation[k] /\ operation[k].state = "done"
  BY <1>1, DoneLasts DEF Named
<1> QED BY <1>2 DEF Named, IsDone, State, Result, ExecuteKey

\* A call that stays where it is goes on, and a run that is stored stays true.
LEMMA GoingLasts ==
  ASSUME Keeps, active # NoContext => active' # NoContext, NEW c, Going(c)
  PROVE  Going(c)'
<1>1. c.pc \in {"logs", "results"} => Named(c.key, c.execution)'
  BY NamedLasts DEF Going
<1>2. c.pc = "results" => Collected(c.key, c.values)'
  BY CollectedLasts DEF Going
<1> QED BY <1>1, <1>2 DEF Going, NoContext, ExecuteKey, PageKey, Start

LEMMA RunsLast ==
  ASSUME Keeps, NEW run, RunTold(run)
  PROVE  RunTold(run)'
<1>1. CASE run.state = "CONVERGED"
  <2>1. Collected(run.key, run.values)' /\ Named(run.key, run.execution)'
    BY <1>1, CollectedLasts, NamedLasts DEF RunTold
  <2> QED BY <1>1, <2>1 DEF RunTold
<1>2. CASE run.state # "CONVERGED"
  BY <1>2 DEF RunTold
<1> QED BY <1>1, <1>2

-----------------------------------------------------------------------------
\* The places in a load flow.
Flowing == {"called", "execute", "logs", "results"}

LEMMA StoppedGoes ==
  ASSUME NEW c, c.pc \notin Flowing
  PROVE  Going(c)'
  BY DEF Going, Flowing

\* A thread moves, and the others stay.
LEMMA OthersGoOn ==
  ASSUME CallsShaped, FlowsTold, Keeps, active # NoContext => active' # NoContext,
         NEW s \in Threads, call'[s] = call[s]
  PROVE  FlowTold(s)'
<1>1. PICK c : c = call[s]
  OBVIOUS
<1>2. Going(c) /\ (c.pc \in {"execute", "results"} => c.op \in DOMAIN operation)
  BY <1>1 DEF FlowsTold, FlowTold, Op
<1>3. Going(c)'
  BY <1>2, GoingLasts
<1>4. ASSUME c.pc \in {"execute", "results"} PROVE c.op \in DOMAIN operation'
  <2>1. c.op[1] \in Told
    BY <1>2, <1>4 DEF Going, ExecuteKey, PageKey, Told
  <2> QED BY <1>2, <1>4, <2>1 DEF Keeps
<1>5. call'[s] = c
  BY <1>1
<1>6. Going(call[s])'
  BY <1>3, <1>5 DEF Going
<1>7. (call[s].pc \in {"execute", "results"} => Op(s) \in DOMAIN operation)'
  BY <1>4, <1>5 DEF Op
<1> QED BY <1>6, <1>7 DEF FlowTold

LEMMA MoveKeepsFlows ==
  ASSUME CallsShaped, FlowsTold, Keeps, active # NoContext => active' # NoContext,
         NEW t \in Threads, NEW x, call' = [call EXCEPT ![t] = x],
         Going(x)', x.pc \in {"execute", "results"} => x.op \in DOMAIN operation'
  PROVE  FlowsTold'
<1> SUFFICES ASSUME NEW s \in Threads PROVE FlowTold(s)'
  BY DEF FlowsTold, Threads
<1>1. CASE s # t
  <2>1. call'[s] = call[s]
    BY <1>1 DEF CallsShaped
  <2> QED BY <2>1, OthersGoOn
<1>2. CASE s = t
  <2>1. call'[s] = x
    BY <1>2 DEF CallsShaped
  <2>2. Going(call[s])'
    BY <2>1 DEF Going
  <2> QED BY <2>1, <2>2 DEF FlowTold, Op
<1> QED BY <1>1, <1>2

\* A thread that moves outside of a load flow.
LEMMA MoveKeepsPages ==
  ASSUME OpInv, VisitInv, ServeInv, PagesInv, TableStep, active # NoContext => active' # NoContext,
         runs' = runs, NEW t \in Threads, NEW x, call' = [call EXCEPT ![t] = x],
         x.pc \notin Flowing
  PROVE  PagesInv'
<1>1. TableTold' /\ Keeps
  BY StepKeepsTold DEF PagesInv, ActiveStays
<1>2. FlowsTold'
  <2>1. Going(x)' /\ x.pc \notin {"execute", "results"}
    BY StoppedGoes DEF Flowing
  <2> QED BY <1>1, <2>1, MoveKeepsFlows DEF PagesInv, ServeInv
<1>3. RunsTold'
  BY <1>1, RunsLast DEF PagesInv, RunsTold
<1> QED BY <1>1, <1>2, <1>3 DEF PagesInv

\* What is submitted or refused.
LEMMA SubmitOrRaiseIsStep ==
  ASSUME NEW t, NEW k, NEW r, NEW next, SubmitOrRaise(t, k, r, next), Quiet, Asks(k, r)
  PROVE  /\ TableStep
         /\ \/ call' = [call EXCEPT ![t] = [next EXCEPT !.op = k]] /\ k \in DOMAIN operation'
            \/ call' = [call EXCEPT ![t] = Idle]
<1>1. CASE ~Admits(k, r)
  BY <1>1 DEF SubmitOrRaise, Returns, TableStep, Rests
<1>2. CASE Admits(k, r) /\ Known(k)
  BY <1>2 DEF SubmitOrRaise, Enqueue, Known, TableStep, Rests, ownerVars
<1>3. CASE Admits(k, r) /\ ~Known(k)
  <2>1. Submits(k, r) /\ call' = [call EXCEPT ![t] = [next EXCEPT !.op = k]]
    BY <1>3 DEF SubmitOrRaise, Enqueue, Known, Submits
  <2>2. k \in DOMAIN operation'
    BY <2>1, WithAdds DEF Submits
  <2> QED BY <2>1, <2>2 DEF TableStep
<1> QED BY <1>1, <1>2, <1>3

\* A load flow that submits its next operation.
LEMMA SubmitKeepsPages ==
  ASSUME OpInv, VisitInv, ServeInv, PagesInv, active' = active, runs' = runs,
         NEW t \in Threads, NEW k, NEW r, NEW next, SubmitOrRaise(t, k, r, next),
         Quiet, Asks(k, r), DOMAIN next = CallFields, Going([next EXCEPT !.op = k])
  PROVE  PagesInv'
<1>1. /\ TableStep
      /\ \/ call' = [call EXCEPT ![t] = [next EXCEPT !.op = k]] /\ k \in DOMAIN operation'
         \/ call' = [call EXCEPT ![t] = Idle]
  BY SubmitOrRaiseIsStep
<1>2. CASE call' = [call EXCEPT ![t] = Idle]
  BY <1>1, <1>2, MoveKeepsPages DEF Idle, Flowing
<1>3. CASE call' = [call EXCEPT ![t] = [next EXCEPT !.op = k]] /\ k \in DOMAIN operation'
  <2>1. TableTold' /\ Keeps
    BY <1>1, StepKeepsTold DEF PagesInv, ActiveStays
  <2>2. PICK x : x = [next EXCEPT !.op = k]
    OBVIOUS
  <2>3. Going(x)' /\ x.op = k
    BY <2>1, <2>2, GoingLasts DEF CallFields
  <2>4. FlowsTold'
    BY <1>3, <2>1, <2>2, <2>3, MoveKeepsFlows DEF PagesInv, ServeInv
  <2>5. RunsTold'
    BY <2>1, RunsLast DEF PagesInv, RunsTold
  <2> QED BY <2>1, <2>4, <2>5 DEF PagesInv
<1> QED BY <1>1, <1>2, <1>3

\* A run that is stored.
LEMMA RecordKeepsPages ==
  ASSUME OpInv, VisitInv, ServeInv, PagesInv, active' = active, UNCHANGED ownerVars, Quiet,
         NEW t \in Threads, NEW run, Record(t, run), RunTold(run)
  PROVE  PagesInv'
<1>1. TableStep /\ TableTold' /\ Keeps
  BY StepKeepsTold DEF PagesInv, ActiveStays, TableStep, Rests
<1>2. FlowsTold'
  <2>1. Going(Idle)' /\ Idle.pc \notin {"execute", "results"}
    BY StoppedGoes DEF Idle, Flowing
  <2>2. call' = [call EXCEPT ![t] = Idle]
    BY DEF Record, Returns
  <2> QED BY <1>1, <2>1, <2>2, MoveKeepsFlows DEF PagesInv, ServeInv
<1>3. RunsTold'
  BY <1>1, RunsLast DEF PagesInv, RunsTold, Record
<1> QED BY <1>1, <1>2, <1>3 DEF PagesInv

\* The next page goes behind those that were collected.
LEMMA CollectPage ==
  ASSUME TableTold, NEW key, NEW n \in Nat, NEW values, Collected(key, values),
         Len(values) = Start(n), IsDone(PageKey(key, n))
  PROVE  LET page == Result(PageKey(key, n)).values IN
         /\ Collected(key, values \o page)
         /\ Len(values \o page) = Start(n) + Len(page)
         /\ page \in Seq(Nat) /\ PageTold(PageKey(key, n))
<1> DEFINE k == PageKey(key, n)
           page == Result(k).values
<1>1. PageTold(k)
  <2>1. k \in DOMAIN operation /\ State(k) = "done" /\ k[1] = "results"
    BY DEF IsDone, PageKey
  <2> QED BY <2>1 DEF TableTold, PagesTold
<1>2. page \in Seq(Nat) /\ Len(page) <= PageSize
  BY <1>1 DEF PageTold
<1>3. values \in Seq(Nat) /\ Start(n) \in Nat
  BY StartOfPages DEF Collected
<1> HIDE DEF page
<1>4. /\ values \o page \in Seq(Nat)
      /\ Len(values \o page) = Start(n) + Len(page)
      /\ DOMAIN (values \o page) = 1..(Start(n) + Len(page))
      /\ \A i \in DOMAIN values : (values \o page)[i] = values[i]
      /\ \A j \in 1..Len(page) : (values \o page)[Start(n) + j] = page[j]
      /\ DOMAIN values = 1..Start(n) /\ DOMAIN page = 1..Len(page)
  <2>1. \A p \in Seq(Nat) :
          /\ values \o p \in Seq(Nat)
          /\ Len(values \o p) = Len(values) + Len(p)
          /\ DOMAIN (values \o p) = 1..(Len(values) + Len(p))
          /\ \A i \in 1..Len(values) : (values \o p)[i] = values[i]
          /\ \A j \in 1..Len(p) : (values \o p)[Len(values) + j] = p[j]
    <3> SUFFICES ASSUME NEW p \in Seq(Nat)
                 PROVE  /\ values \o p \in Seq(Nat)
                        /\ Len(values \o p) = Len(values) + Len(p)
                        /\ DOMAIN (values \o p) = 1..(Len(values) + Len(p))
                        /\ \A i \in 1..Len(values) : (values \o p)[i] = values[i]
                        /\ \A j \in 1..Len(p) : (values \o p)[Len(values) + j] = p[j]
      OBVIOUS
    <3>1. /\ values \o p \in Seq(Nat)
          /\ Len(values \o p) = Len(values) + Len(p)
          /\ \A i \in 1..Len(values) + Len(p) :
               (values \o p)[i] = IF i <= Len(values) THEN values[i] ELSE p[i - Len(values)]
          /\ Len(values) \in Nat /\ Len(p) \in Nat
      <4>1. values \in Seq(Nat) /\ p \in Seq(Nat) /\ Len(values) \in Nat /\ Len(p) \in Nat
        BY <1>3
      <4>2. /\ values \o p \in Seq(Nat)
            /\ Len(values \o p) = Len(values) + Len(p)
            /\ \A i \in 1..Len(values) + Len(p) :
                 (values \o p)[i] = IF i <= Len(values) THEN values[i] ELSE p[i - Len(values)]
        BY <4>1, ConcatProperties, Zenon
      <4> QED BY <4>1, <4>2
    <3>2. ASSUME NEW i \in 1..Len(values) PROVE (values \o p)[i] = values[i]
      <4>1. i \in 1..Len(values) + Len(p) /\ i <= Len(values)
        BY <3>1
      <4> QED BY <3>1, <4>1
    <3>3. ASSUME NEW j \in 1..Len(p) PROVE (values \o p)[Len(values) + j] = p[j]
      <4>1. /\ Len(values) + j \in 1..Len(values) + Len(p) /\ ~(Len(values) + j <= Len(values))
            /\ (Len(values) + j) - Len(values) = j
        BY <3>1
      <4> QED BY <3>1, <4>1
    <3> QED BY <3>1, <3>2, <3>3
  <2>2. DOMAIN values = 1..Len(values) /\ DOMAIN page = 1..Len(page)
    BY <1>2, <1>3
  <2> QED BY <1>2, <2>1, <2>2
<1>5. ASSUME NEW i \in DOMAIN (values \o page) PROVE Cell(key, i, (values \o page)[i])
  <2>1. CASE i \in DOMAIN values
    <3>1. Cell(key, i, values[i]) /\ (values \o page)[i] = values[i]
      BY <1>4, <2>1 DEF Collected
    <3> QED BY <3>1
  <2>2. CASE i \notin DOMAIN values
    <3>1. PICK j \in 1..Len(page) : i = Start(n) + j
      <4>1. i - Start(n) \in 1..Len(page) /\ i = Start(n) + (i - Start(n))
        BY <1>2, <1>3, <1>4, <2>2
      <4> QED BY <4>1
    <3>2. j \in 1..PageSize
      BY <1>2, PageAssumption
    <3>3. (values \o page)[i] = page[j] /\ j \in DOMAIN page
      BY <1>4, <3>1
    <3> QED BY <3>1, <3>2, <3>3 DEF Cell, page
  <2> QED BY <2>1, <2>2
<1> QED BY <1>1, <1>2, <1>4, <1>5 DEF Collected, page

\* Each step of a load flow.
LEMMA FlowKeepsPages ==
  ASSUME OpInv, VisitInv, ServeInv, PagesInv, active' = active, NEW t \in Threads, FlowStep(t)
  PROVE  PagesInv'
<1> DEFINE c == call[t]
<1>1. DOMAIN c = CallFields /\ Going(c)
      /\ (c.pc \in {"execute", "results"} => Op(t) \in DOMAIN operation)
  BY DEF ServeInv, CallsShaped, PagesInv, FlowsTold, FlowTold
<1>2. CASE ExecuteLost(t)
  <2>1. RunTold(Run(t, "FAILED", 0, <<>>))
    BY DEF RunTold, Run
  <2> QED BY <1>2, <2>1, RecordKeepsPages DEF ExecuteLost, gatewayVars, Quiet
<1>3. CASE ResultsLost(t)
  <2>1. RunTold(LostRun(t))
    BY DEF RunTold, Run, LostRun
  <2> QED BY <1>3, <2>1, RecordKeepsPages DEF ResultsLost, gatewayVars, Quiet
<1>4. CASE SubmitLogs(t)
  <2> DEFINE k == <<"logs", c.key>>
             r == [execution |-> Result(Op(t)).execution]
             next == [c EXCEPT !.pc = "logs", !.execution = r.execution]
  <2>1. SubmitOrRaise(t, k, r, next) /\ Quiet /\ runs' = runs
    BY <1>4 DEF SubmitLogs, Quiet
  <2>2. Asks(k, r)
    BY DEF Asks
  <2>3. Named(c.key, r.execution) /\ c.values = <<>> /\ active # NoContext
    <3>1. c.pc = "execute" /\ State(Op(t)) = "done"
      BY <1>4 DEF SubmitLogs, Answered
    <3> QED BY <1>1, <3>1 DEF Going, Named, IsDone, Op
  <2>4. DOMAIN next = CallFields /\ Going([next EXCEPT !.op = k])
    BY <1>1, <2>3 DEF Going, CallFields
  <2> HIDE DEF k, r, next
  <2> QED BY <2>1, <2>2, <2>4, SubmitKeepsPages
<1>5. CASE AfterLogs(t) /\ ~Succeeded(t)
  <2>1. RunTold(Run(t, "NOT_CONVERGED", call[t].execution, <<>>))
    BY DEF RunTold, Run
  <2>2. Record(t, Run(t, "NOT_CONVERGED", call[t].execution, <<>>)) /\ Quiet /\ UNCHANGED ownerVars
    BY <1>5 DEF AfterLogs, Quiet
  <2> QED BY <2>1, <2>2, RecordKeepsPages
<1>6. CASE AfterLogs(t) /\ Succeeded(t)
  <2> DEFINE k == ResultsKey(t, 0)
             r == ResultsRequest(t, <<>>)
             next == [c EXCEPT !.pc = "results"]
  <2>1. SubmitOrRaise(t, k, r, next) /\ Quiet /\ runs' = runs
    BY <1>6 DEF AfterLogs, Quiet
  <2>2. Named(c.key, c.execution) /\ c.values = <<>> /\ active # NoContext
    BY <1>1, <1>6 DEF AfterLogs, Going
  <2>3. k = PageKey(c.key, 0) /\ k[1] = "results" /\ k[2][1] = c.key /\ k[2][2] = 0
    BY DEF ResultsKey, PageKey
  <2>4. r.execution = c.execution /\ r.cursor = <<>>
    BY DEF ResultsRequest
  <2>5. Asks(k, r)
    BY <2>2, <2>3, <2>4 DEF Asks, Follows, Named
  <2>6. Collected(c.key, <<>>) /\ Len(<<>>) = Start(0)
    BY StartOfPages DEF Collected
  <2>7. DOMAIN next = CallFields /\ Going([next EXCEPT !.op = k])
    BY <1>1, <2>2, <2>3, <2>6 DEF Going, CallFields
  <2> HIDE DEF k, r, next
  <2> QED BY <2>1, <2>5, <2>7, SubmitKeepsPages
<1>7. CASE TakePage(t)
  <2> DEFINE page == Result(Op(t)).values
             values == c.values \o page
             cursor == Result(Op(t)).next
  <2>1. c.pc = "results" /\ State(Op(t)) = "done" /\ Op(t) = c.op
    BY <1>7 DEF TakePage, Answered, Op
  <2>2. PICK n \in Nat : c.op = PageKey(c.key, n) /\ Len(c.values) = Start(n)
    BY <1>1, <2>1 DEF Going
  <2>3. Collected(c.key, c.values) /\ Named(c.key, c.execution) /\ active # NoContext
    BY <1>1, <2>1 DEF Going
  <2>4. IsDone(PageKey(c.key, n)) /\ Op(t) = PageKey(c.key, n)
    BY <1>1, <2>1, <2>2 DEF IsDone
  <2>5. /\ Collected(c.key, values) /\ Len(values) = Start(n) + Len(page)
        /\ PageTold(PageKey(c.key, n)) /\ page \in Seq(Nat)
    BY <2>2, <2>3, <2>4, CollectPage DEF PagesInv
  <2>6. CASE cursor = <<>>
    <3> DEFINE run == Run(t, "CONVERGED", c.execution, values)
    <3>1. Record(t, run) /\ Quiet /\ UNCHANGED ownerVars
      BY <1>7, <2>6 DEF TakePage, Quiet
    <3>2. Len(values) = Objects
      <4>1. PageKey(c.key, n)[2][2] = n
        BY DEF PageKey
      <4> QED BY <2>4, <2>5, <2>6, <4>1 DEF PageTold
    <3>3. RunTold(run)
      <4>1. run.key = c.key /\ run.execution = c.execution /\ run.values = values
            /\ run.state = "CONVERGED"
        BY DEF Run
      <4> HIDE DEF values, run
      <4> QED BY <2>3, <2>5, <3>2, <4>1 DEF RunTold
    <3> HIDE DEF run
    <3> QED BY <3>1, <3>3, RecordKeepsPages
  <2>7. CASE cursor # <<>>
    <3> DEFINE k == ResultsKey(t, n + 1)
               r == ResultsRequest(t, cursor)
               next == [c EXCEPT !.values = values]
    <3>1. Op(t)[2][2] + 1 = n + 1
      BY <2>4 DEF PageKey
    <3>2. SubmitOrRaise(t, k, r, next) /\ Quiet /\ runs' = runs
      BY <1>7, <2>7, <3>1 DEF TakePage, Quiet
    <3>3. /\ k = PageKey(c.key, n + 1) /\ k[1] = "results" /\ k[2][1] = c.key
          /\ k[2][2] = n + 1 /\ n + 1 # 0 /\ (n + 1) - 1 = n
      BY DEF ResultsKey, PageKey
    <3>4. r.execution = c.execution /\ r.cursor = cursor
      BY DEF ResultsRequest
    <3>5. Asks(k, r)
      BY <2>3, <2>4, <2>7, <3>3, <3>4 DEF Asks, Follows, Named
    <3>6. Len(values) = Start(n + 1)
      <4>1. Len(page) = PageSize
        BY <2>4, <2>5, <2>7 DEF PageTold
      <4> QED BY <2>5, <4>1, StartOfPages
    <3> HIDE DEF values
    <3>7. /\ DOMAIN next = CallFields /\ next.pc = "results" /\ next.key = c.key
          /\ next.values = values /\ next.execution = c.execution
      BY <1>1, <2>1 DEF CallFields
    <3> HIDE DEF next, k
    <3>8. Going([next EXCEPT !.op = k])
      BY <2>3, <2>5, <3>3, <3>6, <3>7 DEF Going, CallFields
    <3> HIDE DEF r
    <3> QED BY <3>2, <3>5, <3>7, <3>8, SubmitKeepsPages
  <2> QED BY <2>6, <2>7
<1> QED BY <1>2, <1>3, <1>4, <1>5, <1>6, <1>7 DEF FlowStep

\* What is not of a load flow asks for nothing.
LEMMA OtherAsks ==
  ASSUME NEW k, NEW r, k[1] \notin Told
  PROVE  Asks(k, r)
  BY DEF Asks, Told

\* A context that is asked for is submitted to the owner, which is there or is built.
LEMMA ActivateKeepsPages ==
  ASSUME OpInv, VisitInv, ServeInv, PagesInv, active' = active, runs' = runs,
         NEW t \in Threads, NEW r, SubmitActivate(t, r)
  PROVE  PagesInv'
<1> DEFINE k == FreshKey("activate")
           q == [context |-> r]
           next == [Idle EXCEPT !.pc = "activate", !.context = r]
<1>1. SubmitOrRaise(t, k, q, next) /\ Quiet
  BY DEF SubmitActivate, Quiet
<1>2. Asks(k, q)
  <2>1. k[1] \notin Told
    BY DEF FreshKey, Told
  <2> QED BY <2>1, OtherAsks
<1>3. [next EXCEPT !.op = k].pc \notin Flowing /\ Idle.pc \notin Flowing
  BY DEF Idle, Flowing
<1> HIDE DEF k, q, next
<1>4. TableStep /\ \E x : call' = [call EXCEPT ![t] = x] /\ x.pc \notin Flowing
  BY <1>1, <1>2, <1>3, SubmitOrRaiseIsStep
<1> QED BY <1>4, MoveKeepsPages

\* What was collected over each action of the session.
LEMMA StepKeepsPages ==
  ASSUME OpInv, VisitInv, ServeInv, PagesInv, [SessionNext]_sessionVars
  PROVE  PagesInv'
<1> USE DEF Threads
<1>1. ASSUME TableStep, ActiveStays, call' = call, runs' = runs,
             active # NoContext => active' # NoContext
      PROVE  PagesInv'
  <2>1. TableTold' /\ Keeps
    BY <1>1, StepKeepsTold DEF PagesInv
  <2>2. FlowsTold'
    BY <1>1, <2>1, OthersGoOn DEF PagesInv, ServeInv, FlowsTold
  <2>3. RunsTold'
    BY <1>1, <2>1, RunsLast DEF PagesInv, RunsTold
  <2> QED BY <2>1, <2>2, <2>3 DEF PagesInv
<1>2. CASE UNCHANGED sessionVars
  BY <1>1, <1>2 DEF sessionVars, controllerVars, flowVars, gatewayVars, TableStep, Rests, Quiet,
                    ActiveStays
<1>3. ASSUME NEW t \in Callers, NEW r \in Contexts, OpenContext(t, r) PROVE PagesInv'
  <2>1. active' = active /\ runs' = runs
    BY <1>3 DEF OpenContext
  <2>2. CASE started
    BY <1>3, <2>1, <2>2, ActivateKeepsPages DEF OpenContext
  <2>3. CASE ~started
    <3> DEFINE x == [Idle EXCEPT !.pc = "start", !.op = FreshKey("start"), !.context = r]
    <3>1. TableStep /\ call' = [call EXCEPT ![t] = x]
      BY <1>3, <2>3 DEF OpenContext, BuildOwner, Builds, TableStep, Rests
    <3>2. x.pc \notin Flowing
      BY DEF Idle, Flowing
    <3> HIDE DEF x
    <3> QED BY <2>1, <3>1, <3>2, MoveKeepsPages
  <2> QED BY <2>2, <2>3
<1>4. ASSUME NEW t \in Callers, NEW key \in FlowKeys, CallLoadFlow(t, key) PROVE PagesInv'
  <2> DEFINE x == [Idle EXCEPT !.pc = "called", !.key = key]
  <2>1. /\ TableStep /\ active' = active /\ runs' = runs /\ active # NoContext
        /\ call' = [call EXCEPT ![t] = x]
    BY <1>4 DEF CallLoadFlow, controllerVars, gatewayVars, TableStep, Rests, Quiet
  <2>2. TableTold' /\ Keeps
    BY <2>1, StepKeepsTold DEF PagesInv, ActiveStays
  <2>3. x.pc = "called" /\ x.values = <<>>
    BY DEF Idle
  <2> HIDE DEF x
  <2>4. FlowsTold'
    BY <2>1, <2>2, <2>3, MoveKeepsFlows DEF PagesInv, ServeInv, Going
  <2>5. RunsTold'
    BY <2>1, <2>2, RunsLast DEF PagesInv, RunsTold
  <2> QED BY <2>2, <2>4, <2>5 DEF PagesInv
<1>5. ASSUME NEW t \in Callers, SessionStarted(t) PROVE PagesInv'
  BY <1>5, ActivateKeepsPages DEF SessionStarted
<1>6. ASSUME NEW t \in Threads, TableStep, active # NoContext => active' # NoContext, runs' = runs,
             Returns(t)
      PROVE  PagesInv'
  BY <1>6, MoveKeepsPages DEF Returns, Idle, Flowing
<1>7. ASSUME NEW t \in Callers, StartFails(t) PROVE PagesInv'
  BY <1>6, <1>7 DEF StartFails, TableStep, Rests, Quiet
<1>8. ASSUME NEW t \in Callers, ContextActivated(t) PROVE PagesInv'
  <2>1. active = NoContext
    BY <1>8 DEF ContextActivated, ServeInv, LockHeld, Activating
  <2> QED BY <1>6, <1>8, <2>1 DEF ContextActivated, TableStep, Rests, Quiet, gatewayVars
<1>9. ASSUME NEW t \in Callers, ActivationFails(t) PROVE PagesInv'
  BY <1>6, <1>9 DEF ActivationFails, TableStep, Rests, Quiet, gatewayVars
<1>10. ASSUME NEW t \in Callers, BeginLoadFlow(t) PROVE PagesInv'
  <2>1. Quiet /\ active' = active /\ runs' = runs /\ call[t].pc = "called"
    BY <1>10 DEF BeginLoadFlow, controllerVars, Quiet
  <2>2. CASE context = Extracted
    <3> DEFINE k == <<"execute", call[t].key>>
               r == [context |-> context, key |-> call[t].key]
               next == [call[t] EXCEPT !.pc = "execute", !.context = context]
    <3>1. SubmitOrRaise(t, k, r, next)
      BY <1>10, <2>2 DEF BeginLoadFlow, SubmitExecute
    <3>2. active # NoContext /\ call[t].values = <<>> /\ DOMAIN call[t] = CallFields
      BY <2>1 DEF PagesInv, FlowsTold, FlowTold, Going, ServeInv, CallsShaped
    <3>3. Asks(k, r)
      BY <3>2 DEF Asks
    <3>4. DOMAIN next = CallFields /\ Going([next EXCEPT !.op = k])
      BY <3>2 DEF Going, CallFields, ExecuteKey
    <3> HIDE DEF k, r, next
    <3> QED BY <2>1, <3>1, <3>3, <3>4, SubmitKeepsPages
  <2>3. CASE context # Extracted
    BY <1>6, <1>10, <2>1, <2>3 DEF BeginLoadFlow, TableStep, Rests
  <2> QED BY <2>2, <2>3
<1>11. ASSUME NEW t \in Callers, LoadFlowStep(t) PROVE PagesInv'
  BY <1>11, FlowKeepsPages DEF LoadFlowStep, controllerVars
<1>12. CASE BeginShutdown
  <2> DEFINE x == [call[Closer] EXCEPT !.pc = "closing"]
  <2>1. /\ TableStep /\ active' = active /\ runs' = runs
        /\ call' = [call EXCEPT ![Closer] = x]
    BY <1>12 DEF BeginShutdown, gatewayVars, TableStep, Rests, Quiet
  <2>2. x.pc \notin Flowing
    BY DEF ServeInv, CallsShaped, CallFields, Flowing
  <2> HIDE DEF x
  <2> QED BY <2>1, <2>2, MoveKeepsPages
<1>13. CASE SubmitClose
  <2> DEFINE k == FreshKey("close")
             x == [call[Closer] EXCEPT !.pc = "close", !.op = k]
  <2>1. Quiet /\ active' = active /\ runs' = runs
    BY <1>13 DEF SubmitClose, controllerVars, Quiet
  <2>2. CASE UNCHANGED ownerVars \/ ShutdownSerialization("closed")
    <3>1. CASE Returns(Closer)
      BY <1>6, <2>1, <2>2, <3>1 DEF TableStep, Rests
    <3>2. CASE Waits(Closer, "close", k)
      <4>1. call' = [call EXCEPT ![Closer] = x]
        BY <3>2 DEF Waits
      <4>2. x.pc \notin Flowing
        BY DEF ServeInv, CallsShaped, CallFields, Flowing
      <4>3. TableStep
        BY <2>1, <2>2 DEF TableStep, Rests
      <4> HIDE DEF x
      <4> QED BY <2>1, <4>1, <4>2, <4>3, MoveKeepsPages
    <3> QED BY <1>13, <3>1, <3>2 DEF SubmitClose
  <2>3. CASE Enqueue(k, <<>>) /\ Waits(Closer, "close", k)
    <3>1. TableStep
      <4>1. Asks(k, <<>>)
        BY OtherAsks DEF FreshKey, Told
      <4> QED BY <2>1, <2>3, <4>1 DEF Enqueue, Known, Submits, TableStep, Rests
    <3>2. call' = [call EXCEPT ![Closer] = x]
      BY <2>3 DEF Waits
    <3>3. x.pc \notin Flowing
      BY DEF ServeInv, CallsShaped, CallFields, Flowing
    <3> HIDE DEF x
    <3> QED BY <2>1, <3>1, <3>2, <3>3, MoveKeepsPages
  <2> QED BY <1>13, <2>2, <2>3 DEF SubmitClose
<1>14. CASE FinishClose
  BY <1>6, <1>14 DEF FinishClose, controllerVars, TableStep, Rests, Quiet
<1>15. CASE OwnerServes
  BY <1>1, <1>15 DEF OwnerServes, controllerVars, TableStep, ActiveStays
<1>16. CASE OwnerStops \/ QueueExpires
  BY <1>1, <1>16 DEF OwnerStops, QueueExpires, controllerVars, TableStep, Rests, Stops, Quiet, ActiveStays
<1>17. CASE Restart
  <2>1. TableStep /\ ActiveStays /\ runs' = runs
    BY <1>17 DEF Restart, Restarts, TableStep, Rests, ActiveStays
  <2>2. TableTold' /\ Keeps
    BY <2>1, StepKeepsTold DEF PagesInv
  <2>3. FlowsTold'
    BY <1>17, StoppedGoes DEF Restart, Idle, FlowsTold, FlowTold, Flowing, Going
  <2>4. RunsTold'
    BY <2>1, <2>2, RunsLast DEF PagesInv, RunsTold
  <2> QED BY <2>2, <2>3, <2>4 DEF PagesInv
<1> QED BY <1>2, <1>3, <1>4, <1>5, <1>7, <1>8, <1>9, <1>10, <1>11, <1>12, <1>13, <1>14, <1>15,
           <1>16, <1>17 DEF SessionNext, Proceeds

\* Nothing was collected at first.
LEMMA PagesAtFirst == SessionInit => PagesInv
<1> SUFFICES ASSUME SessionInit PROVE PagesInv
  OBVIOUS
<1>1. /\ operation = <<>> /\ queue = <<>> /\ executed = <<>> /\ runs = {}
      /\ adapter = NewAdapter /\ engine.results = 0
      /\ \A t \in Threads : call[t] = Idle
  BY DEF SessionInit, GatewayInit, OwnerInit, VendorInit, FreshEngine
<1>2. DOMAIN adapter.executions = {} /\ DOMAIN adapter.cursors = {}
  BY <1>1 DEF NewAdapter
<1>3. TableTold
  BY <1>1, <1>2, FS_EmptySet DEF TableTold, Undone, Memory, TokensNumbered, ExecutionsTold, PagesTold
<1>4. FlowsTold /\ RunsTold
  BY <1>1 DEF Idle, FlowsTold, FlowTold, Going, RunsTold
<1> QED BY <1>3, <1>4 DEF PagesInv

LEMMA PagesInvariant == SessionSpec => []PagesInv
<1>1. OpInv /\ VisitInv /\ [SessionNext]_sessionVars => VisitInv'
  BY StepIsGatewayStep, StepKeepsVisit
<1>2. OpInv /\ VisitInv /\ ServeInv /\ [SessionNext]_sessionVars => ServeInv'
  BY StepKeepsServing
<1>3. OpInv /\ VisitInv /\ ServeInv /\ PagesInv /\ [SessionNext]_sessionVars => PagesInv'
  BY StepKeepsPages
<1> QED BY <1>1, <1>2, <1>3, TableInvariant, VisitAtFirst, ServingAtFirst, PagesAtFirst, PTL
        DEF SessionSpec

\* An object has one value for a key.
LEMMA CellsAgree ==
  ASSUME NEW key, NEW i, NEW v, NEW w, Cell(key, i, v), Cell(key, i, w)
  PROVE  v = w
<1>1. PICK n \in Nat, j \in 1..PageSize :
        i = Start(n) + j /\ v = Result(PageKey(key, n)).values[j]
  BY DEF Cell
<1>2. PICK m \in Nat, h \in 1..PageSize :
        i = Start(m) + h /\ w = Result(PageKey(key, m)).values[h]
  BY DEF Cell
<1>3. n = m /\ j = h
  BY <1>1, <1>2, PagesApart
<1> QED BY <1>1, <1>2, <1>3

\* Two runs that converged for a key have the same values, although their pages may have
\* been asked for by different attempts, before and after a restart, and be answered
\* late (LoadFlowService._collect_metrics, the keys of its pages).
THEOREM SessionRetriesAgree == SessionSpec => []RetriesAgree
<1>1. PagesInv => RetriesAgree
  <2> SUFFICES ASSUME PagesInv, NEW a \in runs, NEW b \in runs,
                      a.state = "CONVERGED", b.state = "CONVERGED", a.key = b.key
               PROVE  a.values = b.values /\ a.execution = b.execution
    BY DEF RetriesAgree
  <2>1. /\ RunTold(a) /\ RunTold(b)
    BY DEF PagesInv, RunsTold
  <2>2. /\ a.values \in Seq(Nat) /\ Len(a.values) = Objects
        /\ b.values \in Seq(Nat) /\ Len(b.values) = Objects
        /\ \A i \in DOMAIN a.values : Cell(a.key, i, a.values[i])
        /\ \A i \in DOMAIN b.values : Cell(a.key, i, b.values[i])
    BY <2>1 DEF RunTold, Collected
  <2>3. \A i \in 1..Objects : a.values[i] = b.values[i]
    BY <2>2, CellsAgree
  <2>4. a.execution = b.execution
    BY <2>1 DEF RunTold, Named
  <2> QED BY <2>2, <2>3, <2>4
<1> QED BY <1>1, PagesInvariant, PTL

\* A run that is stored as converged has the value of every object, of the execution it
\* names or a later one, and that execution was performed for its key, whatever was
\* lost, retried or answered late on the way (run_validated_load_flow, record).
THEOREM SessionConvergedIsComplete == SessionSpec => []ConvergedIsComplete
<1>1. PagesInv => ConvergedIsComplete
  <2> SUFFICES ASSUME PagesInv, NEW run \in runs, run.state = "CONVERGED"
               PROVE  /\ Len(run.values) = Objects
                      /\ executed[run.execution] = run.key
                      /\ \A i \in DOMAIN run.values : run.values[i] >= run.execution
    BY DEF PagesInv, RunsTold, RunTold, ConvergedIsComplete
  <2>1. /\ Len(run.values) = Objects
        /\ Collected(run.key, run.values)
        /\ Named(run.key, run.execution)
    BY DEF PagesInv, RunsTold, RunTold
  <2>2. executed[run.execution] = run.key
    <3>1. ExecuteKey(run.key)[1] = "execute" /\ ExecuteKey(run.key)[2] = run.key
      BY DEF ExecuteKey
    <3> QED BY <2>1, <3>1 DEF Named, IsDone, PagesInv, TableTold, ExecutionsTold
  <2>3. ASSUME NEW i \in DOMAIN run.values PROVE run.values[i] >= run.execution
    <3>1. PICK n \in Nat, j \in 1..PageSize :
            /\ IsDone(PageKey(run.key, n))
            /\ j \in DOMAIN Result(PageKey(run.key, n)).values
            /\ run.values[i] = Result(PageKey(run.key, n)).values[j]
      BY <2>1 DEF Collected, Cell
    <3> DEFINE k == PageKey(run.key, n)
    <3>2. k[1] = "results" /\ k[2][1] = run.key /\ k[2][2] = n
      BY DEF PageKey
    <3>3. Follows(run.key, n, Request(k)) /\ PageTold(k)
      BY <3>1, <3>2 DEF IsDone, PagesInv, TableTold, PagesTold
    <3>4. Request(k).execution = run.execution
      BY <2>1, <3>3 DEF Follows, Named
    <3> QED BY <3>1, <3>3, <3>4 DEF PageTold
  <2> QED BY <2>1, <2>2, <2>3
<1> QED BY <1>1, PagesInvariant, PTL

-----------------------------------------------------------------------------
\* The overlays of a snapshot under a definition: the violation it has, or none.
LEMMA KeysOfSnapshot ==
  ASSUME NEW snapshot, NEW d \in DOMAIN snapshot, NEW m, m = snapshot[d]
  PROVE  Keys(snapshot, d) = IF Violates(m) THEN {<<"violation", d, EvaluateMetric(m).side>>} ELSE {}
<1>1. \A o \in Overlays(snapshot) :
        o[1] = "violation" /\ o[2] = d <=>
          Violates(m) /\ o = <<"violation", d, EvaluateMetric(m).side>>
  BY DEF Overlays
<1>2. Violates(m) => <<"violation", d, EvaluateMetric(m).side>> \in Overlays(snapshot)
  BY DEF Overlays
<1> QED BY <1>1, <1>2 DEF Keys

\* What a finding tells of measurements p and q, of which the snapshots show b and c.
FindingTold(d, p, q, b, c) ==
  LET swung == b # {} /\ c # {} /\ b # c
      bothEvaluated == Evaluated(p) /\ Evaluated(q) IN
  /\ bothEvaluated <=> Trend(p, q) # "not evaluated"
  /\ bothEvaluated => (Trend(p, q) = "new" <=> c # {} /\ b = {})
  /\ bothEvaluated => (Trend(p, q) = "resolved" <=> b # {} /\ c = {})
  /\ Trend(p, q) = "unchanged" /\ ~swung => b = c
  /\ b \cup c # {} /\ ~swung => {FindingKey(d, p, q)} = b \cup c

\* The trend and the key of a finding follow from the one violation of each snapshot.
LEMMA FindingOfKeys ==
  ASSUME NEW d, NEW p, NEW q, NEW b, NEW c,
         b = IF Violates(p) THEN {<<"violation", d, EvaluateMetric(p).side>>} ELSE {},
         c = IF Violates(q) THEN {<<"violation", d, EvaluateMetric(q).side>>} ELSE {}
  PROVE  FindingTold(d, p, q, b, c)
<1>1. Trend(p, q) = IF ~Evaluated(p) \/ ~Evaluated(q) THEN "not evaluated"
                    ELSE IF Violates(q) /\ ~Violates(p) THEN "new"
                    ELSE IF Violates(p) /\ ~Violates(q) THEN "resolved" ELSE "unchanged"
  BY DEF Trend
<1>2. FindingKey(d, p, q) = IF Violates(q) THEN <<"violation", d, EvaluateMetric(q).side>>
                            ELSE IF Violates(p) THEN <<"violation", d, EvaluateMetric(p).side>>
                            ELSE <<"evaluated", d>>
  BY DEF FindingKey
<1>3. ASSUME b \cup c # {}, ~(b # {} /\ c # {} /\ b # c)
      PROVE  {FindingKey(d, p, q)} = b \cup c
  <2>1. CASE Violates(q)
    BY <1>2, <1>3, <2>1
  <2>2. CASE ~Violates(q)
    BY <1>2, <1>3, <2>2
  <2> QED BY <2>1, <2>2
<1>4. (Evaluated(p) /\ Evaluated(q)) <=> Trend(p, q) # "not evaluated"
  BY <1>1
<1>5. (Evaluated(p) /\ Evaluated(q)) =>
        /\ Trend(p, q) = "new" <=> (c # {} /\ b = {})
        /\ Trend(p, q) = "resolved" <=> (b # {} /\ c = {})
  BY <1>1
<1>6. (Trend(p, q) = "unchanged" /\ ~(b # {} /\ c # {} /\ b # c)) => b = c
  BY <1>1
<1> QED BY <1>3, <1>4, <1>5, <1>6 DEF FindingTold

\* What is stored of a comparison agrees with the overlays stored of its snapshots, for any
\* metrics, limits and values: there is one key to a definition on each side, and the trend
\* tells which side has it (_compare_finding, build_calculation_overlays).
THEOREM TrendsAlwaysFollowOverlays == ComparisonInit => TrendsFollowOverlays
<1>1. ASSUME compared \in Comparisons, NEW d \in Metrics
      PROVE  /\ Keys(Baseline, d) = IF Violates(Baseline[d])
                                    THEN {<<"violation", d, EvaluateMetric(Baseline[d]).side>>} ELSE {}
             /\ Keys(Candidate, d) = IF Violates(Candidate[d])
                                     THEN {<<"violation", d, EvaluateMetric(Candidate[d]).side>>} ELSE {}
  <2>1. d \in DOMAIN Baseline /\ d \in DOMAIN Candidate
    BY <1>1, ComparisonsAssumption DEF Metrics, Baseline, Candidate
  <2>2. Keys(Baseline, d) = IF Violates(Baseline[d])
                            THEN {<<"violation", d, EvaluateMetric(Baseline[d]).side>>} ELSE {}
    BY <2>1, KeysOfSnapshot
  <2>3. Keys(Candidate, d) = IF Violates(Candidate[d])
                             THEN {<<"violation", d, EvaluateMetric(Candidate[d]).side>>} ELSE {}
    BY <2>1, KeysOfSnapshot
  <2> QED BY <2>2, <2>3
<1>2. ASSUME compared \in Comparisons, NEW d \in Metrics
      PROVE  FindingTold(d, Baseline[d], Candidate[d], Keys(Baseline, d), Keys(Candidate, d))
  BY <1>1, <1>2, FindingOfKeys
<1> QED BY <1>2 DEF FindingTold, ComparisonInit, TrendsFollowOverlays
==============================================================================
