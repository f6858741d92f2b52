--------------------------- MODULE IdentityProofs ---------------------------
(***************************************************************************)
(* Theorems about identities and the graphs extracted with them, for any   *)
(* places, number of curators and extracting threads, and bounds.          *)
(*                                                                         *)
(* IdentityStore: types, RecreationNeedsProof and HistoryIsLinear.  Neither*)
(* property is inductive.  IInv adds what a decision that is not stale     *)
(* still knows, that the current locator of an identity is its latest, and *)
(* that what is tombstoned has a row in tombstones.                        *)
(*                                                                         *)
(* ModelGraph: IdentityIsStable and RevisionsFollow.  GraphInv adds that   *)
(* what a thread or a revision has bound to a place has a locator there    *)
(* (BindingsTold), and how the number and the time that a thread has drawn *)
(* stand to the revisions that others have stored since (RevisionsInv).    *)
(*                                                                         *)
(* Topology: DiffTellsTheRefresh, of any graph and refresh, and of any     *)
(* stored graph QueriesAgree, what components are and which paths are      *)
(* found.  The last three are about Reach, a recursive function, and so    *)
(* need induction; InductionOverSets is about a set, which the provers can *)
(* instantiate, where the library's theorems are about an operator.        *)
(***************************************************************************)
EXTENDS ModelGraph, Topology, FiniteSetTheorems, WellFoundedInduction, TLAPS

Product == [state : States, current : Nat]
Locator == [identity : Nat, place : Places \cup {0}, prior : Nat]
Event == [identity : Nat, state : States]
Decision == [op : {"none", "rebind", "tombstone", "unresolved"}, identity : Nat,
             place : Places \cup {0}, prior : Nat, stale : BOOLEAN]

Typed == /\ products \in Seq(Product)
         /\ locators \in Seq(Locator)
         /\ events \in Seq(Event)
         /\ decided \in [Curators -> Decision]
         /\ tombstones \subseteq Identities
         /\ raced \subseteq Identities

\* Locators and events belong to identities there are; a locator replaces an earlier one.
Known == /\ \A v \in DOMAIN locators : locators[v].identity \in Identities
         /\ \A v \in DOMAIN locators : locators[v].prior \in 0..(v - 1)
         /\ \A n \in DOMAIN events : events[n].identity \in Identities

\* The current locator of an identity is its latest.
CurrentIsLatest == \A i \in Identities :
  /\ products[i].current \in DOMAIN locators
  /\ locators[products[i].current].identity = i
  /\ \A u \in DOMAIN locators : locators[u].identity = i => u <= products[i].current

\* What the decision of c rests on, as long as nobody wrote since.
Rests(c) == LET d == decided[c] IN
  d.op # "none" =>
    /\ d.identity \in Identities
    /\ d.op = "rebind" => d.prior \in DOMAIN locators
    /\ ~d.stale => Live(d.identity)
    /\ ~d.stale /\ d.op = "rebind" => PriorIsCurrent(d.identity, d.prior)

DecisionsRest == \A c \in Curators : Rests(c)

DeletionsAreProven == \A i \in Identities : ~Live(i) => i \in tombstones

TypeInv == Typed /\ Known /\ CurrentIsLatest

IInv == TypeInv /\ DecisionsRest /\ DeletionsAreProven /\ RecreationNeedsProof
        /\ NeverResurrected /\ RebindsSucceed

-----------------------------------------------------------------------------
\* What an appended sequence is made of.
LEMMA Appended ==
  ASSUME NEW S, NEW s \in Seq(S), NEW e \in S
  PROVE  /\ Append(s, e) \in Seq(S)
         /\ Len(s) \in Nat
         /\ DOMAIN s = 1..Len(s)
         /\ DOMAIN Append(s, e) = 1..(Len(s) + 1)
         /\ \A n \in DOMAIN s : Append(s, e)[n] = s[n]
         /\ Append(s, e)[Len(s) + 1] = e
  OBVIOUS

\* An identity is a natural number from 1 on.
LEMMA Numbered ==
  ASSUME Typed
  PROVE  /\ Identities = 1..Len(products)
         /\ Len(products) \in Nat
         /\ 0 \notin Identities
  BY DEF Typed, Identities

\* What Create leaves behind.
LEMMA CreateWrites ==
  ASSUME Typed, NEW place \in Places, Create(place)
  PROVE  LET i == Len(products) + 1
             v == Len(locators) + 1 IN
         /\ i \in Nat /\ v \in Nat
         /\ Identities' = Identities \cup {i}
         /\ i \notin Identities
         /\ \A j \in Identities : products'[j] = products[j]
         /\ products'[i] = [state |-> "active", current |-> v]
         /\ (DOMAIN locators)' = DOMAIN locators \cup {v}
         /\ DOMAIN locators = 1..(v - 1)
         /\ \A u \in DOMAIN locators : locators'[u] = locators[u]
         /\ locators'[v] = [identity |-> i, place |-> place, prior |-> 0]
         /\ (DOMAIN events)' = DOMAIN events \cup {Len(events) + 1}
         /\ DOMAIN events = 1..Len(events)
         /\ Len(events) \in Nat
         /\ \A n \in DOMAIN events : events'[n] = events[n]
         /\ events'[Len(events) + 1] = [identity |-> i, state |-> "active"]
         /\ tombstones' = tombstones /\ decided' = decided /\ raced' = raced
         /\ products' \in Seq(Product) /\ locators' \in Seq(Locator) /\ events' \in Seq(Event)
<1> DEFINE i == Len(products) + 1
           v == Len(locators) + 1
           p == [state |-> "active", current |-> v]
           l == [identity |-> i, place |-> place, prior |-> 0]
           e == [identity |-> i, state |-> "active"]
<1>1. i \in Nat /\ v \in Nat /\ Len(events) \in Nat
  BY DEF Typed
<1>2. p \in Product /\ l \in Locator /\ e \in Event
  BY <1>1 DEF Product, Locator, Event, States
<1>3. products' = Append(products, p) /\ locators' = Append(locators, l)
      /\ events' = Append(events, e)
  BY DEF Create
<1>4. products \in Seq(Product) /\ locators \in Seq(Locator) /\ events \in Seq(Event)
  BY DEF Typed
<1>5. tombstones' = tombstones /\ decided' = decided /\ raced' = raced
  BY DEF Create
<1> HIDE DEF p, l, e
<1>6. /\ products' \in Seq(Product)
      /\ DOMAIN products = 1..Len(products)
      /\ DOMAIN products' = 1..(Len(products) + 1)
      /\ \A j \in DOMAIN products : products'[j] = products[j]
      /\ products'[i] = p
  BY <1>2, <1>3, <1>4, Appended
<1>7. /\ locators' \in Seq(Locator)
      /\ DOMAIN locators = 1..Len(locators)
      /\ DOMAIN locators' = 1..(Len(locators) + 1)
      /\ \A u \in DOMAIN locators : locators'[u] = locators[u]
      /\ locators'[v] = l
  BY <1>2, <1>3, <1>4, Appended
<1>8. /\ events' \in Seq(Event)
      /\ DOMAIN events = 1..Len(events)
      /\ DOMAIN events' = 1..(Len(events) + 1)
      /\ \A n \in DOMAIN events : events'[n] = events[n]
      /\ events'[Len(events) + 1] = e
  BY <1>2, <1>3, <1>4, Appended
<1> USE DEF p, l, e
<1> QED BY <1>1, <1>5, <1>6, <1>7, <1>8 DEF Identities

\* What every write of an identity leaves behind.
WriteEffect(c, i, state, current) ==
  /\ Identities' = Identities
  /\ i \in Nat
  /\ \A j \in Identities : j # i => products'[j] = products[j]
  /\ products'[i] = [state |-> state, current |-> current]
  /\ (DOMAIN events)' = DOMAIN events \cup {Len(events) + 1}
  /\ DOMAIN events = 1..Len(events)
  /\ Len(events) \in Nat
  /\ \A n \in DOMAIN events : events'[n] = events[n]
  /\ events'[Len(events) + 1] = [identity |-> i, state |-> state]
  /\ decided'[c] = Undecided
  /\ \A d \in Curators : d # c =>
       decided'[d] = [decided[d] EXCEPT !.stale = @ \/ decided[d].identity = i]
  /\ raced' = IF decided[c].stale THEN raced \cup {i} ELSE raced
  /\ products' \in Seq(Product) /\ events' \in Seq(Event)
  /\ decided' \in [Curators -> Decision] /\ raced' \subseteq Identities'

LEMMA WrittenWrites ==
  ASSUME Typed, NEW c \in Curators, NEW i \in Identities,
         NEW state \in States, NEW current \in Nat,
         Written(c, i, state, current)
  PROVE  WriteEffect(c, i, state, current)
<1> DEFINE p == [state |-> state, current |-> current]
           e == [identity |-> i, state |-> state]
           after(d) == IF d = c THEN Undecided
                       ELSE [decided[d] EXCEPT !.stale = @ \/ decided[d].identity = i]
<1>1. i \in Nat /\ p \in Product /\ e \in Event
  BY Numbered DEF Product, Event
<1>2. products' = [products EXCEPT ![i] = p] /\ events' = Append(events, e)
      /\ decided' = [d \in Curators |-> after(d)]
      /\ raced' = IF decided[c].stale THEN raced \cup {i} ELSE raced
  BY DEF Written
<1> HIDE DEF p, e
<1>3. /\ products' \in Seq(Product) /\ DOMAIN products' = DOMAIN products
      /\ products'[i] = p /\ \A j \in Identities : j # i => products'[j] = products[j]
  BY <1>1, <1>2 DEF Typed, Identities
<1>4. /\ events' \in Seq(Event)
      /\ Len(events) \in Nat
      /\ DOMAIN events = 1..Len(events)
      /\ DOMAIN events' = 1..(Len(events) + 1)
      /\ \A n \in DOMAIN events : events'[n] = events[n]
      /\ events'[Len(events) + 1] = e
  BY <1>1, <1>2, Appended DEF Typed
<1>5. decided' \in [Curators -> Decision]
  <2>1. ASSUME NEW d \in Curators PROVE after(d) \in Decision
    BY DEF Typed, Decision, Undecided
  <2> QED BY <1>2, <2>1
<1>6. raced' \subseteq Identities'
  BY <1>2, <1>3 DEF Typed, Identities
<1>7. (DOMAIN events)' = DOMAIN events \cup {Len(events) + 1}
  BY <1>4
<1> USE DEF p, e
<1> QED BY <1>1, <1>2, <1>3, <1>4, <1>5, <1>6, <1>7 DEF Identities, WriteEffect

-----------------------------------------------------------------------------
\* create(): a new identity disturbs no other one.
LEMMA CreateKeeps ==
  ASSUME IInv, NEW place \in Places, Create(place)
  PROVE  IInv'
<1> DEFINE i == Len(products) + 1
           v == Len(locators) + 1
           m == Len(events) + 1
<1>1. /\ i \in Nat /\ v \in Nat
      /\ Identities' = Identities \cup {i}
      /\ i \notin Identities
      /\ \A j \in Identities : products'[j] = products[j]
      /\ products'[i] = [state |-> "active", current |-> v]
  BY CreateWrites DEF IInv, TypeInv
<1>2. /\ (DOMAIN locators)' = DOMAIN locators \cup {v}
      /\ DOMAIN locators = 1..(v - 1)
      /\ \A u \in DOMAIN locators : locators'[u] = locators[u]
      /\ locators'[v] = [identity |-> i, place |-> place, prior |-> 0]
  BY CreateWrites DEF IInv, TypeInv
<1>3. /\ (DOMAIN events)' = DOMAIN events \cup {m}
      /\ DOMAIN events = 1..(m - 1)
      /\ m \in Nat
      /\ \A n \in DOMAIN events : events'[n] = events[n]
      /\ events'[m] = [identity |-> i, state |-> "active"]
  <2>1. /\ (DOMAIN events)' = DOMAIN events \cup {m}
        /\ DOMAIN events = 1..Len(events)
        /\ Len(events) \in Nat
        /\ \A n \in DOMAIN events : events'[n] = events[n]
        /\ events'[m] = [identity |-> i, state |-> "active"]
    BY CreateWrites DEF IInv, TypeInv
  <2>2. m \in Nat /\ m - 1 = Len(events)
    BY <2>1
  <2> HIDE DEF i, m
  <2> QED BY <2>1, <2>2
<1>4. tombstones' = tombstones /\ decided' = decided /\ raced' = raced
  BY DEF Create
<1>5. Typed'
  BY <1>1, <1>4, CreateWrites DEF IInv, TypeInv, Typed
<1> HIDE DEF i, v, m
<1>6. Known'
  <2>1. \A w \in (DOMAIN locators)' : locators'[w].identity \in Identities'
    BY <1>1, <1>2 DEF IInv, TypeInv, Known
  <2>2. \A w \in (DOMAIN locators)' : locators'[w].prior \in 0..(w - 1)
    <3>1. locators'[v].prior \in 0..(v - 1)
      <4>1. locators'[v].prior = 0 /\ v >= 1
        BY <1>1, <1>2 DEF v, IInv, TypeInv, Typed
      <4> QED BY <1>1, <4>1
    <3> QED BY <1>2, <3>1 DEF IInv, TypeInv, Known
  <2>3. \A n \in (DOMAIN events)' : events'[n].identity \in Identities'
    BY <1>1, <1>3 DEF IInv, TypeInv, Known
  <2> QED BY <2>1, <2>2, <2>3 DEF Known
<1>7. CurrentIsLatest'
  <2> SUFFICES ASSUME NEW j \in Identities'
               PROVE  /\ products'[j].current \in (DOMAIN locators)'
                      /\ locators'[products'[j].current].identity = j
                      /\ \A u \in (DOMAIN locators)' :
                           locators'[u].identity = j => u <= products'[j].current
    BY DEF CurrentIsLatest
  <2>1. CASE j = i
    BY <1>1, <1>2, <2>1 DEF IInv, TypeInv, Known
  <2>2. CASE j \in Identities
    BY <1>1, <1>2, <2>2 DEF IInv, TypeInv, CurrentIsLatest
  <2> QED BY <1>1, <2>1, <2>2
<1>8. DecisionsRest'
  BY <1>1, <1>2, <1>4 DEF IInv, DecisionsRest, Rests, Live, PriorIsCurrent
<1>9. DeletionsAreProven'
  BY <1>1, <1>4 DEF IInv, DeletionsAreProven, Live
<1>10. RecreationNeedsProof'
  <2> SUFFICES ASSUME NEW u \in (DOMAIN locators)', NEW w \in (DOMAIN locators)',
                      u < w, locators'[w].prior = 0, locators'[u].place = locators'[w].place
               PROVE  locators'[u].identity \in tombstones'
    BY DEF RecreationNeedsProof
  <2>1. u \in DOMAIN locators /\ locators'[u] = locators[u]
    BY <1>1, <1>2
  <2>2. CASE w = v
    <3>1. locators[u].identity \in BoundTo(place)
      BY <1>2, <2>1, <2>2 DEF BoundTo
    <3>2. ~Live(locators[u].identity)
      BY <3>1 DEF Create, Conflicts
    <3> QED BY <1>4, <2>1, <3>2 DEF IInv, TypeInv, Known, DeletionsAreProven
  <2>3. CASE w \in DOMAIN locators
    BY <1>2, <1>4, <2>1, <2>3 DEF IInv, RecreationNeedsProof
  <2> QED BY <1>2, <2>2, <2>3
<1>11. NeverResurrected'
  <2>1. ASSUME NEW j \in Identities', NEW n \in (DOMAIN events)',
               events'[n].identity = j,
               \A k \in (DOMAIN events)' : events'[k].identity = j => k <= n
        PROVE  events'[n].state = products'[j].state
    <3>1. CASE j = i
      BY <1>1, <1>3, <2>1, <3>1 DEF IInv, TypeInv, Known
    <3>2. CASE j \in Identities
      BY <1>1, <1>3, <2>1, <3>2 DEF IInv, NeverResurrected, EventsOf
    <3> QED BY <1>1, <3>1, <3>2
  <2>2. \A j \in tombstones' : Live(j)' => j \in raced'
    BY <1>1, <1>4 DEF IInv, TypeInv, Typed, NeverResurrected, Live
  <2> QED BY <2>1, <2>2 DEF NeverResurrected, EventsOf
<1>12. RebindsSucceed'
  <2> SUFFICES ASSUME NEW w \in (DOMAIN locators)', locators'[w].prior # 0,
                      locators'[w].identity \notin raced'
               PROVE  /\ locators'[locators'[w].prior].identity = locators'[w].identity
                      /\ \A u \in (locators'[w].prior + 1)..(w - 1) :
                           locators'[u].identity # locators'[w].identity
    BY DEF RebindsSucceed
  <2>1. w \in DOMAIN locators /\ locators'[w] = locators[w]
    BY <1>2
  <2>2. locators[w].prior \in DOMAIN locators
    BY <1>1, <1>2, <2>1 DEF IInv, TypeInv, Known
  <2> QED BY <1>1, <1>2, <1>4, <2>1, <2>2 DEF IInv, RebindsSucceed
<1> QED BY <1>5, <1>6, <1>7, <1>8, <1>9, <1>10, <1>11, <1>12 DEF IInv, TypeInv

\* A decision is taken on what is there: it writes nothing.
LEMMA DecidesKeeps ==
  ASSUME IInv, NEW c \in Curators, NEW op \in {"rebind", "tombstone", "unresolved"},
         NEW i \in Identities, NEW place \in Places \cup {0}, NEW prior \in Nat,
         Decides(c, op, i, place, prior),
         Live(i), op = "rebind" => prior \in DOMAIN locators /\ PriorIsCurrent(i, prior)
  PROVE  IInv'
<1> DEFINE d == [op |-> op, identity |-> i, place |-> place, prior |-> prior, stale |-> FALSE]
<1>1. /\ UNCHANGED <<products, locators, events, tombstones, raced>>
      /\ decided' = [decided EXCEPT ![c] = d]
  BY DEF Decides
<1>2. Typed'
  <2>1. d \in Decision
    BY Numbered DEF IInv, TypeInv, Decision
  <2> HIDE DEF d
  <2> QED BY <1>1, <2>1 DEF IInv, TypeInv, Typed, Identities
<1>3. DecisionsRest'
  <2> SUFFICES ASSUME NEW x \in Curators PROVE Rests(x)'
    BY DEF DecisionsRest
  <2>1. CASE x = c
    <3>1. decided'[c] = d
      BY <1>1 DEF IInv, TypeInv, Typed
    <3> QED BY <1>1, <2>1, <3>1 DEF Rests, Live, PriorIsCurrent, Identities
  <2>2. CASE x # c
    <3>1. decided'[x] = decided[x]
      BY <1>1, <2>2 DEF IInv, TypeInv, Typed
    <3> QED BY <1>1, <3>1 DEF IInv, DecisionsRest, Rests, Live, PriorIsCurrent, Identities
  <2> QED BY <2>1, <2>2
<1>4. Known' /\ CurrentIsLatest' /\ DeletionsAreProven'
  BY <1>1 DEF IInv, TypeInv, Known, CurrentIsLatest, DeletionsAreProven, Live, Identities
<1>5. RecreationNeedsProof' /\ NeverResurrected' /\ RebindsSucceed'
  BY <1>1 DEF IInv, RecreationNeedsProof, NeverResurrected, RebindsSucceed, EventsOf, Live,
              Identities
<1> QED BY <1>2, <1>3, <1>4, <1>5 DEF IInv, TypeInv

\* What a decision rests on outlives the write of another thread, or is stale.
LEMMA WrittenKeepsDecisions ==
  ASSUME IInv, NEW c \in Curators, NEW i \in Identities,
         NEW state \in States, NEW current \in Nat,
         Written(c, i, state, current),
         DOMAIN locators \subseteq (DOMAIN locators)'
  PROVE  DecisionsRest'
<1> SUFFICES ASSUME NEW x \in Curators PROVE Rests(x)'
  BY DEF DecisionsRest
<1>0. WriteEffect(c, i, state, current)
  <2>1. Typed
    BY DEF IInv, TypeInv
  <2> QED BY <2>1, WrittenWrites
<1>1. /\ Identities' = Identities
      /\ \A j \in Identities : j # i => products'[j] = products[j]
      /\ decided'[c] = Undecided
      /\ x # c => decided'[x] = [decided[x] EXCEPT !.stale = @ \/ decided[x].identity = i]
  BY <1>0 DEF WriteEffect
<1>2. Rests(x) /\ decided[x] \in Decision
  BY DEF IInv, TypeInv, Typed, DecisionsRest
<1>3. CASE x = c
  BY <1>1, <1>3 DEF Rests, Undecided
<1>4. CASE x # c
  <2>1. /\ decided'[x].op = decided[x].op
        /\ decided'[x].identity = decided[x].identity
        /\ decided'[x].prior = decided[x].prior
        /\ decided'[x].stale = (decided[x].stale \/ decided[x].identity = i)
    BY <1>1, <1>2, <1>4 DEF Decision
  <2> QED BY <1>1, <1>2, <2>1 DEF Rests, Live, PriorIsCurrent
<1> QED BY <1>3, <1>4

\* The history of an identity ends in the state that was written last.
LEMMA WrittenEndsHistory ==
  ASSUME IInv, NEW c \in Curators, NEW i \in Identities,
         NEW state \in States, NEW current \in Nat,
         Written(c, i, state, current),
         NEW j \in Identities', NEW n \in (DOMAIN events)', events'[n].identity = j,
         \A k \in (DOMAIN events)' : events'[k].identity = j => k <= n
  PROVE  events'[n].state = products'[j].state
<1> DEFINE m == Len(events) + 1
<1>0. WriteEffect(c, i, state, current)
  <2>1. Typed
    BY DEF IInv, TypeInv
  <2> QED BY <2>1, WrittenWrites
<1>1. /\ Identities' = Identities
      /\ \A x \in Identities : x # i => products'[x] = products[x]
      /\ products'[i] = [state |-> state, current |-> current]
      /\ (DOMAIN events)' = DOMAIN events \cup {m}
      /\ DOMAIN events = 1..Len(events)
      /\ Len(events) \in Nat
      /\ \A k \in DOMAIN events : events'[k] = events[k]
      /\ events'[m] = [identity |-> i, state |-> state]
  BY <1>0 DEF WriteEffect
<1>2. CASE j = i
  <2>1. m \in (DOMAIN events)' /\ events'[m].identity = i
    BY <1>1
  <2>2. m <= n
    BY <1>2, <2>1
  <2>3. n = m
    BY <1>1, <2>2
  <2> QED BY <1>1, <1>2, <2>3
<1>3. CASE j # i
  <2>1. n \in DOMAIN events
    BY <1>1, <1>3
  <2>2. \A k \in DOMAIN events : events[k].identity = j => k <= n
    BY <1>1
  <2>3. events[n].state = products[j].state
    BY <1>1, <2>1, <2>2 DEF IInv, NeverResurrected, EventsOf
  <2> QED BY <1>1, <1>3, <2>1, <2>3
<1> QED BY <1>2, <1>3

-----------------------------------------------------------------------------
\* A write that leaves the locators alone: a tombstone or a mark.
LEMMA StateWriteKeeps ==
  ASSUME IInv, NEW c \in Curators, NEW i \in Identities,
         i = decided[c].identity, decided[c].op # "none",
         NEW state \in {"unresolved", "tombstoned"},
         Written(c, i, state, products[i].current),
         locators' = locators,
         tombstones' = IF state = "tombstoned" THEN tombstones \cup {i} ELSE tombstones
  PROVE  IInv'
<1>1. state \in States /\ products[i].current \in Nat
  <2>1. products[i] \in Product
    BY DEF IInv, TypeInv, Typed, Identities
  <2> QED BY <2>1 DEF States, Product
<1>0. WriteEffect(c, i, state, products[i].current)
  <2>1. Typed
    BY DEF IInv, TypeInv
  <2> QED BY <1>1, <2>1, WrittenWrites
<1>2. /\ Identities' = Identities
      /\ \A j \in Identities : j # i => products'[j] = products[j]
      /\ products'[i] = [state |-> state, current |-> products[i].current]
      /\ raced' = IF decided[c].stale THEN raced \cup {i} ELSE raced
      /\ products' \in Seq(Product) /\ events' \in Seq(Event)
      /\ decided' \in [Curators -> Decision] /\ raced' \subseteq Identities'
  BY <1>0 DEF WriteEffect
<1>3. /\ (DOMAIN events)' = DOMAIN events \cup {Len(events) + 1}
      /\ \A k \in DOMAIN events : events'[k] = events[k]
      /\ events'[Len(events) + 1] = [identity |-> i, state |-> state]
  BY <1>0 DEF WriteEffect
<1>4. Typed'
  BY <1>2 DEF IInv, TypeInv, Typed
<1>5. Known'
  BY <1>2, <1>3 DEF IInv, TypeInv, Known
<1>6. CurrentIsLatest'
  BY <1>2 DEF IInv, TypeInv, CurrentIsLatest
<1>7. DecisionsRest'
  BY <1>1, WrittenKeepsDecisions
<1>8. DeletionsAreProven'
  BY <1>2 DEF IInv, DeletionsAreProven, Live
<1>9. RecreationNeedsProof'
  BY <1>2 DEF IInv, RecreationNeedsProof
<1>10. NeverResurrected'
  <2>1. \A j \in tombstones' : Live(j)' => j \in raced'
    <3> SUFFICES ASSUME NEW j \in tombstones', Live(j)' PROVE j \in raced'
      OBVIOUS
    <3>1. CASE j = i
      <4>1. i \in tombstones
        BY <1>2, <3>1 DEF Live
      <4>2. CASE decided[c].stale
        BY <1>2, <3>1, <4>2
      <4>3. CASE ~decided[c].stale
        <5>1. Live(i)
          BY <4>3 DEF IInv, DecisionsRest, Rests
        <5> QED BY <1>2, <3>1, <4>1, <5>1 DEF IInv, NeverResurrected
      <4> QED BY <4>2, <4>3
    <3>2. CASE j # i
      BY <1>2, <3>2 DEF IInv, TypeInv, Typed, NeverResurrected, Live
    <3> QED BY <3>1, <3>2
  <2>2. \A j \in Identities', n \in (DOMAIN events)' :
          events'[n].identity = j /\ (\A k \in (DOMAIN events)' : events'[k].identity = j => k <= n)
          => events'[n].state = products'[j].state
    BY <1>1, WrittenEndsHistory
  <2> QED BY <2>1, <2>2 DEF NeverResurrected, EventsOf
<1>11. RebindsSucceed'
  BY <1>2 DEF IInv, RebindsSucceed
<1> QED BY <1>4, <1>5, <1>6, <1>7, <1>8, <1>9, <1>10, <1>11 DEF IInv, TypeInv

\* A rebind adds the locator that is current from now on.
LEMMA RebindKeeps ==
  ASSUME IInv, NEW c \in Curators, WriteRebind(c)
  PROVE  IInv'
<1> DEFINE d == decided[c]
           i == decided[c].identity
           v == Len(locators) + 1
           l == [identity |-> d.identity, place |-> d.place, prior |-> d.prior]
<1>1. /\ d.op = "rebind" /\ Written(c, i, "active", v)
      /\ locators' = Append(locators, l)
      /\ tombstones' = tombstones
  BY DEF WriteRebind
<1>2. d \in Decision /\ i \in Identities /\ d.prior \in DOMAIN locators
  BY <1>1 DEF IInv, TypeInv, Typed, DecisionsRest, Rests
<1>3. /\ v \in Nat /\ v \notin DOMAIN locators
      /\ locators' \in Seq(Locator)
      /\ DOMAIN locators = 1..(v - 1)
      /\ (DOMAIN locators)' = DOMAIN locators \cup {v}
      /\ \A u \in DOMAIN locators : locators'[u] = locators[u] /\ u < v
      /\ locators'[v] = l
  <2>1. l \in Locator /\ locators \in Seq(Locator)
    BY <1>2 DEF Decision, Locator, IInv, TypeInv, Typed
  <2> HIDE DEF l
  <2>2. /\ locators' \in Seq(Locator)
        /\ Len(locators) \in Nat
        /\ DOMAIN locators = 1..Len(locators)
        /\ DOMAIN locators' = 1..(Len(locators) + 1)
        /\ \A u \in DOMAIN locators : locators'[u] = locators[u]
        /\ locators'[Len(locators) + 1] = l
    BY <1>1, <2>1, Appended
  <2> QED BY <2>2
<1>4. WriteEffect(c, i, "active", v)
  <2>1. Typed /\ "active" \in States
    BY DEF IInv, TypeInv, States
  <2> HIDE DEF i, v
  <2> QED BY <1>1, <1>2, <1>3, <2>1, WrittenWrites
<1>5. /\ Identities' = Identities
      /\ \A j \in Identities : j # i => products'[j] = products[j]
      /\ products'[i] = [state |-> "active", current |-> v]
      /\ raced' = IF d.stale THEN raced \cup {i} ELSE raced
      /\ raced \subseteq raced'
  BY <1>4 DEF WriteEffect
<1>6. /\ (DOMAIN events)' = DOMAIN events \cup {Len(events) + 1}
      /\ \A k \in DOMAIN events : events'[k] = events[k]
      /\ events'[Len(events) + 1] = [identity |-> i, state |-> "active"]
  BY <1>4 DEF WriteEffect
<1>7. ~d.stale => Live(i) /\ d.prior = products[i].current
  BY <1>1 DEF IInv, DecisionsRest, Rests, PriorIsCurrent
<1>8. locators'[v].identity = i /\ locators'[v].prior = d.prior /\ d.prior \in 1..(v - 1)
  BY <1>2, <1>3
<1> HIDE DEF d, i, v, l
<1>9. Typed'
  BY <1>1, <1>3, <1>4, <1>5 DEF IInv, TypeInv, Typed, WriteEffect
<1>10. Known'
  <2>1. \A n \in (DOMAIN events)' : events'[n].identity \in Identities'
    BY <1>2, <1>5, <1>6 DEF IInv, TypeInv, Known
  <2>2. \A w \in (DOMAIN locators)' : locators'[w].identity \in Identities'
    BY <1>2, <1>3, <1>5, <1>8 DEF IInv, TypeInv, Known
  <2>3. \A w \in (DOMAIN locators)' : locators'[w].prior \in 0..(w - 1)
    BY <1>3, <1>8 DEF IInv, TypeInv, Known
  <2> QED BY <2>1, <2>2, <2>3 DEF Known
<1>11. CurrentIsLatest'
  <2> SUFFICES ASSUME NEW j \in Identities
               PROVE  /\ products'[j].current \in (DOMAIN locators)'
                      /\ locators'[products'[j].current].identity = j
                      /\ \A u \in (DOMAIN locators)' :
                           locators'[u].identity = j => u <= products'[j].current
    BY <1>5 DEF CurrentIsLatest
  <2>1. CASE j = i
    BY <1>3, <1>5, <1>8, <2>1
  <2>2. CASE j # i
    BY <1>3, <1>5, <1>8, <2>2 DEF IInv, TypeInv, CurrentIsLatest
  <2> QED BY <2>1, <2>2
<1>12. DecisionsRest'
  <2>1. "active" \in States /\ DOMAIN locators \subseteq (DOMAIN locators)'
    BY <1>3 DEF States
  <2> QED BY <1>1, <1>2, <1>3, <2>1, WrittenKeepsDecisions
<1>13. DeletionsAreProven'
  BY <1>1, <1>5 DEF IInv, DeletionsAreProven, Live
<1>14. RecreationNeedsProof'
  BY <1>1, <1>3, <1>8 DEF IInv, RecreationNeedsProof
<1>15. NeverResurrected'
  <2>1. \A j \in tombstones' : Live(j)' => j \in raced'
    <3> SUFFICES ASSUME NEW j \in tombstones', Live(j)' PROVE j \in raced'
      OBVIOUS
    <3>1. CASE j = i /\ d.stale
      BY <1>5, <3>1
    <3>2. CASE j = i /\ ~d.stale
      BY <1>1, <1>5, <1>7, <3>2 DEF IInv, NeverResurrected
    <3>3. CASE j # i
      BY <1>1, <1>5, <3>3 DEF IInv, TypeInv, Typed, NeverResurrected, Live
    <3> QED BY <3>1, <3>2, <3>3
  <2>2. "active" \in States
    BY DEF States
  <2>3. \A j \in Identities', n \in (DOMAIN events)' :
          events'[n].identity = j /\ (\A k \in (DOMAIN events)' : events'[k].identity = j => k <= n)
          => events'[n].state = products'[j].state
    BY <1>1, <1>2, <1>3, <2>2, WrittenEndsHistory
  <2> QED BY <2>1, <2>3 DEF NeverResurrected, EventsOf
<1>16. RebindsSucceed'
  <2> SUFFICES ASSUME NEW w \in (DOMAIN locators)', locators'[w].prior # 0,
                      locators'[w].identity \notin raced'
               PROVE  /\ locators'[locators'[w].prior].identity = locators'[w].identity
                      /\ \A u \in (locators'[w].prior + 1)..(w - 1) :
                           locators'[u].identity # locators'[w].identity
    BY DEF RebindsSucceed
  <2>1. CASE w \in DOMAIN locators
    <3>1. locators'[w] = locators[w] /\ locators[w].prior \in DOMAIN locators
      BY <1>3, <2>1 DEF IInv, TypeInv, Known
    <3>2. locators[w].prior # 0 /\ locators[w].identity \notin raced
      BY <1>5, <3>1
    <3>3. /\ locators[locators[w].prior].identity = locators[w].identity
          /\ \A u \in (locators[w].prior + 1)..(w - 1) :
               locators[u].identity # locators[w].identity
      BY <2>1, <3>2 DEF IInv, RebindsSucceed
    <3>4. locators'[locators[w].prior] = locators[locators[w].prior]
      BY <1>3, <3>1
    <3>5. \A u \in (locators[w].prior + 1)..(w - 1) : locators'[u] = locators[u]
      <4>1. w \in 1..Len(locators) /\ locators[w].prior \in Nat
        BY <1>2, <2>1, <3>1
      <4>2. \A u \in (locators[w].prior + 1)..(w - 1) : u \in 1..Len(locators)
        BY <1>2, <4>1
      <4> QED BY <1>2, <1>3, <4>2
    <3> QED BY <3>1, <3>3, <3>4, <3>5
  <2>2. CASE w = v
    <3>1. d.prior = products[i].current
      BY <1>5, <1>7, <1>8, <2>2
    <3>2. \A u \in DOMAIN locators : locators[u].identity = i => u <= d.prior
      BY <1>2, <3>1 DEF IInv, TypeInv, CurrentIsLatest
    <3>3. locators[d.prior].identity = i
      BY <1>2, <3>1 DEF IInv, TypeInv, CurrentIsLatest
    <3> QED BY <1>2, <1>3, <1>8, <2>2, <3>2, <3>3
  <2> QED BY <1>3, <2>1, <2>2
<1> QED BY <1>9, <1>10, <1>11, <1>12, <1>13, <1>14, <1>15, <1>16 DEF IInv, TypeInv

-----------------------------------------------------------------------------
\* Nothing is there at first.
LEMMA InitHolds == IdentityInit => IInv
<1> SUFFICES ASSUME IdentityInit PROVE IInv
  OBVIOUS
<1>1. products = <<>> /\ locators = <<>> /\ events = <<>> /\ tombstones = {} /\ raced = {}
      /\ decided = [c \in Curators |-> Undecided]
  BY DEF IdentityInit
<1>2. Typed
  BY <1>1 DEF Typed, Decision, Undecided
<1>3. DecisionsRest
  BY <1>1 DEF DecisionsRest, Rests, Undecided
<1> QED BY <1>1, <1>2, <1>3 DEF IInv, TypeInv, Known, CurrentIsLatest, DeletionsAreProven,
         RecreationNeedsProof, NeverResurrected, RebindsSucceed, Identities

\* A tombstone that is there already: the transaction is rolled back.
LEMMA DroppedKeeps ==
  ASSUME IInv, NEW c \in Curators,
         decided' = [decided EXCEPT ![c] = Undecided],
         UNCHANGED <<products, locators, events, tombstones, raced>>
  PROVE  IInv'
<1>1. Typed'
  BY DEF IInv, TypeInv, Typed, Decision, Undecided, Identities
<1>2. DecisionsRest'
  <2> SUFFICES ASSUME NEW x \in Curators PROVE Rests(x)'
    BY DEF DecisionsRest
  <2>1. decided'[x] = IF x = c THEN Undecided ELSE decided[x]
    BY DEF IInv, TypeInv, Typed
  <2> QED BY <2>1 DEF IInv, DecisionsRest, Rests, Undecided, Live, PriorIsCurrent, Identities
<1>3. Known' /\ CurrentIsLatest' /\ DeletionsAreProven'
  BY DEF IInv, TypeInv, Known, CurrentIsLatest, DeletionsAreProven, Live, Identities
<1>4. RecreationNeedsProof' /\ NeverResurrected' /\ RebindsSucceed'
  BY DEF IInv, RecreationNeedsProof, NeverResurrected, RebindsSucceed, EventsOf, Live, Identities
<1> QED BY <1>1, <1>2, <1>3, <1>4 DEF IInv, TypeInv

\* One step for each operation, split into its read and its write.
LEMMA NextKeeps == IInv /\ [IdentityNext]_identityVars => IInv'
<1> SUFFICES ASSUME IInv, [IdentityNext]_identityVars PROVE IInv'
  OBVIOUS
<1>1. CASE UNCHANGED identityVars
  BY <1>1 DEF identityVars, IInv, TypeInv, Typed, Known, CurrentIsLatest, DecisionsRest, Rests,
     DeletionsAreProven, RecreationNeedsProof, NeverResurrected, RebindsSucceed, EventsOf, Live,
     PriorIsCurrent, Identities
<1>2. ASSUME NEW place \in Places, Create(place) PROVE IInv'
  BY <1>2, CreateKeeps
<1>3. ASSUME NEW c \in Curators, NEW i \in Identities, NEW prior \in DOMAIN locators,
             NEW place \in Places, DecideRebind(c, i, prior, place)
      PROVE  IInv'
  <2>1. prior \in Nat
    BY DEF IInv, TypeInv, Typed
  <2> QED BY <1>3, <2>1, DecidesKeeps DEF DecideRebind, MayChange
<1>4. ASSUME NEW c \in Curators, NEW i \in Identities, DecideTombstone(c, i) PROVE IInv'
  BY <1>4, DecidesKeeps DEF DecideTombstone
<1>5. ASSUME NEW c \in Curators, NEW i \in Identities, DecideUnresolved(c, i) PROVE IInv'
  BY <1>5, DecidesKeeps DEF DecideUnresolved, MayChange
<1>6. ASSUME NEW c \in Curators, WriteRebind(c) PROVE IInv'
  BY <1>6, RebindKeeps
<1>7. ASSUME NEW c \in Curators, WriteTombstone(c) PROVE IInv'
  <2>1. decided[c].identity \in Identities
    BY <1>7 DEF WriteTombstone, IInv, DecisionsRest, Rests
  <2>2. CASE decided[c].identity \in tombstones
    BY <1>7, <2>2, DroppedKeeps DEF WriteTombstone
  <2>3. CASE decided[c].identity \notin tombstones
    BY <1>7, <2>1, <2>3, StateWriteKeeps DEF WriteTombstone
  <2> QED BY <2>2, <2>3
<1>8. ASSUME NEW c \in Curators, WriteUnresolved(c) PROVE IInv'
  <2>1. decided[c].identity \in Identities
    BY <1>8 DEF WriteUnresolved, IInv, DecisionsRest, Rests
  <2> QED BY <1>8, <2>1, StateWriteKeeps DEF WriteUnresolved
<1> QED BY <1>1, <1>2, <1>3, <1>4, <1>5, <1>6, <1>7, <1>8 DEF IdentityNext, CuratorStep

\* The invariant holds in every reachable state.
LEMMA IdentityInvariant == IdentitySpec => []IInv
<1>1. IdentityInit => IInv
  BY InitHolds
<1>2. IInv /\ [IdentityNext]_identityVars => IInv'
  BY NextKeeps
<1> QED BY <1>1, <1>2, PTL DEF IdentitySpec

\* Every reachable state is well typed (the tables of migration 9).
THEOREM IdentityTypeCorrect == IdentitySpec => []IdentityTypeOK
<1>1. IInv => IdentityTypeOK
  <2> SUFFICES ASSUME IInv PROVE IdentityTypeOK
    OBVIOUS
  <2>1. \A i \in Identities : products[i] \in Product
    BY DEF IInv, TypeInv, Typed, Identities
  <2>2. \A i \in Identities : products[i].state \in States
    BY <2>1 DEF Product
  <2>3. \A c \in Curators : decided[c].op # "none" => decided[c].identity \in Identities
    BY DEF IInv, DecisionsRest, Rests
  <2> QED BY <2>2, <2>3 DEF IInv, TypeInv, Typed, CurrentIsLatest, IdentityTypeOK
<1> QED BY <1>1, IdentityInvariant, PTL

\* No identity is ever made where another one lives, whatever its state and whoever
\* moved it there in between: recreation needs a tombstone (create).
THEOREM RecreationAlwaysNeedsProof == IdentitySpec => []RecreationNeedsProof
<1>1. IInv => RecreationNeedsProof
  BY DEF IInv
<1> QED BY <1>1, IdentityInvariant, PTL

\* Lifecycle and locators of an identity stay one line of succession unless a
\* decision was written after another thread's write (rebind, _transition).
THEOREM HistoryIsAlwaysLinear == IdentitySpec => []HistoryIsLinear
<1>1. IInv => HistoryIsLinear
  BY DEF IInv, HistoryIsLinear
<1> QED BY <1>1, IdentityInvariant, PTL

-----------------------------------------------------------------------------
\* Revisions of a context, and the numbers they have.
Revisions == DOMAIN snapshots
Of(c) == {n \in Revisions : snapshots[n].context = c}
Counters(c) == {snapshots[n].counter : n \in Of(c)}

\* A thread that has drawn its revision.
Drawn == {"bind", "create", "record"}

Shaped ==
  /\ \E S : snapshots \in Seq(S)
  /\ clock \in Nat
  /\ DOMAIN extraction = Extractors
  /\ \A x \in Extractors : /\ DOMAIN extraction[x] = DOMAIN NotExtracting
                           /\ extraction[x].pc = "create" => extraction[x].place \in Places

\* Who was bound to a place has a locator there.
IsBound(bound) == \A p \in DOMAIN bound : bound[p] \in BoundTo(p)
BindingsTold == /\ \A x \in Extractors : IsBound(extraction[x].bound)
                /\ \A n \in Revisions : IsBound(snapshots[n].assets)

\* The revisions of a context have one configuration, the numbers from 1 on, and
\* times that do not fall as these rise.
Follows(c) ==
  /\ Counters(c) = 1..Cardinality(Of(c))
  /\ \A m, n \in Of(c) : /\ snapshots[m].configuration = snapshots[n].configuration
                         /\ snapshots[m].counter < snapshots[n].counter =>
                              snapshots[m].at <= snapshots[n].at
Timed == \A n \in Revisions : snapshots[n].at \in Nat /\ snapshots[n].at <= clock

\* Of any revisions there is one that none sorts after.
Sorted == \A S \in SUBSET Revisions :
            S # {} => \E n \in S : \A m \in S : ~SortsBefore(n, m)

\* The revision a thread has drawn is one that its context has, or the next one; it is of
\* the configuration of its context, and not taken before those it follows.
DrawsAt(e, time) ==
  /\ e.counter \in 1..(Cardinality(Of(e.context)) + 1)
  /\ \A n \in Of(e.context) : snapshots[n].configuration = configuration
  /\ e.pc = "record" =>
       /\ e.at \in Nat /\ e.at <= time
       /\ \A n \in Of(e.context) : snapshots[n].counter < e.counter => snapshots[n].at <= e.at
Draws(e) == DrawsAt(e, clock)

RevisionsInv == /\ \A c : Follows(c)
                /\ Timed
                /\ Sorted
                /\ \A x \in Extractors : extraction[x].pc \in Drawn => Draws(extraction[x])

GraphInv == IInv /\ Shaped /\ BindingsTold /\ RevisionsInv

\* Locators stay as they were written.
LocatorsStay == \A v \in DOMAIN locators : v \in DOMAIN locators' /\ locators'[v] = locators[v]

LEMMA IdentitiesStay ==
  ASSUME IInv, [IdentityNext]_identityVars
  PROVE  LocatorsStay
<1>1. \A r \in Locator : LET s == Append(locators, r) IN
        \A v \in DOMAIN locators : v \in DOMAIN s /\ s[v] = locators[v]
  BY Appended DEF IInv, TypeInv, Typed
<1>2. ASSUME NEW place \in Places, Create(place) PROVE LocatorsStay
  <2>1. [identity |-> Len(products) + 1, place |-> place, prior |-> 0] \in Locator
    BY Numbered DEF Locator, IInv, TypeInv
  <2>2. locators' = Append(locators, [identity |-> Len(products) + 1, place |-> place, prior |-> 0])
    BY <1>2 DEF Create
  <2> QED BY <1>1, <2>1, <2>2 DEF LocatorsStay
<1>3. ASSUME NEW c \in Curators, CuratorStep(c) PROVE LocatorsStay
  <2>1. CASE WriteRebind(c)
    <3>1. decided[c] \in Decision
      BY DEF IInv, TypeInv, Typed
    <3>2. [identity |-> decided[c].identity, place |-> decided[c].place,
           prior |-> decided[c].prior] \in Locator
      BY <3>1 DEF Locator, Decision
    <3>3. locators' = Append(locators, [identity |-> decided[c].identity,
                                        place |-> decided[c].place, prior |-> decided[c].prior])
      BY <2>1 DEF WriteRebind
    <3> QED BY <1>1, <3>2, <3>3 DEF LocatorsStay
  <2>2. CASE ~WriteRebind(c)
    <3>1. locators' = locators
      BY <1>3, <2>2 DEF CuratorStep, DecideRebind, DecideTombstone, DecideUnresolved, Decides,
         WriteTombstone, WriteUnresolved
    <3> QED BY <3>1 DEF LocatorsStay
  <2> QED BY <2>1, <2>2
<1>4. CASE UNCHANGED identityVars
  BY <1>4 DEF identityVars, LocatorsStay
<1> QED BY <1>2, <1>3, <1>4 DEF IdentityNext

\* Who was bound to a place stays bound to it.
LEMMA BoundStays ==
  ASSUME LocatorsStay, NEW place, NEW i \in BoundTo(place)
  PROVE  i \in BoundTo(place)'
BY DEF LocatorsStay, BoundTo

\* A step of one thread that stores no revision.
LEMMA GoesKeeps ==
  ASSUME GraphInv, IInv', LocatorsStay, NEW x \in Extractors, NEW next, Goes(x, next),
         snapshots' = snapshots, configuration' = configuration, clock' \in Nat, clock <= clock',
         DOMAIN next = DOMAIN NotExtracting, next.pc = "create" => next.place \in Places,
         \A p \in DOMAIN next.bound : next.bound[p] \in BoundTo(p)',
         next.pc \in Drawn => DrawsAt(next, clock')
  PROVE  GraphInv'
<1>1. /\ DOMAIN extraction' = Extractors /\ extraction'[x] = next
      /\ \A y \in Extractors : y # x => extraction'[y] = extraction[y]
  BY DEF GraphInv, Shaped, Goes
<1>2. Shaped'
  BY <1>1 DEF GraphInv, Shaped, NotExtracting
<1>3. BindingsTold'
  <2>1. ASSUME NEW y \in Extractors PROVE IsBound(extraction[y].bound)'
    <3>1. CASE y = x
      BY <1>1, <3>1 DEF IsBound
    <3>2. CASE y # x
      BY <1>1, <3>2, BoundStays DEF GraphInv, BindingsTold, IsBound
    <3> QED BY <3>1, <3>2
  <2>2. ASSUME NEW n \in Revisions' PROVE IsBound(snapshots[n].assets)'
    BY BoundStays DEF GraphInv, BindingsTold, IsBound, Revisions
  <2> QED BY <2>1, <2>2 DEF BindingsTold
<1>4. \A c : Of(c)' = Of(c)
  BY DEF Of, Revisions
<1>5. \A c : Follows(c)'
  <2> SUFFICES ASSUME NEW c PROVE Follows(c)'
    OBVIOUS
  <2>1. Follows(c)
    BY DEF GraphInv, RevisionsInv
  <2>2. Of(c)' = Of(c) /\ Counters(c)' = Counters(c)
    BY DEF Of, Counters, Revisions
  <2> QED BY <2>1, <2>2 DEF Follows
<1>6. Timed' /\ Sorted'
  <2>1. clock \in Nat /\ Timed /\ Sorted
    BY DEF GraphInv, Shaped, RevisionsInv
  <2>2. Sorted'
    BY <2>1 DEF Sorted, Revisions, SortsBefore
  <2> QED BY <2>1, <2>2 DEF Timed, Revisions
<1>7. ASSUME NEW y \in Extractors, extraction'[y].pc \in Drawn PROVE Draws(extraction[y])'
  <2>1. CASE y = x
    BY <1>1, <1>4, <1>7, <2>1 DEF Draws, DrawsAt
  <2>2. CASE y # x
    <3>1. DrawsAt(extraction[y], clock) /\ clock \in Nat
      BY <1>1, <1>7, <2>2 DEF GraphInv, RevisionsInv, Draws, Shaped
    <3>2. DrawsAt(extraction[y], clock')
      BY <3>1 DEF DrawsAt
    <3> QED BY <1>1, <1>4, <2>2, <3>2 DEF Draws, DrawsAt
  <2> QED BY <2>1, <2>2
<1> QED BY <1>2, <1>3, <1>5, <1>6, <1>7 DEF GraphInv, RevisionsInv

\* What a new revision leaves behind.
LEMMA RevisionAppended ==
  ASSUME Shaped, NEW r, snapshots' = Append(snapshots, r)
  PROVE  /\ Shaped => \E S : snapshots' \in Seq(S)
         /\ Len(snapshots) \in Nat /\ Revisions = 1..Len(snapshots)
         /\ Revisions' = Revisions \cup {Len(snapshots) + 1}
         /\ \A n \in Revisions : snapshots'[n] = snapshots[n]
         /\ snapshots'[Len(snapshots) + 1] = r
<1>1. PICK S : snapshots \in Seq(S)
  BY DEF Shaped
<1>2. snapshots \in Seq(S \cup {r})
  BY <1>1
<1>3. /\ snapshots' \in Seq(S \cup {r})
      /\ Len(snapshots) \in Nat /\ DOMAIN snapshots = 1..Len(snapshots)
      /\ DOMAIN snapshots' = 1..(Len(snapshots) + 1)
      /\ \A n \in DOMAIN snapshots : snapshots'[n] = snapshots[n]
      /\ snapshots'[Len(snapshots) + 1] = r
  BY <1>2, Appended
<1>4. 1..(Len(snapshots) + 1) = 1..Len(snapshots) \cup {Len(snapshots) + 1}
  BY <1>3
<1> QED BY <1>3, <1>4 DEF Revisions

\* The revisions of a context are finitely many.
LEMMA RevisionsFinite ==
  ASSUME Shaped, NEW c
  PROVE  IsFiniteSet(Of(c)) /\ Cardinality(Of(c)) \in Nat
<1>1. PICK S : snapshots \in Seq(S)
  BY DEF Shaped
<1>2. Len(snapshots) \in Nat /\ Revisions = 1..Len(snapshots)
  BY <1>1 DEF Revisions
<1>3. IsFiniteSet(Revisions)
  BY <1>2, FS_Interval
<1>4. IsFiniteSet(Of(c))
  BY <1>3, FS_Subset DEF Of
<1> QED BY <1>4, FS_CardinalityType

\* The place of a time among the texts is a number.
LEMMA RankIsInt ==
  ASSUME NEW at \in Nat
  PROVE  TextRank(at) \in Int
<1>1. Second \in Nat
  BY ClockAssumption
<1> QED BY <1>1 DEF TextRank

\* The numbers of revisions are numbers.
LEMMA CountersAreInt ==
  ASSUME Shaped, \A c : Follows(c), NEW n \in Revisions
  PROVE  snapshots[n].counter \in Int
<1>1. PICK c : c = snapshots[n].context
  OBVIOUS
<1>2. snapshots[n].counter \in Counters(c)
  BY <1>1 DEF Counters, Of
<1>3. Counters(c) = 1..Cardinality(Of(c)) /\ Cardinality(Of(c)) \in Nat
  BY RevisionsFinite DEF Follows
<1> QED BY <1>2, <1>3

\* Texts and numbers order whatever has them: a revision that is stored next is one that
\* none sorts after, or leaves the one that was.
LEMMA SortedAppended ==
  ASSUME Sorted, NEW last, Revisions' = Revisions \cup {last},
         \A n \in Revisions : snapshots'[n] = snapshots[n],
         Timed', \A n \in Revisions' : snapshots'[n].counter \in Int
  PROVE  Sorted'
<1>1. PICK rank : rank = [n \in Revisions' |-> TextRank(snapshots'[n].at)]
  OBVIOUS
<1>2. PICK number : number = [n \in Revisions' |-> snapshots'[n].counter]
  OBVIOUS
<1>3. \A n \in Revisions' : rank[n] \in Int
  <2>1. \A n \in Revisions' : snapshots'[n].at \in Nat
    BY DEF Timed
  <2> QED BY <1>1, <2>1, RankIsInt
<1>4. \A n \in Revisions' : number[n] \in Int
  BY <1>2
<1>5. \A m, n \in Revisions' :
        SortsBefore(m, n)' <=> (rank[m] < rank[n] \/ (rank[m] = rank[n] /\ number[m] < number[n]))
  BY <1>1, <1>2 DEF SortsBefore, TextRank, IsWhole
<1>6. \A m, n \in Revisions : SortsBefore(m, n)' <=> SortsBefore(m, n)
  BY DEF SortsBefore
<1>7. ASSUME NEW S \in SUBSET Revisions', S # {}
      PROVE  \E n \in S : \A m \in S : ~SortsBefore(n, m)'
  <2>1. CASE S \subseteq Revisions
    BY <1>6, <1>7, <2>1 DEF Sorted
  <2>2. CASE S = {last}
    BY <1>3, <1>4, <1>5, <2>2
  <2>3. CASE last \in S /\ S # {last}
    <3>1. PICK n \in S \ {last} : \A m \in S \ {last} : ~SortsBefore(n, m)
      <4>1. S \ {last} \in SUBSET Revisions /\ S \ {last} # {}
        BY <1>7, <2>3
      <4> QED BY <4>1 DEF Sorted
    <3>2. \A m \in S \ {last} : ~SortsBefore(n, m)'
      BY <1>6, <1>7, <3>1
    <3>3. CASE ~SortsBefore(n, last)'
      BY <3>2, <3>3
    <3>4. CASE SortsBefore(n, last)'
      <4>1. \A m \in S : ~SortsBefore(last, m)'
        <5>1. n \in Revisions' /\ last \in Revisions'
          BY <1>7, <2>3
        <5>2. ASSUME NEW m \in S PROVE ~SortsBefore(last, m)'
          <6>1. m \in Revisions' /\ (m = last \/ ~SortsBefore(n, m)')
            BY <1>7, <3>2
          <6> QED BY <1>3, <1>4, <1>5, <3>4, <5>1, <6>1
        <5> QED BY <5>2
      <4> QED BY <2>3, <4>1
    <3> QED BY <3>3, <3>4
  <2> QED BY <1>7, <2>1, <2>2, <2>3
<1> QED BY <1>7 DEF Sorted

\* latest() finds a revision where there is one, and none sorts after it.
LEMMA LatestSorts ==
  ASSUME GraphInv, NEW S \in SUBSET Revisions, S # {}
  PROVE  LatestOf(S) \in S /\ \A m \in S : ~SortsBefore(LatestOf(S), m)
<1>1. \E n \in S : \A m \in S : ~SortsBefore(n, m)
  BY DEF GraphInv, RevisionsInv, Sorted
<1> QED BY <1>1 DEF LatestOf

\* A time that is not later and yet sorts after another is on the second of it.
LEMMA TextOrder ==
  ASSUME NEW a \in Nat, NEW b \in Nat, a <= b, TextRank(b) < TextRank(a)
  PROVE  IsWhole(a) /\ b < a + Second
<1>1. Second \in Nat /\ Second > 0
  BY ClockAssumption
<1>2. CASE IsWhole(a) /\ IsWhole(b)
  BY <1>1, <1>2 DEF TextRank
<1>3. CASE IsWhole(a) /\ ~IsWhole(b)
  BY <1>1, <1>3 DEF TextRank
<1>4. CASE ~IsWhole(a) /\ IsWhole(b)
  BY <1>1, <1>4 DEF TextRank
<1>5. CASE ~IsWhole(a) /\ ~IsWhole(b)
  BY <1>1, <1>5 DEF TextRank
<1> QED BY <1>2, <1>3, <1>4, <1>5

\* The revision a thread has drawn, when it is stored: the next of its context.
LEMMA RecordKeeps ==
  ASSUME GraphInv, IInv', LocatorsStay, NEW x \in Extractors, RecordSnapshot(x),
         NumberIsFree(extraction[x])
  PROVE  GraphInv'
<1> DEFINE L == Len(snapshots) + 1
<1>1. PICK e : e = extraction[x]
  OBVIOUS
<1>2. PICK r : r = [context |-> e.context, counter |-> e.counter, at |-> e.at,
                    configuration |-> configuration, assets |-> e.bound]
  OBVIOUS
<1>3. /\ snapshots' = Append(snapshots, r) /\ Goes(x, NotExtracting)
      /\ UNCHANGED <<configuration, clock>> /\ e.pc = "record"
  BY <1>1, <1>2 DEF RecordSnapshot, Fails
<1>4. Draws(e) /\ clock \in Nat
  BY <1>1, <1>3 DEF GraphInv, RevisionsInv, Drawn, Shaped
<1>5. PICK k : k = Cardinality(Of(e.context))
  OBVIOUS
<1>6. k \in Nat /\ IsFiniteSet(Of(e.context)) /\ Counters(e.context) = 1..k
  BY <1>5, RevisionsFinite DEF GraphInv, RevisionsInv, Follows
<1>7. e.counter = k + 1
  <2>1. e.counter \in 1..(k + 1)
    BY <1>4, <1>5 DEF Draws, DrawsAt
  <2>2. e.counter \notin Counters(e.context)
    BY <1>1 DEF NumberIsFree, Counters, Of, Revisions
  <2> QED BY <1>6, <2>1, <2>2
<1>8. /\ \E S : snapshots' \in Seq(S)
      /\ L \in Nat /\ L \notin Revisions
      /\ Revisions' = Revisions \cup {L}
      /\ \A n \in Revisions : snapshots'[n] = snapshots[n]
      /\ snapshots'[L] = r
  BY <1>3, RevisionAppended DEF GraphInv
<1> HIDE DEF L
<1>9. /\ DOMAIN extraction' = Extractors /\ extraction'[x] = NotExtracting
      /\ \A y \in Extractors : y # x => extraction'[y] = extraction[y]
  BY <1>3 DEF GraphInv, Shaped, Goes
<1>10. Shaped'
  BY <1>3, <1>8, <1>9 DEF GraphInv, Shaped, NotExtracting
<1>11. BindingsTold'
  <2>1. ASSUME NEW y \in Extractors PROVE IsBound(extraction[y].bound)'
    BY <1>9, BoundStays DEF GraphInv, BindingsTold, IsBound, NotExtracting
  <2>2. ASSUME NEW n \in Revisions' PROVE IsBound(snapshots[n].assets)'
    <3>1. CASE n \in Revisions
      BY <1>8, <3>1, BoundStays DEF GraphInv, BindingsTold, IsBound
    <3>2. CASE n = L
      BY <1>1, <1>2, <1>8, <3>2, BoundStays DEF GraphInv, BindingsTold, IsBound
    <3> QED BY <1>8, <3>1, <3>2
  <2> QED BY <2>1, <2>2 DEF BindingsTold
<1>12. \A c : c # e.context => Of(c)' = Of(c) /\ Counters(c)' = Counters(c)
  BY <1>2, <1>8 DEF Of, Counters
<1>13. /\ Of(e.context)' = Of(e.context) \cup {L}
       /\ Counters(e.context)' = Counters(e.context) \cup {k + 1}
  <2>1. \A c : c = e.context => Of(c)' = Of(c) \cup {L}
    BY <1>2, <1>8 DEF Of
  <2>2. \A c : c = e.context => Counters(c)' = Counters(c) \cup {k + 1}
    BY <1>2, <1>7, <1>8, <2>1 DEF Counters, Of
  <2> QED BY <2>1, <2>2
<1>14. Cardinality(Of(e.context)') = k + 1
  BY <1>5, <1>6, <1>8, <1>13, FS_AddElement DEF Of
<1>15. ASSUME NEW n \in Of(e.context)
       PROVE  /\ snapshots[n].configuration = configuration
              /\ snapshots[n].counter \in 1..k /\ snapshots[n].counter < e.counter
              /\ snapshots[n].at <= e.at
  <2>1. snapshots[n].counter \in 1..k
    BY <1>6 DEF Counters
  <2> QED BY <1>3, <1>4, <1>6, <1>7, <2>1 DEF Draws, DrawsAt
<1>16. \A c : Follows(c)'
  <2> SUFFICES ASSUME NEW c PROVE Follows(c)'
    OBVIOUS
  <2>1. Follows(c)
    BY DEF GraphInv, RevisionsInv
  <2>2. CASE c # e.context
    <3>1. /\ Of(c)' = Of(c) /\ Counters(c)' = Counters(c) /\ Of(c) \subseteq Revisions
          /\ \A n \in Of(c) : snapshots'[n] = snapshots[n]
      BY <1>8, <1>12, <2>2 DEF Of
    <3>2. \A m, n \in Of(c)' : /\ snapshots'[m].configuration = snapshots'[n].configuration
                               /\ snapshots'[m].counter < snapshots'[n].counter =>
                                    snapshots'[m].at <= snapshots'[n].at
      BY <2>1, <3>1 DEF Follows
    <3> QED BY <2>1, <3>1, <3>2 DEF Follows
  <2>3. CASE c = e.context
    <3>1. Counters(c)' = 1..Cardinality(Of(c)')
      <4>1. 1..(k + 1) = 1..k \cup {k + 1}
        BY <1>6
      <4> QED BY <1>6, <1>13, <1>14, <2>3, <4>1
    <3>2. ASSUME NEW m \in Of(c)', NEW n \in Of(c)'
          PROVE  /\ snapshots'[m].configuration = snapshots'[n].configuration
                 /\ snapshots'[m].counter < snapshots'[n].counter =>
                      snapshots'[m].at <= snapshots'[n].at
      <4>0. Of(c)' = Of(c) \cup {L} /\ Of(c) \subseteq Revisions
        BY <1>13, <2>3 DEF Of
      <4>1. CASE m \in Of(c) /\ n \in Of(c)
        BY <1>8, <2>1, <4>0, <4>1 DEF Follows
      <4>2. CASE m \in Of(c) /\ n = L
        BY <1>2, <1>8, <1>15, <2>3, <4>0, <4>2
      <4>3. CASE m = L /\ n \in Of(c)
        BY <1>2, <1>6, <1>7, <1>8, <1>15, <2>3, <4>0, <4>3
      <4>4. CASE m = L /\ n = L
        BY <1>2, <1>6, <1>7, <1>8, <4>4
      <4> QED BY <4>0, <4>1, <4>2, <4>3, <4>4
    <3> QED BY <3>1, <3>2 DEF Follows
  <2> QED BY <2>2, <2>3
<1>17. r.at \in Nat /\ r.at <= clock
  BY <1>2, <1>3, <1>4 DEF Draws, DrawsAt
<1>18. Timed'
  BY <1>3, <1>8, <1>17 DEF GraphInv, RevisionsInv, Timed
<1>19. Sorted'
  <2>1. \A n \in Revisions : snapshots[n].counter \in Int
    BY CountersAreInt DEF GraphInv, RevisionsInv
  <2>2. \A n \in Revisions' : snapshots'[n].counter \in Int
    BY <1>2, <1>6, <1>7, <1>8, <2>1
  <2>3. Sorted /\ Revisions' = Revisions \cup {L} /\ \A n \in Revisions : snapshots'[n] = snapshots[n]
    BY <1>8 DEF GraphInv, RevisionsInv
  <2> QED BY <1>18, <2>2, <2>3, SortedAppended
<1>20. ASSUME NEW y \in Extractors, extraction'[y].pc \in Drawn PROVE Draws(extraction[y])'
  <2>1. y # x
    BY <1>9, <1>20 DEF NotExtracting, Drawn
  <2>2. PICK f : f = extraction[y]
    OBVIOUS
  <2>3. Draws(f) /\ extraction'[y] = f
    BY <1>9, <1>20, <2>1, <2>2 DEF GraphInv, RevisionsInv
  <2>4. CASE f.context # e.context
    <3>1. Of(f.context)' = Of(f.context) /\ Of(f.context) \subseteq Revisions
      BY <1>12, <2>4 DEF Of
    <3>2. /\ f.counter \in 1..(Cardinality(Of(f.context)') + 1)
          /\ \A n \in Of(f.context)' : snapshots'[n].configuration = configuration'
          /\ f.pc = "record" =>
               /\ f.at \in Nat /\ f.at <= clock'
               /\ \A n \in Of(f.context)' : snapshots'[n].counter < f.counter => snapshots'[n].at <= f.at
      BY <1>3, <1>8, <2>3, <3>1 DEF Draws, DrawsAt
    <3> QED BY <2>3, <3>2 DEF Draws, DrawsAt
  <2>5. CASE f.context = e.context
    <3>1. Of(f.context)' = Of(f.context) \cup {L} /\ Of(f.context) \subseteq Revisions
      BY <1>13, <2>5 DEF Of
    <3>2. f.counter \in 1..(k + 1)
      BY <1>5, <2>3, <2>5 DEF Draws, DrawsAt
    <3>3. f.counter \in 1..(Cardinality(Of(f.context)') + 1)
      BY <1>6, <1>14, <2>5, <3>2
    <3>4. \A n \in Of(f.context)' : snapshots'[n].configuration = configuration'
      <4>1. snapshots'[L].configuration = configuration /\ configuration' = configuration
        <5>1. r.configuration = configuration
          BY <1>2
        <5>2. snapshots'[L] = r
          BY <1>8
        <5>3. configuration' = configuration
          BY <1>3
        <5> QED BY <5>1, <5>2, <5>3
      <4>2. \A n \in Of(f.context) : snapshots'[n].configuration = configuration
        BY <1>8, <2>3, <3>1 DEF Draws, DrawsAt
      <4> QED BY <3>1, <4>1, <4>2
    <3>5. ASSUME f.pc = "record"
          PROVE  /\ f.at \in Nat /\ f.at <= clock'
                 /\ \A n \in Of(f.context)' :
                      snapshots'[n].counter < f.counter => snapshots'[n].at <= f.at
      <4>1. ~(snapshots'[L].counter < f.counter)
        BY <1>2, <1>6, <1>7, <1>8, <3>2
      <4> QED BY <1>3, <1>8, <2>3, <3>1, <3>5, <4>1 DEF Draws, DrawsAt
    <3> QED BY <2>3, <3>3, <3>4, <3>5 DEF Draws, DrawsAt
  <2> QED BY <2>4, <2>5
<1> QED BY <1>10, <1>11, <1>16, <1>18, <1>19, <1>20 DEF GraphInv, RevisionsInv

\* A thread that gives up, or whose revision has been stored by another.
LEMMA FailsKeeps ==
  ASSUME GraphInv, IInv', LocatorsStay, NEW x \in Extractors, Fails(x),
         snapshots' = snapshots, configuration' = configuration, clock' = clock
  PROVE  GraphInv'
<1>1. /\ DOMAIN NotExtracting.bound = {} /\ NotExtracting.pc = "idle"
      /\ clock \in Nat
  BY DEF NotExtracting, GraphInv, Shaped
<1>2. NotExtracting.pc \notin Drawn
  BY <1>1 DEF Drawn
<1> QED BY <1>1, <1>2, GoesKeeps DEF Fails

\* The thread is told its revision: the first of a context of its own, or the one
\* after the newest.
LEMMA NextRevisionKeeps ==
  ASSUME GraphInv, IInv', LocatorsStay, NEW x \in Extractors, NextRevision(x)
  PROVE  GraphInv'
<1>1. PICK e : e = extraction[x]
  OBVIOUS
<1>2. /\ DOMAIN e = DOMAIN NotExtracting /\ clock \in Nat /\ e.pc = "revision"
      /\ \A p \in DOMAIN e.bound : e.bound[p] \in BoundTo(p)
  BY <1>1 DEF GraphInv, Shaped, BindingsTold, IsBound, NextRevision
<1>3. UNCHANGED <<snapshots, configuration, clock>>
  BY DEF NextRevision
<1>4. \A p \in DOMAIN e.bound : e.bound[p] \in BoundTo(p)'
  BY <1>2, BoundStays
<1>5. CASE snapshots = <<>>
  <2>1. PICK next : next = [e EXCEPT !.pc = "bind", !.context = FreshContext, !.counter = 1]
    OBVIOUS
  <2>2. /\ Goes(x, next) /\ DOMAIN next = DOMAIN NotExtracting /\ next.pc = "bind"
        /\ next.counter = 1 /\ next.bound = e.bound
    <3>1. Goes(x, next)
      BY <1>1, <1>5, <2>1 DEF NextRevision
    <3>2. /\ DOMAIN next = DOMAIN NotExtracting /\ next.pc = "bind"
          /\ next.counter = 1 /\ next.bound = e.bound
      BY <1>2, <2>1 DEF NotExtracting
    <3> QED BY <3>1, <3>2
  <2>3. Of(next.context) = {}
    BY <1>5 DEF Of, Revisions
  <2>4. DrawsAt(next, clock')
    BY <2>2, <2>3, FS_EmptySet DEF DrawsAt
  <2> QED BY <1>2, <1>3, <1>4, <2>2, <2>4, GoesKeeps
<1>6. CASE snapshots # <<>> /\ Continues(snapshots[Newest])
  <2>1. PICK s : s = snapshots[Newest]
    OBVIOUS
  <2>2. PICK next : next = [e EXCEPT !.pc = "bind", !.context = s.context, !.counter = s.counter + 1]
    OBVIOUS
  <2>3. /\ Goes(x, next) /\ DOMAIN next = DOMAIN NotExtracting /\ next.pc = "bind"
        /\ next.context = s.context /\ next.counter = s.counter + 1 /\ next.bound = e.bound
    <3>1. Goes(x, next)
      BY <1>1, <1>6, <2>1, <2>2 DEF NextRevision
    <3>2. /\ DOMAIN next = DOMAIN NotExtracting /\ next.pc = "bind"
          /\ next.context = s.context /\ next.counter = s.counter + 1 /\ next.bound = e.bound
      BY <1>2, <2>2 DEF NotExtracting
    <3> QED BY <3>1, <3>2
  <2>4. Newest \in Revisions
    <3>1. Revisions # {}
      <4>1. PICK S : snapshots \in Seq(S)
        BY DEF GraphInv, Shaped
      <4>2. Len(snapshots) \in Nat /\ Len(snapshots) # 0
        BY <1>6, <4>1
      <4> QED BY <4>1, <4>2 DEF Revisions
    <3> QED BY <3>1, LatestSorts DEF Newest, Revisions
  <2>5. Newest \in Of(s.context) /\ s.counter \in Counters(s.context)
    BY <2>1, <2>4 DEF Of, Counters
  <2>6. Follows(s.context)
    BY DEF GraphInv, RevisionsInv
  <2>7. s.counter + 1 \in 1..(Cardinality(Of(s.context)) + 1)
    <3>1. Cardinality(Of(s.context)) \in Nat
      BY RevisionsFinite DEF GraphInv
    <3>2. s.counter \in 1..Cardinality(Of(s.context))
      BY <2>5, <2>6 DEF Follows
    <3> QED BY <3>1, <3>2
  <2>8. \A n \in Of(s.context) : snapshots[n].configuration = configuration
    <3>1. s.configuration = configuration
      BY <1>6, <2>1 DEF Continues
    <3> QED BY <2>1, <2>5, <2>6, <3>1 DEF Follows
  <2>9. DrawsAt(next, clock')
    BY <2>3, <2>7, <2>8 DEF DrawsAt
  <2> QED BY <1>2, <1>3, <1>4, <2>3, <2>9, GoesKeeps
<1>7. CASE snapshots # <<>> /\ ~Continues(snapshots[Newest])
  <2>1. Fails(x)
    BY <1>7 DEF NextRevision
  <2> QED BY <1>3, <2>1, FailsKeeps
<1> QED BY <1>5, <1>6, <1>7

\* A record is bound to the identity that its place resolves to, or is to be created.
LEMMA ResolveKeeps ==
  ASSUME GraphInv, IInv', LocatorsStay, NEW x \in Extractors, NEW p \in Places,
         ResolveRecord(x, p)
  PROVE  GraphInv'
<1>1. PICK e : e = extraction[x]
  OBVIOUS
<1>2. /\ DOMAIN e = DOMAIN NotExtracting /\ clock \in Nat /\ e.pc = "bind"
      /\ \A q \in DOMAIN e.bound : e.bound[q] \in BoundTo(q)
      /\ DrawsAt(e, clock)
  BY <1>1 DEF GraphInv, Shaped, BindingsTold, IsBound, ResolveRecord, RevisionsInv, Draws, Drawn
<1>3. UNCHANGED <<snapshots, configuration, clock>>
  BY DEF ResolveRecord
<1>4. \A q, i : i \in BoundTo(q) => i \in BoundTo(q)'
  BY BoundStays
<1>5. CASE Resolves(p) = {}
  <2>1. PICK next : next = [e EXCEPT !.pc = "create", !.place = p]
    OBVIOUS
  <2>2. Goes(x, next)
    <3>1. Cardinality(Resolves(p)) # 1
      BY <1>5, FS_EmptySet
    <3> QED BY <1>1, <1>5, <2>1, <3>1 DEF ResolveRecord
  <2>3. /\ DOMAIN next = DOMAIN NotExtracting /\ next.pc = "create"
        /\ next.place = p /\ next.bound = e.bound /\ next.context = e.context
        /\ next.counter = e.counter
    BY <1>2, <2>1 DEF NotExtracting
  <2>4. DrawsAt(next, clock')
    BY <1>2, <1>3, <2>3 DEF DrawsAt
  <2>5. \A q \in DOMAIN next.bound : next.bound[q] \in BoundTo(q)'
    BY <1>2, <1>4, <2>3
  <2> QED BY <1>2, <1>3, <2>2, <2>3, <2>4, <2>5, GoesKeeps
<1>6. CASE Resolves(p) # {} /\ Cardinality(Resolves(p)) = 1
  <2>1. PICK i : i = CHOOSE j \in Resolves(p) : TRUE
    OBVIOUS
  <2>2. i \in BoundTo(p)
    BY <1>6, <2>1 DEF Resolves
  <2>3. PICK bound : bound = [q \in DOMAIN e.bound \cup {p} |-> IF q = p THEN i ELSE e.bound[q]]
    OBVIOUS
  <2>4. PICK next : next = [e EXCEPT !.bound = bound]
    OBVIOUS
  <2>5. Goes(x, next)
    BY <1>1, <1>6, <2>1, <2>3, <2>4 DEF ResolveRecord
  <2>6. /\ DOMAIN next = DOMAIN NotExtracting /\ next.pc = "bind" /\ next.bound = bound
        /\ next.context = e.context /\ next.counter = e.counter
    BY <1>2, <2>4 DEF NotExtracting
  <2>7. DrawsAt(next, clock')
    BY <1>2, <1>3, <2>6 DEF DrawsAt
  <2>8. \A q \in DOMAIN next.bound : next.bound[q] \in BoundTo(q)'
    BY <1>2, <1>4, <2>2, <2>3, <2>6
  <2> QED BY <1>2, <1>3, <2>5, <2>6, <2>7, <2>8, GoesKeeps
<1>7. CASE Resolves(p) # {} /\ Cardinality(Resolves(p)) # 1
  <2>1. Fails(x)
    BY <1>7 DEF ResolveRecord, Fails
  <2> QED BY <1>3, <2>1, FailsKeeps
<1> QED BY <1>5, <1>6, <1>7

\* The record that was not found is bound to a new identity.
LEMMA CreateIdentityKeeps ==
  ASSUME GraphInv, IInv', LocatorsStay, NEW x \in Extractors, CreateIdentity(x)
  PROVE  GraphInv'
<1>1. PICK e : e = extraction[x]
  OBVIOUS
<1>2. /\ DOMAIN e = DOMAIN NotExtracting /\ clock \in Nat /\ e.pc = "create"
      /\ \A q \in DOMAIN e.bound : e.bound[q] \in BoundTo(q)
      /\ DrawsAt(e, clock) /\ e.place \in Places
  BY <1>1 DEF GraphInv, Shaped, BindingsTold, IsBound, CreateIdentity, RevisionsInv, Draws, Drawn
<1>3. UNCHANGED <<snapshots, configuration, clock>>
  BY DEF CreateIdentity
<1>4. \A q, i : i \in BoundTo(q) => i \in BoundTo(q)'
  BY BoundStays
<1>5. CASE Conflicts(e.place) # {}
  BY <1>1, <1>3, <1>5, FailsKeeps DEF CreateIdentity
<1>6. CASE Conflicts(e.place) = {}
  <2>1. PICK i : i = Len(products) + 1
    OBVIOUS
  <2>2. Create(e.place)
    BY <1>1, <1>6 DEF CreateIdentity
  <2>3. i \in BoundTo(e.place)'
    <3>1. /\ Len(locators) + 1 \in DOMAIN locators'
          /\ locators'[Len(locators) + 1] = [identity |-> i, place |-> e.place, prior |-> 0]
      <4>1. [identity |-> i, place |-> e.place, prior |-> 0] \in Locator
        BY <1>2, <2>1, Numbered DEF Locator, GraphInv, IInv, TypeInv
      <4>2. locators \in Seq(Locator)
        BY DEF GraphInv, IInv, TypeInv, Typed
      <4>3. locators' = Append(locators, [identity |-> i, place |-> e.place, prior |-> 0])
        BY <2>1, <2>2 DEF Create
      <4> QED BY <4>1, <4>2, <4>3, Appended
    <3> QED BY <3>1 DEF BoundTo
  <2>4. PICK bound : bound = [q \in DOMAIN e.bound \cup {e.place} |->
                                IF q = e.place THEN i ELSE e.bound[q]]
    OBVIOUS
  <2>5. PICK next : next = [e EXCEPT !.pc = "bind", !.place = 0, !.bound = bound]
    OBVIOUS
  <2>6. Goes(x, next)
    BY <1>1, <1>6, <2>1, <2>4, <2>5 DEF CreateIdentity
  <2>7. /\ DOMAIN next = DOMAIN NotExtracting /\ next.pc = "bind" /\ next.bound = bound
        /\ next.context = e.context /\ next.counter = e.counter
    BY <1>2, <2>5 DEF NotExtracting
  <2>8. DrawsAt(next, clock')
    BY <1>2, <1>3, <2>7 DEF DrawsAt
  <2>9. \A q \in DOMAIN next.bound : next.bound[q] \in BoundTo(q)'
    BY <1>2, <1>4, <2>3, <2>4, <2>7
  <2> QED BY <1>2, <1>3, <2>6, <2>7, <2>8, <2>9, GoesKeeps
<1> QED BY <1>5, <1>6

\* A revision that is assembled is not earlier than what has been stored.
LEMMA AssembleKeeps ==
  ASSUME GraphInv, IInv', LocatorsStay, NEW x \in Extractors, AssembleSnapshot(x)
  PROVE  GraphInv'
<1>1. PICK e : e = extraction[x]
  OBVIOUS
<1>2. /\ DOMAIN e = DOMAIN NotExtracting /\ clock \in Nat /\ e.pc = "bind"
      /\ \A q \in DOMAIN e.bound : e.bound[q] \in BoundTo(q)
      /\ DrawsAt(e, clock) /\ Timed
  BY <1>1 DEF GraphInv, Shaped, BindingsTold, IsBound, AssembleSnapshot, RevisionsInv, Draws, Drawn
<1>3. UNCHANGED <<snapshots, configuration>>
  BY DEF AssembleSnapshot
<1>4. CASE ~Assembles(e)
  BY <1>1, <1>3, <1>4, FailsKeeps DEF AssembleSnapshot
<1>5. CASE Assembles(e)
  <2>1. PICK now \in clock..(clock + MaxAdvance) :
          Goes(x, [e EXCEPT !.pc = "record", !.at = now]) /\ clock' = now
    BY <1>1, <1>5 DEF AssembleSnapshot
  <2>2. now \in Nat /\ clock <= now
    BY <1>2, <2>1, ClockAssumption
  <2>3. PICK next : next = [e EXCEPT !.pc = "record", !.at = now]
    OBVIOUS
  <2>4. /\ DOMAIN next = DOMAIN NotExtracting /\ next.pc = "record" /\ next.at = now
        /\ next.bound = e.bound /\ next.context = e.context /\ next.counter = e.counter
    BY <1>2, <2>3 DEF NotExtracting
  <2>5. DrawsAt(next, clock')
    <3>1. \A n \in Of(e.context) : snapshots[n].at <= now
      BY <1>2, <2>2 DEF Of, Timed
    <3> QED BY <1>2, <2>1, <2>2, <2>4, <3>1 DEF DrawsAt
  <2>6. \A q \in DOMAIN next.bound : next.bound[q] \in BoundTo(q)'
    BY <1>2, <2>4, BoundStays
  <2> QED BY <1>2, <1>3, <2>1, <2>2, <2>3, <2>4, <2>5, <2>6, GoesKeeps
<1> QED BY <1>4, <1>5

\* Another session is opened when no thread extracts.
LEMMA OpenSessionKeeps ==
  ASSUME GraphInv, IInv', LocatorsStay, NEW c \in Configurations, OpenSession(c)
  PROVE  GraphInv'
<1>1. /\ UNCHANGED <<extraction, snapshots, clock>>
      /\ \A x \in Extractors : extraction[x].pc \notin Drawn
  BY DEF OpenSession, Idle, Drawn
<1>2. Shaped' /\ Timed' /\ Sorted'
  BY <1>1 DEF GraphInv, RevisionsInv, Shaped, Timed, Sorted, SortsBefore, Revisions
<1>3. BindingsTold'
  BY <1>1, BoundStays DEF GraphInv, BindingsTold, IsBound, Revisions
<1>4. \A d : Follows(d)'
  <2>1. \A d : Of(d)' = Of(d) /\ Counters(d)' = Counters(d)
    BY <1>1 DEF Counters, Of, Revisions
  <2> QED BY <1>1, <2>1 DEF GraphInv, RevisionsInv, Follows
<1> QED BY <1>1, <1>2, <1>3, <1>4 DEF GraphInv, RevisionsInv

\* Whatever is done to identities meanwhile, and to objects that are not read yet.
LEMMA MeanwhileKeeps ==
  ASSUME GraphInv, IInv', LocatorsStay, UNCHANGED <<extraction, snapshots, clock, configuration>>
  PROVE  GraphInv'
<1>1. Shaped' /\ Timed' /\ Sorted'
  BY DEF GraphInv, RevisionsInv, Shaped, Timed, Sorted, SortsBefore, Revisions
<1>2. BindingsTold'
  BY BoundStays DEF GraphInv, BindingsTold, IsBound, Revisions
<1>3. \A c : Of(c)' = Of(c)
  BY DEF Of, Revisions
<1>4. \A c : Follows(c)'
  BY <1>3 DEF GraphInv, RevisionsInv, Follows, Counters
<1>5. ASSUME NEW x \in Extractors, extraction'[x].pc \in Drawn PROVE Draws(extraction[x])'
  BY <1>3, <1>5 DEF GraphInv, RevisionsInv, Draws, DrawsAt
<1> QED BY <1>1, <1>2, <1>4, <1>5 DEF GraphInv, RevisionsInv

LEMMA GraphInitHolds == IdentityInit /\ GraphInit => GraphInv
<1> SUFFICES ASSUME IdentityInit, GraphInit PROVE GraphInv
  OBVIOUS
<1>1. /\ snapshots = <<>> /\ clock = 0 /\ extraction = [x \in Extractors |-> NotExtracting]
      /\ Revisions = {}
  BY DEF GraphInit, Revisions
<1>2. IInv
  BY InitHolds
<1>3. Shaped
  <2>1. snapshots \in Seq({})
    BY <1>1
  <2> QED BY <1>1, <2>1 DEF Shaped, NotExtracting
<1>4. BindingsTold
  BY <1>1 DEF BindingsTold, IsBound, NotExtracting
<1>5. \A c : Follows(c)
  <2>1. \A c : Of(c) = {} /\ Counters(c) = {}
    BY <1>1 DEF Of, Counters
  <2>2. 1..0 = {}
    OBVIOUS
  <2> QED BY <2>1, <2>2, FS_EmptySet DEF Follows
<1>6. Timed /\ Sorted /\ \A x \in Extractors : extraction[x].pc \notin Drawn
  BY <1>1 DEF Timed, Sorted, NotExtracting, Drawn
<1> QED BY <1>2, <1>3, <1>4, <1>5, <1>6 DEF GraphInv, RevisionsInv

\* One step for each of the thread's reads and writes.
LEMMA ExtractorKeeps ==
  ASSUME GraphInv, IInv', LocatorsStay, NEW x \in Extractors, ExtractorStep(x)
  PROVE  GraphInv'
<1>1. PICK e : e = extraction[x]
  OBVIOUS
<1>2. /\ DOMAIN e = DOMAIN NotExtracting /\ clock \in Nat
      /\ \A q \in DOMAIN e.bound : e.bound[q] \in BoundTo(q)
  BY <1>1 DEF GraphInv, Shaped, BindingsTold, IsBound
<1>3. \A q \in DOMAIN e.bound : e.bound[q] \in BoundTo(q)'
  BY <1>2, BoundStays
<1>4. CASE BeginExtraction(x)
  <2>1. PICK next : next = [NotExtracting EXCEPT !.pc = "equipment",
                                                 !.records = present \cap Terminals]
    OBVIOUS
  <2>2. Goes(x, next) /\ UNCHANGED <<snapshots, configuration, clock>>
    BY <1>4, <2>1 DEF BeginExtraction
  <2>3. DOMAIN next = DOMAIN NotExtracting /\ next.pc = "equipment" /\ DOMAIN next.bound = {}
    BY <2>1 DEF NotExtracting
  <2> QED BY <1>2, <2>2, <2>3, GoesKeeps DEF Drawn
<1>5. CASE QueryEquipment(x)
  <2>1. PICK next : next = [e EXCEPT !.pc = "revision", !.records = @ \cup (present \cap Equipment)]
    OBVIOUS
  <2>2. Goes(x, next) /\ UNCHANGED <<snapshots, configuration, clock>>
    BY <1>1, <1>5, <2>1 DEF QueryEquipment
  <2>3. DOMAIN next = DOMAIN NotExtracting /\ next.pc = "revision" /\ next.bound = e.bound
    BY <1>2, <2>1 DEF NotExtracting
  <2> QED BY <1>2, <1>3, <2>2, <2>3, GoesKeeps DEF Drawn
<1>6. CASE NextRevision(x)
  BY <1>6, NextRevisionKeeps
<1>7. CASE \E p \in Places : ResolveRecord(x, p)
  BY <1>7, ResolveKeeps
<1>8. CASE CreateIdentity(x)
  BY <1>8, CreateIdentityKeeps
<1>9. CASE AssembleSnapshot(x)
  BY <1>9, AssembleKeeps
<1>10. CASE RecordSnapshot(x)
  <2>1. CASE NumberIsFree(e)
    BY <1>1, <1>10, <2>1, RecordKeeps
  <2>2. CASE ~NumberIsFree(e)
    BY <1>1, <1>10, <2>2, FailsKeeps DEF RecordSnapshot
  <2> QED BY <2>1, <2>2
<1> QED BY <1>4, <1>5, <1>6, <1>7, <1>8, <1>9, <1>10 DEF ExtractorStep

\* An extraction changes identities by the steps of their store only.
LEMMA GraphNextKeeps ==
  ASSUME GraphInv, [GraphNext]_<<graphVars, identityVars>>
  PROVE  GraphInv'
<1>1. [IdentityNext]_identityVars
  <2>1. ASSUME NEW x \in Extractors, ExtractorStep(x) PROVE [IdentityNext]_identityVars
    <3>1. CASE CreateIdentity(x) /\ Conflicts(extraction[x].place) = {}
      <4>1. extraction[x].place \in Places /\ Create(extraction[x].place)
        BY <3>1 DEF CreateIdentity, GraphInv, Shaped
      <4> QED BY <4>1 DEF IdentityNext
    <3>2. CASE CreateIdentity(x) /\ Conflicts(extraction[x].place) # {}
      BY <3>2 DEF CreateIdentity
    <3>3. CASE ~CreateIdentity(x)
      <4>1. UNCHANGED identityVars
        BY <2>1, <3>3 DEF ExtractorStep, BeginExtraction, QueryEquipment, NextRevision,
           ResolveRecord, AssembleSnapshot, RecordSnapshot
      <4> QED BY <4>1
    <3> QED BY <3>1, <3>2, <3>3
  <2>2. ASSUME NEW c \in Curators, Curate(c) PROVE IdentityNext
    BY <2>2 DEF Curate, IdentityNext
  <2>3. ASSUME NEW p \in Places, Edit(p) PROVE UNCHANGED identityVars
    BY <2>3 DEF Edit
  <2>4. ASSUME NEW c \in Configurations, OpenSession(c) PROVE UNCHANGED identityVars
    BY <2>4 DEF OpenSession
  <2>5. CASE UNCHANGED <<graphVars, identityVars>>
    BY <2>5
  <2> QED BY <2>1, <2>2, <2>3, <2>4, <2>5 DEF GraphNext
<1>2. IInv' /\ LocatorsStay
  BY <1>1, NextKeeps, IdentitiesStay DEF GraphInv
<1>3. ASSUME NEW x \in Extractors, ExtractorStep(x) PROVE GraphInv'
  BY <1>2, <1>3, ExtractorKeeps
<1>4. ASSUME NEW c \in Curators, Curate(c) PROVE GraphInv'
  BY <1>2, <1>4, MeanwhileKeeps DEF Curate
<1>5. ASSUME NEW p \in Places, Edit(p) PROVE GraphInv'
  BY <1>2, <1>5, MeanwhileKeeps DEF Edit
<1>6. ASSUME NEW c \in Configurations, OpenSession(c) PROVE GraphInv'
  BY <1>2, <1>6, OpenSessionKeeps
<1>7. CASE UNCHANGED <<graphVars, identityVars>>
  BY <1>2, <1>7, MeanwhileKeeps DEF graphVars
<1> QED BY <1>3, <1>4, <1>5, <1>6, <1>7 DEF GraphNext

LEMMA GraphInvariant == GraphSpec => []GraphInv
<1>1. IdentityInit /\ GraphInit => GraphInv
  BY GraphInitHolds
<1>2. GraphInv /\ [GraphNext]_<<graphVars, identityVars>> => GraphInv'
  BY GraphNextKeeps
<1> QED BY <1>1, <1>2, PTL DEF GraphSpec

\* Two revisions give an object at one place one identity, whichever threads extracted
\* them side by side and read the identities before others wrote them: only a tombstone
\* or a rebind to that place explains another (extract_snapshot, resolve_exact, create).
THEOREM GraphIdentityIsStable == GraphSpec => []IdentityIsStable
<1>1. GraphInv => IdentityIsStable
  <2> SUFFICES ASSUME GraphInv, NEW m \in Revisions, NEW n \in Revisions,
                      NEW p \in DOMAIN snapshots[m].assets \cap DOMAIN snapshots[n].assets,
                      NEW i, i = snapshots[m].assets[p], NEW j, j = snapshots[n].assets[p],
                      i # j, \A v \in DOMAIN locators : locators[v].place = p => locators[v].prior = 0
               PROVE  {i, j} \cap tombstones # {}
    BY DEF IdentityIsStable, Revisions
  <2>1. i \in BoundTo(p) /\ j \in BoundTo(p)
    BY DEF GraphInv, BindingsTold, IsBound
  <2>2. PICK v \in DOMAIN locators : locators[v].identity = i /\ locators[v].place = p
    BY <2>1 DEF BoundTo
  <2>3. PICK w \in DOMAIN locators : locators[w].identity = j /\ locators[w].place = p
    BY <2>1 DEF BoundTo
  <2>4. locators[v].prior = 0 /\ locators[w].prior = 0
    BY <2>2, <2>3
  <2>5. v < w \/ w < v
    <3>1. v \in Nat /\ w \in Nat
      BY DEF GraphInv, IInv, TypeInv, Typed
    <3> QED BY <2>2, <2>3, <3>1
  <2> QED BY <2>2, <2>3, <2>4, <2>5 DEF GraphInv, IInv, RecreationNeedsProof
<1> QED BY <1>1, GraphInvariant, PTL

\* The revisions of a context are of one configuration, numbered without gap or
\* repetition, and none was taken before one of a lower number, although threads draw
\* their numbers long before they store them.  The order of the texts hides those of the
\* highest numbers in one case only: from a revision that was taken on the second, those
\* that were taken within it (extract_snapshot, latest, record_full).
THEOREM GraphRevisionsFollow == GraphSpec => []RevisionsFollow
<1>1. GraphInv => RevisionsFollow
  <2> SUFFICES ASSUME GraphInv, NEW c \in {snapshots[n].context : n \in Revisions}
               PROVE  /\ Counters(c) = 1..Cardinality(Of(c))
                      /\ \A m, n \in Of(c) :
                           /\ snapshots[m].configuration = snapshots[n].configuration
                           /\ snapshots[m].counter < snapshots[n].counter =>
                                snapshots[m].at <= snapshots[n].at
                      /\ \A n \in Of(c) :
                           snapshots[n].counter > snapshots[LatestOf(Of(c))].counter =>
                             /\ IsWhole(snapshots[LatestOf(Of(c))].at)
                             /\ snapshots[n].at < snapshots[LatestOf(Of(c))].at + Second
    BY DEF RevisionsFollow, Counters, Of, Revisions
  <2>1. Follows(c)
    BY DEF GraphInv, RevisionsInv
  <2>2. PICK h : h = LatestOf(Of(c))
    OBVIOUS
  <2>3. h \in Of(c) /\ \A n \in Of(c) : ~SortsBefore(h, n)
    <3>1. Of(c) \in SUBSET Revisions /\ Of(c) # {}
      BY DEF Of
    <3> QED BY <2>2, <3>1, LatestSorts
  <2>4. ASSUME NEW n \in Of(c), snapshots[n].counter > snapshots[h].counter
        PROVE  IsWhole(snapshots[h].at) /\ snapshots[n].at < snapshots[h].at + Second
    <3>1. /\ h \in Revisions /\ n \in Revisions
          /\ snapshots[h].at \in Nat /\ snapshots[n].at \in Nat
      BY <2>3 DEF Of, GraphInv, RevisionsInv, Timed
    <3>2. snapshots[h].counter \in Int /\ snapshots[n].counter \in Int
      BY <3>1, CountersAreInt DEF GraphInv, RevisionsInv
    <3>3. snapshots[h].at <= snapshots[n].at
      BY <2>1, <2>3, <2>4, <3>2 DEF Follows
    <3>4. TextRank(snapshots[n].at) < TextRank(snapshots[h].at)
      <4>1. TextRank(snapshots[n].at) \in Int /\ TextRank(snapshots[h].at) \in Int
        BY <3>1, RankIsInt
      <4> QED BY <2>3, <2>4, <3>2, <4>1 DEF SortsBefore
    <3> QED BY <3>1, <3>3, <3>4, TextOrder
  <2> QED BY <2>1, <2>2, <2>4 DEF Follows
<1> QED BY <1>1, GraphInvariant, PTL

-----------------------------------------------------------------------------
\* What was taken over from a refresh and what was left of the graph.
LEMMA MergedEdge ==
  ASSUME NEW g, NEW r
  PROVE  /\ Nodes(Merged(g, r)) = Nodes(g) \cup DOMAIN r.assets
         /\ Edges(Merged(g, r)) = (Edges(g) \ r.removed) \cup DOMAIN r.edges
         /\ \A e \in DOMAIN r.edges : Merged(g, r).edges[e] = r.edges[e]
         /\ \A e \in (Edges(g) \ r.removed) \ DOMAIN r.edges : Merged(g, r).edges[e] = g.edges[e]
BY DEF Merged, MergedEdges, Nodes, Edges

\* The relationships a refresh puts in or changes, and those it takes out.
Put(g, r) == {e \in DOMAIN r.edges : e \in Edges(g) => g.edges[e] # r.edges[e]}
Gone(g, r) == (r.removed \cap Edges(g)) \ DOMAIN r.edges

LEMMA DiffOfMerged ==
  ASSUME NEW g, NEW r
  PROVE  /\ DiffEdges(g, Merged(g, r)) = Put(g, r) \cup Gone(g, r)
         /\ DiffAssets(g, Merged(g, r)) = (UNION {Ends(r.edges[e]) : e \in Put(g, r)})
                                          \cup (UNION {Ends(g.edges[e]) : e \in Gone(g, r)})
                                          \cup (DOMAIN r.assets \ Nodes(g))
         /\ DiffEdges(Merged(g, r), g) = DiffEdges(g, Merged(g, r))
<1>0. PICK m : m = Merged(g, r)
  OBVIOUS
<1> DEFINE put == Put(g, r)
           gone == Gone(g, r)
<1>1. /\ Nodes(m) = Nodes(g) \cup DOMAIN r.assets
      /\ Edges(m) = (Edges(g) \ r.removed) \cup DOMAIN r.edges
      /\ \A e \in DOMAIN r.edges : m.edges[e] = r.edges[e]
      /\ \A e \in (Edges(g) \ r.removed) \ DOMAIN r.edges : m.edges[e] = g.edges[e]
  BY <1>0, MergedEdge
<1>2. DiffEdges(g, m) = put \cup gone
  <2>1. Edges(g) \ Edges(m) = gone
    BY <1>1 DEF Gone
  <2>2. Edges(m) \ Edges(g) = DOMAIN r.edges \ Edges(g)
    BY <1>1
  <2>3. {e \in Edges(g) \cap Edges(m) : g.edges[e] # m.edges[e]}
          = {e \in DOMAIN r.edges \cap Edges(g) : g.edges[e] # r.edges[e]}
    BY <1>1
  <2> QED BY <2>1, <2>2, <2>3 DEF DiffEdges, Put
<1>3. DiffEdges(m, g) = DiffEdges(g, m)
  BY DEF DiffEdges
<1>4. DiffAssets(g, m) = (Nodes(m) \ Nodes(g)) \cup UNION {Ends(IF e \in Edges(m) THEN m.edges[e]
                                                                  ELSE g.edges[e]) : e \in put \cup gone}
  BY <1>1, <1>2 DEF DiffAssets
<1> HIDE DEF put, gone
<1>5. /\ \A e \in put : e \in Edges(m) /\ m.edges[e] = r.edges[e]
      /\ \A e \in gone : e \notin Edges(m)
  BY <1>1 DEF put, gone, Put, Gone
<1>6. UNION {Ends(IF e \in Edges(m) THEN m.edges[e] ELSE g.edges[e]) : e \in put \cup gone}
        = (UNION {Ends(r.edges[e]) : e \in put}) \cup (UNION {Ends(g.edges[e]) : e \in gone})
  BY <1>5
<1>7. Nodes(m) \ Nodes(g) = DOMAIN r.assets \ Nodes(g)
  BY <1>1
<1> QED BY <1>0, <1>2, <1>3, <1>4, <1>6, <1>7 DEF put, gone

\* The difference between a graph and its refresh is the refresh, whatever it removes,
\* adds, changes or puts in again, for any graph (record_incremental, topology_diff).
THEOREM DiffAlwaysTellsTheRefresh == TopologyInit => DiffTellsTheRefresh
BY DiffOfMerged DEF DiffTellsTheRefresh, Put, Gone

-----------------------------------------------------------------------------
\* Less than, as a set of pairs.
Below == {ss \in Nat \X Nat : ss[1] < ss[2]}
\* There is no infinite descent of numbers.
LEMMA BelowIsWellFounded == IsWellFoundedOn(Below, Nat)
<1>1. IsWellFoundedOn(OpToRel(<, Nat), Nat)
  BY NatLessThanWellFounded
<1> QED BY <1>1 DEF OpToRel, Below

\* A set of numbers has a least one.
LEMMA LeastNumber ==
  ASSUME NEW T \in SUBSET Nat, T # {}
  PROVE  \E m \in T : \A k \in T : m <= k
<1>1. PICK m \in T : \A k \in T : ~(<<k, m>> \in Below)
  <2> HIDE DEF Below
  <2> QED BY BelowIsWellFounded, WFMin
<1>2. ASSUME NEW k \in T PROVE m <= k
  <2>1. m \in Nat /\ k \in Nat /\ (k < m => <<k, m>> \in Below)
    BY DEF Below
  <2> QED BY <1>1, <2>1
<1> QED BY <1>2

\* Induction, for a set instead of a predicate.
LEMMA InductionOverSets ==
  ASSUME NEW T \in SUBSET Nat, 0 \in T, \A n \in T : n + 1 \in T
  PROVE  T = Nat
<1> SUFFICES ASSUME Nat \ T # {} PROVE FALSE
  OBVIOUS
<1>1. PICK m \in Nat \ T : \A k \in Nat \ T : m <= k
  BY LeastNumber
<1>2. m # 0 /\ m - 1 \in Nat /\ ~(m <= m - 1)
  OBVIOUS
<1>3. m - 1 \in T
  BY <1>1, <1>2
<1> QED BY <1>1, <1>2, <1>3

\* One hop further over the edges E than B.
Wider(g, E, B) == B \cup UNION {Ends(g.edges[e]) : e \in {x \in E : Ends(g.edges[x]) \cap B # {}}}
\* f is the recursive function of Reach, as far as n.
Balls(f, g, E, a, n) == f = [h \in 0..n |-> IF h = 0 THEN {a} ELSE Wider(g, E, f[h - 1])]

\* The recursion of Reach defines a function, as far as one wants.
LEMMA BallsExist ==
  ASSUME NEW g, NEW E, NEW a
  PROVE  \A n \in Nat : \E f : Balls(f, g, E, a, n)
<1> DEFINE T == {n \in Nat : \E f : Balls(f, g, E, a, n)}
<1>1. 0 \in T
  <2> DEFINE f == [h \in 0..0 |-> {a}]
  <2>1. f = [h \in 0..0 |-> IF h = 0 THEN {a} ELSE Wider(g, E, f[h - 1])]
    OBVIOUS
  <2> QED BY <2>1 DEF Balls
<1>2. ASSUME NEW n \in T PROVE n + 1 \in T
  <2>1. PICK f : Balls(f, g, E, a, n)
    OBVIOUS
  <2> DEFINE k == [h \in 0..(n + 1) |-> IF h = n + 1 THEN Wider(g, E, f[n]) ELSE f[h]]
  <2>2. ASSUME NEW h \in 0..(n + 1)
        PROVE  k[h] = IF h = 0 THEN {a} ELSE Wider(g, E, k[h - 1])
    <3>1. CASE h = 0
      BY <2>1, <3>1 DEF Balls
    <3>2. CASE h = n + 1
      <4>1. k[h] = Wider(g, E, f[n]) /\ k[h - 1] = f[n] /\ h # 0
        BY <3>2
      <4> QED BY <4>1
    <3>3. CASE h \in 1..n
      <4>1. k[h] = f[h] /\ k[h - 1] = f[h - 1] /\ h # 0 /\ h \in 0..n
        BY <3>3
      <4>2. f[h] = Wider(g, E, f[h - 1])
        BY <2>1, <4>1 DEF Balls
      <4> QED BY <4>1, <4>2
    <3> QED BY <3>1, <3>2, <3>3
  <2>3. Balls(k, g, E, a, n + 1)
    BY <2>2 DEF Balls
  <2> QED BY <2>3
<1> HIDE DEF T
<1>3. T = Nat
  <2>1. T \in SUBSET Nat
    BY DEF T
  <2> QED BY <1>1, <1>2, <2>1, InductionOverSets
<1> QED BY <1>3 DEF T

\* So Reach, which chooses such a function, satisfies its own equation.
LEMMA ReachIsRecursive ==
  ASSUME NEW g, NEW E, NEW a, Cardinality(Nodes(g)) \in Nat
  PROVE  Balls(Reach(g, E, a), g, E, a, Cardinality(Nodes(g)))
<1>1. \E f : Balls(f, g, E, a, Cardinality(Nodes(g)))
  BY BallsExist
<1>2. Reach(g, E, a) = CHOOSE f : Balls(f, g, E, a, Cardinality(Nodes(g)))
  BY Zenon DEF Reach, Balls, Wider
<1> QED BY <1>1, <1>2

\* No edge of E leads out of B.
Closed(g, E, B) == \A e \in E : Ends(g.edges[e]) \cap B # {} => Ends(g.edges[e]) \subseteq B

\* The same, hop by hop.
LEMMA ReachStarts ==
  ASSUME NEW g, NEW E, NEW a, IsSnapshot(g)
  PROVE  /\ Cardinality(Nodes(g)) \in Nat
         /\ Reach(g, E, a)[0] = {a}
         /\ \A h \in 0..Cardinality(Nodes(g)) :
              h # 0 => Reach(g, E, a)[h] = Wider(g, E, Reach(g, E, a)[h - 1])
<1> DEFINE N == Cardinality(Nodes(g))
<1>1. N \in Nat
  BY FS_CardinalityType DEF IsSnapshot
<1>2. Balls(Reach(g, E, a), g, E, a, N)
  BY <1>1, ReachIsRecursive
<1> DEFINE ball == Reach(g, E, a)
<1>3. ball = [h \in 0..N |-> IF h = 0 THEN {a} ELSE Wider(g, E, ball[h - 1])]
  BY <1>2 DEF Balls
<1> HIDE DEF ball, N
<1>4. ball[0] = {a}
  BY <1>1, <1>3
<1>5. ASSUME NEW h \in 0..N, h # 0
      PROVE  ball[h] = Wider(g, E, ball[h - 1])
  BY <1>3, <1>5
<1> QED BY <1>1, <1>4, <1>5 DEF ball, N

\* More assets and more edges reach more.
LEMMA WiderGrows ==
  ASSUME NEW g, NEW E, NEW F, E \subseteq F, NEW B, NEW C, B \subseteq C
  PROVE  B \subseteq Wider(g, E, B) /\ Wider(g, E, B) \subseteq Wider(g, F, C)
BY DEF Wider

\* A hop adds nothing to a set that is closed, and to no other.
LEMMA WiderClosed ==
  ASSUME NEW g, NEW E, NEW B
  PROVE  Closed(g, E, B) <=> Wider(g, E, B) = B
BY DEF Wider, Closed

\* A hop does not leave the snapshot.
LEMMA WiderStays ==
  ASSUME NEW g, NEW E, IsSnapshot(g), E \subseteq Edges(g), NEW B, B \subseteq Nodes(g)
  PROVE  Wider(g, E, B) \subseteq Nodes(g)
BY DEF Wider, IsSnapshot, Acceptable

\* More hops over more edges reach more.
LEMMA BallsGrow ==
  ASSUME NEW g, NEW E, NEW F, NEW a, IsSnapshot(g), E \subseteq F
  PROVE  \A h \in 0..Cardinality(Nodes(g)), k \in 0..Cardinality(Nodes(g)) :
           h <= k => Reach(g, E, a)[h] \subseteq Reach(g, F, a)[k]
<1> DEFINE N == Cardinality(Nodes(g))
           X == Reach(g, E, a)
           Y == Reach(g, F, a)
           T == {k \in Nat : k <= N => \A h \in 0..k : X[h] \subseteq Y[k]}
<1>1. /\ N \in Nat /\ X[0] = {a} /\ Y[0] = {a}
      /\ \A h \in 0..N : h # 0 => X[h] = Wider(g, E, X[h - 1])
      /\ \A h \in 0..N : h # 0 => Y[h] = Wider(g, F, Y[h - 1])
  BY ReachStarts
<1> HIDE DEF X, Y, N
<1>2. 0 \in T
  BY <1>1
<1>3. ASSUME NEW k \in T PROVE k + 1 \in T
  <2> SUFFICES ASSUME k + 1 <= N, NEW h \in 0..(k + 1) PROVE X[h] \subseteq Y[k + 1]
    OBVIOUS
  <2>1. k \in Nat /\ k <= N /\ k + 1 \in 0..N /\ k + 1 # 0 /\ (k + 1) - 1 = k
    BY <1>1
  <2>2. \A j \in 0..k : X[j] \subseteq Y[k]
    BY <2>1
  <2>3. Y[k + 1] = Wider(g, F, Y[k])
    BY <1>1, <2>1
  <2>4. CASE h <= k
    <3>1. X[h] \subseteq Y[k]
      BY <2>1, <2>2, <2>4
    <3>2. Y[k] \subseteq Wider(g, F, Y[k])
      BY WiderGrows
    <3> QED BY <2>3, <3>1, <3>2
  <2>5. CASE h = k + 1
    <3>1. X[h] = Wider(g, E, X[k])
      BY <1>1, <2>1, <2>5
    <3>2. X[k] \subseteq Y[k]
      BY <2>1, <2>2
    <3>3. Wider(g, E, X[k]) \subseteq Wider(g, F, Y[k])
      BY <3>2, WiderGrows
    <3> QED BY <2>3, <3>1, <3>3
  <2> QED BY <2>1, <2>4, <2>5
<1> HIDE DEF T
<1>4. T = Nat
  <2>1. T \in SUBSET Nat
    BY DEF T
  <2> QED BY <1>2, <1>3, <2>1, InductionOverSets
<1> QED BY <1>1, <1>4 DEF T, X, Y, N

\* What is reached is the start and assets of the snapshot.
LEMMA BallsStay ==
  ASSUME NEW g, NEW E, NEW a \in Nodes(g), IsSnapshot(g), E \subseteq Edges(g)
  PROVE  \A h \in 0..Cardinality(Nodes(g)) : a \in Reach(g, E, a)[h] /\ Reach(g, E, a)[h] \subseteq Nodes(g)
<1> DEFINE N == Cardinality(Nodes(g))
           X == Reach(g, E, a)
           T == {k \in Nat : k <= N => a \in X[k] /\ X[k] \subseteq Nodes(g)}
<1>1. /\ N \in Nat /\ X[0] = {a}
      /\ \A h \in 0..N : h # 0 => X[h] = Wider(g, E, X[h - 1])
  BY ReachStarts
<1> HIDE DEF X, N
<1>2. 0 \in T
  BY <1>1
<1>3. ASSUME NEW k \in T PROVE k + 1 \in T
  <2> SUFFICES ASSUME k + 1 <= N PROVE a \in X[k + 1] /\ X[k + 1] \subseteq Nodes(g)
    OBVIOUS
  <2>1. k \in Nat /\ k <= N /\ k + 1 \in 0..N /\ k + 1 # 0 /\ (k + 1) - 1 = k
    BY <1>1
  <2>2. a \in X[k] /\ X[k] \subseteq Nodes(g)
    BY <2>1
  <2>3. X[k + 1] = Wider(g, E, X[k])
    BY <1>1, <2>1
  <2>4. Wider(g, E, X[k]) \subseteq Nodes(g)
    BY <2>2, WiderStays
  <2>5. X[k] \subseteq Wider(g, E, X[k])
    BY WiderGrows
  <2> QED BY <2>2, <2>3, <2>4, <2>5
<1> HIDE DEF T
<1>4. T = Nat
  <2>1. T \in SUBSET Nat
    BY DEF T
  <2> QED BY <1>2, <1>3, <2>1, InductionOverSets
<1> QED BY <1>1, <1>4 DEF T, X, N

\* As many hops as there are assets reach all there is to reach: as long as there
\* is more, each hop reaches another asset.
LEMMA LastBallIsClosed ==
  ASSUME NEW g, NEW E, NEW a \in Nodes(g), IsSnapshot(g), E \subseteq Edges(g)
  PROVE  Closed(g, E, Reach(g, E, a)[Cardinality(Nodes(g))])
<1> DEFINE N == Cardinality(Nodes(g))
           X == Reach(g, E, a)
           T == {k \in Nat : k <= N => Cardinality(X[k]) > k \/ Closed(g, E, X[k])}
<1>1. /\ N \in Nat /\ X[0] = {a}
      /\ \A h \in 0..N : h # 0 => X[h] = Wider(g, E, X[h - 1])
  BY ReachStarts
<1>2. \A h \in 0..N : X[h] \subseteq Nodes(g)
  BY BallsStay
<1>3. IsFiniteSet(Nodes(g))
  BY DEF IsSnapshot
<1>4. \A h \in 0..N : IsFiniteSet(X[h]) /\ Cardinality(X[h]) \in Nat /\ Cardinality(X[h]) <= N
  <2> SUFFICES ASSUME NEW h \in 0..N
               PROVE IsFiniteSet(X[h]) /\ Cardinality(X[h]) \in Nat /\ Cardinality(X[h]) <= N
    OBVIOUS
  <2>1. X[h] \in SUBSET Nodes(g)
    BY <1>2
  <2> HIDE DEF X
  <2> QED BY <1>3, <2>1, FS_Subset, FS_CardinalityType
<1> HIDE DEF X, N
<1>5. 0 \in T
  <2>1. Cardinality({a}) = 1
    BY FS_Singleton
  <2>2. Cardinality(X[0]) = 1
    BY <1>1, <2>1
  <2>3. Cardinality(X[0]) > 0
    BY <2>2
  <2> QED BY <2>3
<1>6. ASSUME NEW k \in T PROVE k + 1 \in T
  <2> SUFFICES ASSUME k + 1 <= N, ~Closed(g, E, X[k + 1]) PROVE Cardinality(X[k + 1]) > k + 1
    OBVIOUS
  <2>1. k \in Nat /\ k <= N /\ k \in 0..N /\ k + 1 \in 0..N /\ k + 1 # 0 /\ (k + 1) - 1 = k
    BY <1>1
  <2>2. X[k + 1] = Wider(g, E, X[k])
    BY <1>1, <2>1
  <2>3. ~Closed(g, E, X[k]) /\ X[k] # X[k + 1]
    BY <2>2, WiderClosed
  <2>4. Cardinality(X[k]) > k
    BY <2>1, <2>3
  <2>5. X[k] \in SUBSET X[k + 1]
    BY <2>2, WiderGrows
  <2>6. Cardinality(X[k]) <= Cardinality(X[k + 1]) /\ Cardinality(X[k]) # Cardinality(X[k + 1])
    BY <1>4, <2>1, <2>3, <2>5, FS_Subset
  <2>7. Cardinality(X[k]) \in Nat /\ Cardinality(X[k + 1]) \in Nat
    BY <1>4, <2>1
  <2> QED BY <2>1, <2>4, <2>6, <2>7
<1> HIDE DEF T
<1>7. T = Nat
  <2>1. T \in SUBSET Nat
    BY DEF T
  <2> QED BY <1>5, <1>6, <2>1, InductionOverSets
<1>8. Cardinality(X[N]) > N \/ Closed(g, E, X[N])
  BY <1>1, <1>7 DEF T
<1>9. ~(Cardinality(X[N]) > N)
  BY <1>1, <1>4
<1> QED BY <1>8, <1>9 DEF X, N

\* What is closed and has the start has all that is reached.
LEMMA BallsStayInClosed ==
  ASSUME NEW g, NEW E, NEW a, IsSnapshot(g), NEW B, a \in B, Closed(g, E, B)
  PROVE  \A h \in 0..Cardinality(Nodes(g)) : Reach(g, E, a)[h] \subseteq B
<1> DEFINE N == Cardinality(Nodes(g))
           X == Reach(g, E, a)
           T == {k \in Nat : k <= N => X[k] \subseteq B}
<1>1. /\ N \in Nat /\ X[0] = {a}
      /\ \A h \in 0..N : h # 0 => X[h] = Wider(g, E, X[h - 1])
  BY ReachStarts
<1> HIDE DEF X, N
<1>2. 0 \in T
  BY <1>1
<1>3. ASSUME NEW k \in T PROVE k + 1 \in T
  <2> SUFFICES ASSUME k + 1 <= N PROVE X[k + 1] \subseteq B
    OBVIOUS
  <2>1. k \in Nat /\ k <= N /\ k + 1 \in 0..N /\ k + 1 # 0 /\ (k + 1) - 1 = k
    BY <1>1
  <2>2. X[k + 1] = Wider(g, E, X[k])
    BY <1>1, <2>1
  <2>3. X[k] \subseteq B
    BY <2>1
  <2>4. Wider(g, E, X[k]) \subseteq Wider(g, E, B)
    BY <2>3, WiderGrows
  <2>5. Wider(g, E, B) = B
    BY WiderClosed
  <2> QED BY <2>2, <2>4, <2>5
<1> HIDE DEF T
<1>4. T = Nat
  <2>1. T \in SUBSET Nat
    BY DEF T
  <2> QED BY <1>2, <1>3, <2>1, InductionOverSets
<1> QED BY <1>1, <1>4 DEF T, X, N

\* The index of Ball.
Hops(g, h) == IF h < Cardinality(Nodes(g)) THEN h ELSE Cardinality(Nodes(g))

\* BallsGrow, of Ball.
LEMMA NearGrows ==
  ASSUME NEW g, NEW E, NEW F, NEW a, IsSnapshot(g), E \subseteq F, NEW h \in Nat, NEW k \in Nat, h <= k
  PROVE  Ball(g, E, a, h) \subseteq Ball(g, F, a, k)
<1>1. Cardinality(Nodes(g)) \in Nat
  BY ReachStarts
<1>2. Hops(g, h) \in 0..Cardinality(Nodes(g)) /\ Hops(g, k) \in 0..Cardinality(Nodes(g))
      /\ Hops(g, h) <= Hops(g, k)
  BY <1>1 DEF Hops
<1>3. Reach(g, E, a)[Hops(g, h)] \subseteq Reach(g, F, a)[Hops(g, k)]
  BY <1>2, BallsGrow
<1> QED BY <1>3 DEF Ball, Hops

\* BallsStay, of Ball.
LEMMA NearStays ==
  ASSUME NEW g, NEW E, IsSnapshot(g), E \subseteq Edges(g), NEW a \in Nodes(g), NEW h \in Nat
  PROVE  a \in Ball(g, E, a, h) /\ Ball(g, E, a, h) \subseteq Nodes(g)
<1>1. Cardinality(Nodes(g)) \in Nat
  BY ReachStarts
<1>2. Hops(g, h) \in 0..Cardinality(Nodes(g))
  BY <1>1 DEF Hops
<1>3. a \in Reach(g, E, a)[Hops(g, h)] /\ Reach(g, E, a)[Hops(g, h)] \subseteq Nodes(g)
  BY <1>2, BallsStay
<1> QED BY <1>3 DEF Ball, Hops

\* A component is the least closed set with its asset.
LEMMA ComponentIsClosed ==
  ASSUME NEW g, IsSnapshot(g), NEW a \in Nodes(g)
  PROVE  /\ a \in Component(g, a)
         /\ Closed(g, InService(g), Component(g, a))
         /\ \A B : a \in B /\ Closed(g, InService(g), B) => Component(g, a) \subseteq B
<1> DEFINE N == Cardinality(Nodes(g))
           E == InService(g)
<1>1. N \in Nat /\ E \subseteq Edges(g)
  BY ReachStarts DEF InService
<1>2. Component(g, a) = Reach(g, E, a)[N] /\ N \in 0..N
  BY <1>1 DEF Component, Ball
<1> HIDE DEF E
<1>3. a \in Reach(g, E, a)[N]
  BY <1>1, <1>2, BallsStay
<1>4. Closed(g, E, Reach(g, E, a)[N])
  BY <1>1, LastBallIsClosed
<1>5. ASSUME NEW B, a \in B, Closed(g, E, B) PROVE Reach(g, E, a)[N] \subseteq B
  BY <1>1, <1>2, <1>5, BallsStayInClosed
<1> QED BY <1>2, <1>3, <1>4, <1>5 DEF E

\* A closed set has all vertices of a walk or none.
LEMMA WalksStay ==
  ASSUME NEW g, NEW E, NEW B, Closed(g, E, B), NEW n \in Nat, NEW p,
         \A i \in 1..n : \E e \in E : Ends(g.edges[e]) = {p[i - 1], p[i]}
  PROVE  p[0] \in B <=> p[n] \in B
<1> DEFINE T == {k \in Nat : k <= n => (p[0] \in B <=> p[k] \in B)}
<1>1. 0 \in T
  OBVIOUS
<1>2. ASSUME NEW k \in T PROVE k + 1 \in T
  <2> SUFFICES ASSUME k + 1 <= n PROVE p[0] \in B <=> p[k + 1] \in B
    OBVIOUS
  <2>1. k \in Nat /\ k + 1 \in 1..n /\ (k + 1) - 1 = k /\ k <= n
    OBVIOUS
  <2>2. PICK e \in E : Ends(g.edges[e]) = {p[k], p[k + 1]}
    BY <2>1
  <2>3. p[k] \in B <=> p[k + 1] \in B
    BY <2>2 DEF Closed
  <2> QED BY <2>1, <2>3
<1> HIDE DEF T
<1>3. T = Nat
  <2>1. T \in SUBSET Nat
    BY DEF T
  <2> QED BY <1>1, <1>2, <2>1, InductionOverSets
<1> QED BY <1>3 DEF T

\* The distance of an asset that is reached is a number of hops that reach it, and
\* no fewer do.
LEMMA DistanceIsLeast ==
  ASSUME NEW g, IsSnapshot(g), NEW a, NEW b,
         b \in Ball(g, Conducting(g), a, Cardinality(Nodes(g)))
  PROVE  /\ Distance(g, a, b) \in 0..Cardinality(Nodes(g))
         /\ b \in Ball(g, Conducting(g), a, Distance(g, a, b))
         /\ \A k \in 0..(Distance(g, a, b) - 1) : b \notin Ball(g, Conducting(g), a, k)
<1> DEFINE N == Cardinality(Nodes(g))
           T == {h \in 0..N : b \in Ball(g, Conducting(g), a, h)}
<1>1. N \in Nat
  BY ReachStarts
<1>2. T \in SUBSET Nat /\ T # {}
  BY <1>1
<1> HIDE DEF N
<1>3. PICK m \in T : \A k \in T : m <= k
  <2> HIDE DEF T
  <2> QED BY <1>2, LeastNumber
<1>4. m \in 0..N /\ b \in Ball(g, Conducting(g), a, m)
  OBVIOUS
<1>5. ASSUME NEW k \in 0..(m - 1) PROVE b \notin Ball(g, Conducting(g), a, k)
  BY <1>1, <1>3, <1>4
<1>6. \E h \in 0..N : b \in Ball(g, Conducting(g), a, h)
                      /\ \A k \in 0..(h - 1) : b \notin Ball(g, Conducting(g), a, k)
  BY <1>4, <1>5
<1> QED BY <1>6 DEF Distance, N

\* What the query for a path says agrees with components and neighborhoods.
LEMMA EndsAreConnected ==
  ASSUME NEW g, IsSnapshot(g), NEW a \in Nodes(g), NEW b \in Nodes(g), NEW p \in Paths(g, a, b)
  PROVE  /\ Component(g, a) = Component(g, b)
         /\ \A n \in DOMAIN p : g.assets[p[n]] = "in"
         /\ \A h \in Nat : b \in Near(g, a, h) \/ h \in DOMAIN p
<1> DEFINE D == Distance(g, a, b)
           C == Conducting(g)
<1>1. Energized(g, a) /\ b \in Ball(g, C, a, Cardinality(Nodes(g)))
  BY DEF Paths
<1>2. D \in 0..Cardinality(Nodes(g)) /\ b \in Ball(g, C, a, D) /\ D \in Nat
  BY <1>1, DistanceIsLeast
<1>3. /\ DOMAIN p = 0..D /\ p[0] = a /\ p[D] = b
      /\ \A n \in 1..D : \E e \in C : Ends(g.edges[e]) = {p[n - 1], p[n]}
  BY <1>1 DEF Paths
<1> HIDE DEF D
<1>4. C \subseteq InService(g) /\ InService(g) \subseteq Edges(g)
  BY DEF Conducting, InService
<1>5. \A n \in 1..D : \E e \in InService(g) : Ends(g.edges[e]) = {p[n - 1], p[n]}
  BY <1>3, <1>4
<1>6. /\ a \in Component(g, a) /\ b \in Component(g, b)
      /\ Closed(g, InService(g), Component(g, a)) /\ Closed(g, InService(g), Component(g, b))
  BY ComponentIsClosed
<1>7. b \in Component(g, a)
  <2>1. p[0] \in Component(g, a) <=> p[D] \in Component(g, a)
    BY <1>2, <1>5, <1>6, WalksStay
  <2> QED BY <1>3, <1>6, <2>1
<1>8. a \in Component(g, b)
  <2>1. p[0] \in Component(g, b) <=> p[D] \in Component(g, b)
    BY <1>2, <1>5, <1>6, WalksStay
  <2> QED BY <1>3, <1>6, <2>1
<1>9. Component(g, a) = Component(g, b)
  BY <1>6, <1>7, <1>8, ComponentIsClosed
<1>10. ASSUME NEW n \in DOMAIN p PROVE g.assets[p[n]] = "in"
  <2>1. CASE n = 0
    BY <1>1, <1>3, <2>1 DEF Energized
  <2>2. CASE n # 0
    <3>1. n \in 1..D
      BY <1>2, <1>3, <2>2
    <3>2. PICK e \in C : Ends(g.edges[e]) = {p[n - 1], p[n]}
      BY <1>3, <3>1
    <3> QED BY <3>2 DEF Conducting, Energized
  <2> QED BY <2>1, <2>2
<1>11. ASSUME NEW h \in Nat, h \notin DOMAIN p PROVE b \in Near(g, a, h)
  <2>1. D <= h
    BY <1>2, <1>3, <1>11
  <2>2. Ball(g, C, a, D) \subseteq Ball(g, Edges(g), a, h)
    BY <1>2, <1>4, <2>1, NearGrows
  <2> QED BY <1>2, <2>2 DEF Near
<1> QED BY <1>9, <1>10, <1>11

\* The components partition the assets: an asset that is in another's component has the same.
LEMMA ComponentsAgree ==
  ASSUME NEW g, IsSnapshot(g), NEW a \in Nodes(g), NEW b \in Nodes(g), b \in Component(g, a)
  PROVE  Component(g, a) = Component(g, b)
<1> DEFINE A == Component(g, a)
           B == Component(g, b)
           E == InService(g)
<1>1. /\ a \in A /\ Closed(g, E, A) /\ (\A C : a \in C /\ Closed(g, E, C) => A \subseteq C)
      /\ b \in B /\ Closed(g, E, B) /\ (\A C : b \in C /\ Closed(g, E, C) => B \subseteq C)
  BY ComponentIsClosed
<1> HIDE DEF A, B, E
<1>2. B \subseteq A
  BY <1>1 DEF A
<1>3. a \in B
  <2> SUFFICES ASSUME a \notin B PROVE FALSE
    OBVIOUS
  <2>1. a \in A \ B
    BY <1>1
  <2>2. Closed(g, E, A \ B)
    BY <1>1 DEF Closed
  <2>3. A \subseteq A \ B
    BY <1>1, <2>1, <2>2
  <2> QED BY <1>1, <2>3 DEF A
<1>4. A \subseteq B
  BY <1>1, <1>3
<1> QED BY <1>2, <1>4 DEF A, B

\* The components that are counted partition the assets (connected_components).
THEOREM ComponentsPartition ==
  ASSUME NEW g \in Snapshots
  PROVE  /\ UNION {Component(g, a) : a \in Nodes(g)} = Nodes(g)
         /\ \A a \in Nodes(g), b \in Nodes(g) :
              Component(g, a) = Component(g, b) \/ Component(g, a) \cap Component(g, b) = {}
<1>1. IsSnapshot(g)
  BY SnapshotsAssumption
<1>2. ASSUME NEW a \in Nodes(g) PROVE a \in Component(g, a) /\ Component(g, a) \subseteq Nodes(g)
  <2>1. Cardinality(Nodes(g)) \in Nat
    BY <1>1, ReachStarts
  <2>2. InService(g) \subseteq Edges(g)
    BY DEF InService
  <2> QED BY <1>1, <2>1, <2>2, NearStays DEF Component
<1>3. ASSUME NEW a \in Nodes(g), NEW b \in Nodes(g), NEW c \in Component(g, a) \cap Component(g, b)
      PROVE  Component(g, a) = Component(g, b)
  <2>1. c \in Nodes(g)
    BY <1>2
  <2> QED BY <1>1, <2>1, ComponentsAgree
<1> QED BY <1>2, <1>3

\* A walk of n hops over the edges E.
Walks(g, E, a, b, n) == {p \in [0..n -> Nodes(g)] :
                           /\ p[0] = a /\ p[n] = b
                           /\ \A i \in 1..n : \E e \in E : Ends(g.edges[e]) = {p[i - 1], p[i]}}

\* What a walk leads to is reached by as many hops.
LEMMA WalksAreReached ==
  ASSUME NEW g, IsSnapshot(g), NEW E, NEW a, NEW b, NEW n \in 0..Cardinality(Nodes(g)),
         NEW p \in Walks(g, E, a, b, n)
  PROVE  b \in Reach(g, E, a)[n]
<1> DEFINE N == Cardinality(Nodes(g))
           X == Reach(g, E, a)
           T == {k \in Nat : k <= n => p[k] \in X[k]}
<1>1. /\ N \in Nat /\ X[0] = {a}
      /\ \A h \in 0..N : h # 0 => X[h] = Wider(g, E, X[h - 1])
  BY ReachStarts
<1>2. /\ p[0] = a /\ p[n] = b
      /\ \A i \in 1..n : \E e \in E : Ends(g.edges[e]) = {p[i - 1], p[i]}
  BY DEF Walks
<1> HIDE DEF X, N
<1>3. 0 \in T
  BY <1>1, <1>2
<1>4. ASSUME NEW k \in T PROVE k + 1 \in T
  <2> SUFFICES ASSUME k + 1 <= n PROVE p[k + 1] \in X[k + 1]
    OBVIOUS
  <2>1. k \in Nat /\ k + 1 \in 1..n /\ (k + 1) - 1 = k /\ k <= n /\ k + 1 \in 0..N /\ k + 1 # 0
    BY <1>1 DEF N
  <2>2. PICK e \in E : Ends(g.edges[e]) = {p[k], p[k + 1]}
    BY <1>2, <2>1
  <2>3. X[k + 1] = Wider(g, E, X[k]) /\ p[k] \in X[k]
    BY <1>1, <2>1
  <2>4. p[k + 1] \in Wider(g, E, X[k])
    BY <2>2, <2>3 DEF Wider
  <2> QED BY <2>3, <2>4
<1> HIDE DEF T
<1>5. T = Nat
  <2>1. T \in SUBSET Nat
    BY DEF T
  <2> QED BY <1>3, <1>4, <2>1, InductionOverSets
<1>6. n \in Nat
  BY <1>1 DEF N
<1> QED BY <1>2, <1>5, <1>6 DEF T, X

\* What is reached is reached by a walk of no more hops.
LEMMA ReachedByWalks ==
  ASSUME NEW g, IsSnapshot(g), NEW E, E \subseteq Edges(g), NEW a \in Nodes(g)
  PROVE  \A h \in 0..Cardinality(Nodes(g)) : \A b \in Reach(g, E, a)[h] :
           \E n \in 0..h : Walks(g, E, a, b, n) # {}
<1> DEFINE N == Cardinality(Nodes(g))
           X == Reach(g, E, a)
           T == {k \in Nat : k <= N => \A b \in X[k] : \E n \in 0..k : Walks(g, E, a, b, n) # {}}
<1>1. /\ N \in Nat /\ X[0] = {a}
      /\ \A h \in 0..N : h # 0 => X[h] = Wider(g, E, X[h - 1])
  BY ReachStarts
<1> HIDE DEF X, N
<1>2. 0 \in T
  <2> DEFINE p == [i \in 0..0 |-> a]
  <2>1. p \in Walks(g, E, a, a, 0)
    BY DEF Walks
  <2> HIDE DEF p
  <2>2. 0 \in 0..0 /\ Walks(g, E, a, a, 0) # {}
    BY <2>1
  <2>3. \A b \in X[0] : \E n \in 0..0 : Walks(g, E, a, b, n) # {}
    BY <1>1, <2>2
  <2> QED BY <2>3
<1>3. ASSUME NEW k \in T PROVE k + 1 \in T
  <2> SUFFICES ASSUME k + 1 <= N, NEW b \in X[k + 1]
               PROVE  \E n \in 0..(k + 1) : Walks(g, E, a, b, n) # {}
    OBVIOUS
  <2>1. k \in Nat /\ k <= N /\ k + 1 \in 0..N /\ k + 1 # 0 /\ (k + 1) - 1 = k
    BY <1>1
  <2>2. X[k + 1] = Wider(g, E, X[k])
    BY <1>1, <2>1
  <2>3. \A c \in X[k] : \E n \in 0..k : Walks(g, E, a, c, n) # {}
    BY <2>1
  <2>4. CASE b \in X[k]
    BY <2>1, <2>3, <2>4
  <2>5. CASE b \notin X[k]
    <3>1. PICK e \in E : Ends(g.edges[e]) \cap X[k] # {} /\ b \in Ends(g.edges[e])
      BY <2>2, <2>5 DEF Wider
    <3>2. PICK c \in X[k] : Ends(g.edges[e]) = {c, b}
      BY <2>5, <3>1 DEF Ends
    <3>3. PICK n \in 0..k : Walks(g, E, a, c, n) # {}
      BY <2>3
    <3>4. PICK p \in Walks(g, E, a, c, n) : TRUE
      BY <3>3
    <3>5. b \in Nodes(g)
      BY <3>1 DEF IsSnapshot, Acceptable
    <3>6. n \in Nat /\ n + 1 \in 0..(k + 1)
      BY <2>1
    <3> DEFINE q == [i \in 0..(n + 1) |-> IF i = n + 1 THEN b ELSE p[i]]
    <3>7. p \in [0..n -> Nodes(g)] /\ p[0] = a /\ p[n] = c
          /\ \A i \in 1..n : \E x \in E : Ends(g.edges[x]) = {p[i - 1], p[i]}
      BY DEF Walks
    <3>8. q \in [0..(n + 1) -> Nodes(g)] /\ q[0] = a /\ q[n + 1] = b
      BY <3>5, <3>6, <3>7
    <3>9. ASSUME NEW i \in 1..(n + 1) PROVE \E x \in E : Ends(g.edges[x]) = {q[i - 1], q[i]}
      <4>1. CASE i = n + 1
        <5>1. q[i] = b /\ q[i - 1] = c
          BY <3>6, <3>7, <4>1
        <5> QED BY <3>2, <5>1
      <4>2. CASE i # n + 1
        <5>1. i \in 1..n /\ i - 1 \in 0..n /\ i \in 0..n
          BY <3>6, <4>2
        <5>2. q[i] = p[i] /\ q[i - 1] = p[i - 1]
          BY <3>6, <5>1
        <5> QED BY <3>7, <5>1, <5>2
      <4> QED BY <4>1, <4>2
    <3> HIDE DEF q
    <3>10. q \in Walks(g, E, a, b, n + 1)
      BY <3>8, <3>9 DEF Walks
    <3> QED BY <3>6, <3>10
  <2> QED BY <2>4, <2>5
<1> HIDE DEF T
<1>4. T = Nat
  <2>1. T \in SUBSET Nat
    BY DEF T
  <2> QED BY <1>2, <1>3, <2>1, InductionOverSets
<1> QED BY <1>1, <1>4 DEF T, X, N

\* A walk stays among what is reached, however long it is.
LEMMA WalksStayReached ==
  ASSUME NEW g, IsSnapshot(g), NEW E, E \subseteq Edges(g), NEW a \in Nodes(g), NEW b,
         NEW n \in Nat, NEW p \in Walks(g, E, a, b, n)
  PROVE  b \in Reach(g, E, a)[Cardinality(Nodes(g))]
<1> DEFINE B == Reach(g, E, a)[Cardinality(Nodes(g))]
<1>1. Closed(g, E, B)
  BY LastBallIsClosed
<1>2. a \in B
  <2>1. Cardinality(Nodes(g)) \in 0..Cardinality(Nodes(g))
    BY ReachStarts
  <2> QED BY <2>1, BallsStay
<1>3. /\ p[0] = a /\ p[n] = b
      /\ \A i \in 1..n : \E e \in E : Ends(g.edges[e]) = {p[i - 1], p[i]}
  BY DEF Walks
<1> HIDE DEF B
<1>4. p[0] \in B <=> p[n] \in B
  BY <1>1, <1>3, WalksStay
<1> QED BY <1>2, <1>3, <1>4 DEF B

\* A path is found exactly when both ends are energized and a walk over energized assets leads
\* from one to the other, and no such walk is shorter than the path (electrical_path).
THEOREM ShortestPathsAreFound ==
  ASSUME NEW g \in Snapshots, NEW a \in Nodes(g), NEW b \in Nodes(g)
  PROVE  /\ Paths(g, a, b) # {} <=>
              /\ Energized(g, a) /\ Energized(g, b)
              /\ \E n \in Nat : Walks(g, Conducting(g), a, b, n) # {}
         /\ \A p \in Paths(g, a, b) :
              \E d \in Nat : /\ p \in Walks(g, Conducting(g), a, b, d)
                             /\ \A n \in Nat : Walks(g, Conducting(g), a, b, n) # {} => d <= n
<1> DEFINE N == Cardinality(Nodes(g))
           D == Distance(g, a, b)
           C == Conducting(g)
<1>1. IsSnapshot(g) /\ N \in Nat /\ N \in 0..N /\ C \subseteq Edges(g)
  <2>1. IsSnapshot(g)
    BY SnapshotsAssumption
  <2>2. N \in Nat
    BY <2>1, ReachStarts
  <2>3. C \subseteq Edges(g)
    BY DEF Conducting, InService
  <2> QED BY <2>1, <2>2, <2>3
<1> HIDE DEF C
<1>2. \A h \in 0..N : Ball(g, C, a, h) = Reach(g, C, a)[h]
  BY <1>1 DEF Ball
<1>3. Paths(g, a, b) = IF Energized(g, a) /\ Energized(g, b) /\ b \in Reach(g, C, a)[N]
                       THEN Walks(g, C, a, b, D) ELSE {}
  BY <1>1, <1>2 DEF Paths, Walks, C
<1>4. ASSUME b \in Reach(g, C, a)[N]
      PROVE  /\ D \in Nat /\ Walks(g, C, a, b, D) # {}
             /\ \A n \in Nat : Walks(g, C, a, b, n) # {} => D <= n
  <2>1. /\ D \in 0..N /\ b \in Reach(g, C, a)[D]
        /\ \A k \in 0..(D - 1) : b \notin Reach(g, C, a)[k]
    <3>1. b \in Ball(g, C, a, N)
      BY <1>1, <1>2, <1>4
    <3>2. /\ D \in 0..N /\ b \in Ball(g, C, a, D)
          /\ \A k \in 0..(D - 1) : b \notin Ball(g, C, a, k)
      BY <1>1, <3>1, DistanceIsLeast DEF C
    <3>3. \A k \in 0..(D - 1) : k \in 0..N
      BY <1>1, <3>2
    <3> QED BY <1>2, <3>2, <3>3
  <2> HIDE DEF D, N
  <2>2. ASSUME NEW n \in Nat, Walks(g, C, a, b, n) # {} PROVE D <= n
    <3> SUFFICES ASSUME n < D PROVE FALSE
      BY <1>1, <2>1
    <3>1. n \in 0..N /\ n \in 0..(D - 1)
      BY <1>1, <2>1
    <3>2. PICK p \in Walks(g, C, a, b, n) : TRUE
      BY <2>2
    <3>3. b \in Reach(g, C, a)[n]
      BY <1>1, <3>1, <3>2, WalksAreReached DEF N
    <3> QED BY <2>1, <3>1, <3>3
  <2>3. PICK n \in 0..D : Walks(g, C, a, b, n) # {}
    BY <1>1, <2>1, ReachedByWalks DEF N
  <2>4. D \in Nat /\ n \in Nat /\ n = D
    BY <1>1, <2>1, <2>2, <2>3
  <2> QED BY <2>2, <2>3, <2>4
<1>5. ASSUME NEW n \in Nat, Walks(g, C, a, b, n) # {} PROVE b \in Reach(g, C, a)[N]
  BY <1>1, <1>5, WalksStayReached
<1> HIDE DEF D, N
<1> QED BY <1>3, <1>4, <1>5 DEF C

\* Nothing is cut off from what the limit has room for.
LEMMA FirstOfAll ==
  ASSUME NEW S \in SUBSET Nat, IsFiniteSet(S), NEW limit \in Nat, Cardinality(S) <= limit
  PROVE  FirstOf(S, limit) = S
<1>1. ASSUME NEW x \in S PROVE Cardinality({y \in S : y < x}) < limit
  <2> DEFINE R == {y \in S : y < x}
  <2>1. R \in SUBSET S /\ R # S
    OBVIOUS
  <2> HIDE DEF R
  <2>2. IsFiniteSet(R) /\ Cardinality(R) <= Cardinality(S) /\ Cardinality(R) # Cardinality(S)
    BY <2>1, FS_Subset
  <2>3. Cardinality(R) \in Nat /\ Cardinality(S) \in Nat
    BY <2>2, FS_CardinalityType
  <2>4. Cardinality(R) < limit
    BY <2>2, <2>3
  <2> QED BY <2>4 DEF R
<1> QED BY <1>1 DEF FirstOf

\* The answers to both queries, side by side.
LEMMA NeighborhoodAndImpact ==
  ASSUME NEW g, IsSnapshot(g), NEW a \in Nodes(g), NEW h \in Nat, NEW limit \in Nat
  PROVE  LET near == Neighborhood(g, a, h, limit)
             impact == Impact(g, a, h, limit)
             attached == {e \in Edges(g) : a \in Ends(g.edges[e])} IN
         /\ ~near.truncated => Shows(near, Near(g, a, h), Among(g, Near(g, a, h)))
         /\ ~near.truncated => Shows(impact, near.assets \ {a}, near.edges \ attached)
         /\ near.total = impact.total + 1
<1> DEFINE S == Near(g, a, h)
           R == Among(g, S)
           U == Affected(g, a, h)
           V == Among(g, U)
           attached == {e \in Edges(g) : a \in Ends(g.edges[e])}
<1>1. a \in S /\ S \subseteq Nodes(g)
  BY NearStays DEF Near
<1>2. S \in SUBSET Nat /\ IsFiniteSet(S)
  <2>1. S \in SUBSET Nodes(g)
    BY <1>1
  <2> HIDE DEF S
  <2> QED BY <2>1, FS_Subset DEF IsSnapshot
<1>3. U = S \ {a}
  BY DEF Affected
<1>4. R \in SUBSET Nat /\ IsFiniteSet(R)
  <2>1. R \in SUBSET Edges(g)
    BY DEF Among
  <2> HIDE DEF R
  <2> QED BY <2>1, FS_Subset DEF IsSnapshot
<1>5. V = R \ attached
  BY <1>3 DEF Among
<1> HIDE DEF S, R, U, V, attached
<1>6. IsFiniteSet(U) /\ Cardinality(U) = Cardinality(S) - 1 /\ U \subseteq S
  BY <1>1, <1>2, <1>3, FS_RemoveElement
<1>7. IsFiniteSet(V) /\ Cardinality(V) <= Cardinality(R) /\ V \subseteq R
  <2>1. V \in SUBSET R
    BY <1>5
  <2> QED BY <1>4, <2>1, FS_Subset
<1>8. Cardinality(S) \in Nat /\ Cardinality(R) \in Nat /\ Cardinality(U) \in Nat /\ Cardinality(V) \in Nat
  BY <1>2, <1>4, <1>6, <1>7, FS_CardinalityType
<1> DEFINE near == Neighborhood(g, a, h, limit)
           impact == Impact(g, a, h, limit)
<1>9. /\ near.assets = FirstOf(S, limit) \cap Nodes(g)
      /\ near.edges = FirstOf(R, limit)
      /\ near.total = Cardinality(S)
      /\ near.truncated = Exceeds(S, R, limit)
  BY DEF Neighborhood, Answer, S, R
<1>10. /\ impact.assets = FirstOf(U, limit) \cap Nodes(g)
       /\ impact.edges = FirstOf(V, limit)
       /\ impact.total = Cardinality(U)
  BY DEF Impact, Answer, U, V
<1>11. near.total = impact.total + 1
  BY <1>6, <1>8, <1>9, <1>10
<1>12. ASSUME ~near.truncated
       PROVE  /\ near.assets = S /\ near.edges = R
              /\ impact.assets = U /\ impact.edges = V
  <2>1. Cardinality(S) <= limit /\ Cardinality(R) <= limit
    <3>1. ~Exceeds(S, R, limit)
      BY <1>9, <1>12, Zenon
    <3> QED BY <1>8, <3>1 DEF Exceeds
  <2>2. Cardinality(U) <= limit /\ Cardinality(V) <= limit
    BY <1>6, <1>7, <1>8, <2>1
  <2>3. FirstOf(S, limit) = S /\ FirstOf(R, limit) = R
    BY <1>2, <1>4, <2>1, FirstOfAll
  <2>4. U \in SUBSET Nat /\ V \in SUBSET Nat
    BY <1>2, <1>4, <1>6, <1>7
  <2>5. FirstOf(U, limit) = U /\ FirstOf(V, limit) = V
    BY <1>6, <1>7, <2>2, <2>4, FirstOfAll
  <2>6. S \cap Nodes(g) = S /\ U \cap Nodes(g) = U
    BY <1>1, <1>6
  <2> QED BY <1>9, <1>10, <2>3, <2>5, <2>6
<1> HIDE DEF near, impact
<1>13. ~near.truncated => Shows(near, S, R)
  BY <1>12 DEF Shows
<1>14. ~near.truncated => Shows(impact, near.assets \ {a}, near.edges \ attached)
  BY <1>3, <1>5, <1>12 DEF Shows
<1> QED BY <1>11, <1>13, <1>14 DEF near, impact, S, R, attached

\* What the queries answer agrees with each other and with the graph, for any graph that
\* was stored (neighborhood, impact, connected_components, electrical_path, _result).
THEOREM QueriesAlwaysAgree == TopologyInit => QueriesAgree
<1> SUFFICES ASSUME TopologyInit, "snapshot" \in DOMAIN asked PROVE QueriesAgree
  BY DEF QueriesAgree
<1> DEFINE g == asked.snapshot
<1>1. IsSnapshot(g)
  BY SnapshotsAssumption DEF TopologyInit
<1>2. 1..2 \subseteq Nat /\ 1..3 \subseteq Nat
  OBVIOUS
<1> HIDE DEF g
<1>3. ASSUME NEW a \in Nodes(g), NEW h \in 1..2, NEW limit \in 1..3
      PROVE  LET near == Neighborhood(g, a, h, limit)
                 impact == Impact(g, a, h, limit)
                 attached == {e \in Edges(g) : a \in Ends(g.edges[e])} IN
             /\ ~near.truncated => Shows(near, Near(g, a, h), Among(g, Near(g, a, h)))
             /\ ~near.truncated => Shows(impact, near.assets \ {a}, near.edges \ attached)
             /\ near.total = impact.total + 1
  <2>1. h \in Nat /\ limit \in Nat
    OBVIOUS
  <2> QED BY <1>1, <2>1, NeighborhoodAndImpact
<1>4. ASSUME NEW a \in Nodes(g), NEW b \in Nodes(g) \ {a}, NEW p \in Paths(g, a, b)
      PROVE  /\ Component(g, a) = Component(g, b)
             /\ \A n \in DOMAIN p : g.assets[p[n]] = "in"
             /\ \A h \in 1..2 : b \in Near(g, a, h) \/ h \in DOMAIN p
  BY <1>1, <1>2, EndsAreConnected
<1> QED BY <1>3, <1>4 DEF QueriesAgree, g
=============================================================================
