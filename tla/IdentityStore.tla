--------------------------- MODULE IdentityStore ---------------------------
(***************************************************************************)
(* Product identities and the places they were found at:                   *)
(* persistence/identity_store.py over the tables of migration 9.  create() *)
(* is one transaction; rebind(), tombstone() and mark_unresolved() read    *)
(* the identity on a connection of their own, decide, and write in a later *)
(* transaction that does not look again.                                   *)
(*                                                                         *)
(* Abstractions.  A locator signature is the place it digests; identities  *)
(* and locator versions, uuids in the code, are numbered as they are made. *)
(* A rebind keeps class and provenance (LocatorRebind), which the places   *)
(* stand for.  Evidence references and times are left out.                 *)
(***************************************************************************)
EXTENDS Naturals, Sequences, FiniteSets

CONSTANTS Places,       \* what a locator signature tells apart
          Curators,     \* threads that change identities
          MaxVersions,  \* bound: locator versions
          MaxEvents     \* bound: lifecycle events

VARIABLES products,    \* identity_products: state and current locator version
          locators,    \* identity_locators: version -> identity, place, what it replaced
          events,      \* identity_lifecycle_events
          tombstones,  \* identity_tombstones
          decided,     \* what each thread is about to write
          raced        \* history: identities written on a decision that was stale

identityVars == <<products, locators, events, tombstones, decided, raced>>

States == {"active", "unresolved", "tombstoned"}
Identities == DOMAIN products
Undecided == [op |-> "none", identity |-> 0, place |-> 0, prior |-> 0, stale |-> FALSE]

IdentityInit == /\ products = <<>>
                /\ locators = <<>>
                /\ events = <<>>
                /\ tombstones = {}
                /\ decided = [c \in Curators |-> Undecided]
                /\ raced = {}

Live(i) == products[i].state # "tombstoned"

\* The identities a place was ever a locator of.
BoundTo(place) == {locators[v].identity : v \in {u \in DOMAIN locators : locators[u].place = place}}

\* Fault: an identity that is not resolved does not count.
ActiveAt(place) == {i \in BoundTo(place) : products[i].state = "active"}

\* What create() finds in the way.
Conflicts(place) == {i \in BoundTo(place) : Live(i)}

\* resolve_exact(): none is "not found", several are "ambiguous".
Resolves(place) == {i \in BoundTo(place) : products[i].state = "active"}

Create(place) ==
  LET i == Len(products) + 1
      v == Len(locators) + 1 IN
  /\ Conflicts(place) = {}
  /\ v <= MaxVersions
  /\ products' = Append(products, [state |-> "active", current |-> v])
  /\ locators' = Append(locators, [identity |-> i, place |-> place, prior |-> 0])
  /\ events' = Append(events, [identity |-> i, state |-> "active"])
  /\ UNCHANGED <<tombstones, decided, raced>>

-----------------------------------------------------------------------------
\* The read of the three operations: get(), and what makes them refuse.
Decides(c, op, i, place, prior) ==
  /\ decided[c] = Undecided
  /\ decided' = [decided EXCEPT ![c] = [op |-> op, identity |-> i, place |-> place,
                                        prior |-> prior, stale |-> FALSE]]
  /\ UNCHANGED <<products, locators, events, tombstones, raced>>

\* The prior locator of the request is the current one.
PriorIsCurrent(i, prior) == prior = products[i].current

\* Fault: a tombstone does not count.
AnyMayChange(i) == TRUE

MayChange(i) == Live(i)

DecideRebind(c, i, prior, place) == /\ MayChange(i)
                                    /\ PriorIsCurrent(i, prior)
                                    /\ Decides(c, "rebind", i, place, prior)
DecideTombstone(c, i) == Live(i) /\ Decides(c, "tombstone", i, 0, 0)
DecideUnresolved(c, i) == MayChange(i) /\ Decides(c, "unresolved", i, 0, 0)

\* Every write of an identity makes other decisions about it stale.
Written(c, i, state, current) ==
  /\ Len(events) < MaxEvents
  /\ products' = [products EXCEPT ![i] = [state |-> state, current |-> current]]
  /\ events' = Append(events, [identity |-> i, state |-> state])
  /\ decided' = [d \in Curators |->
                   IF d = c THEN Undecided
                   ELSE [decided[d] EXCEPT !.stale = @ \/ decided[d].identity = i]]
  /\ raced' = IF decided[c].stale THEN raced \cup {i} ELSE raced

WriteRebind(c) ==
  LET d == decided[c]
      v == Len(locators) + 1 IN
  /\ d.op = "rebind"
  /\ v <= MaxVersions
  /\ Written(c, d.identity, "active", v)
  /\ locators' = Append(locators, [identity |-> d.identity, place |-> d.place,
                                   prior |-> d.prior])
  /\ UNCHANGED tombstones

\* The tombstone's row is the identity's only one: a second is rolled back.
WriteTombstone(c) ==
  LET i == decided[c].identity IN
  /\ decided[c].op = "tombstone"
  /\ IF i \in tombstones
     THEN /\ decided' = [decided EXCEPT ![c] = Undecided]
          /\ UNCHANGED <<products, events, tombstones, raced>>
     ELSE /\ Written(c, i, "tombstoned", products[i].current)
          /\ tombstones' = tombstones \cup {i}
  /\ UNCHANGED locators

\* _transition().
WriteUnresolved(c) ==
  LET i == decided[c].identity IN
  /\ decided[c].op = "unresolved"
  /\ Written(c, i, "unresolved", products[i].current)
  /\ UNCHANGED <<locators, tombstones>>

CuratorStep(c) ==
  \/ \E i \in Identities :
       \/ \E prior \in DOMAIN locators, place \in Places : DecideRebind(c, i, prior, place)
       \/ DecideTombstone(c, i)
       \/ DecideUnresolved(c, i)
  \/ WriteRebind(c) \/ WriteTombstone(c) \/ WriteUnresolved(c)

IdentityNext == (\E place \in Places : Create(place)) \/ (\E c \in Curators : CuratorStep(c))

IdentitySpec == IdentityInit /\ [][IdentityNext]_identityVars

-----------------------------------------------------------------------------
EventsOf(i) == {n \in DOMAIN events : events[n].identity = i}

\* Types, and that products and locator versions refer to each other.
IdentityTypeOK ==
  /\ \A i \in Identities : /\ products[i].state \in States
                           /\ products[i].current \in DOMAIN locators
                           /\ locators[products[i].current].identity = i
  /\ tombstones \subseteq Identities
  /\ raced \subseteq Identities
  /\ \A c \in Curators : decided[c].op # "none" => decided[c].identity \in Identities

\* A new identity is made at a place an identity was ever found at only when
\* that one is tombstoned: recreation at the same path needs a proven deletion
\* (create, the comment over migration 9).
RecreationNeedsProof ==
  \A v, w \in DOMAIN locators :
    /\ v < w
    /\ locators[w].prior = 0
    /\ locators[v].place = locators[w].place
    => locators[v].identity \in tombstones

\* A history ends in the state its identity has, and what is tombstoned stays so,
\* unless two threads changed the identity at once.
NeverResurrected ==
  /\ \A i \in Identities, n \in DOMAIN events :
       n \in EventsOf(i) /\ (\A m \in EventsOf(i) : m <= n) => events[n].state = products[i].state
  /\ \A i \in tombstones : Live(i) => i \in raced

\* Each locator version replaces the one that was current, with the same premise.
RebindsSucceed ==
  \A v \in DOMAIN locators :
    LET i == locators[v].identity IN
    locators[v].prior # 0 /\ i \notin raced =>
      /\ locators[locators[v].prior].identity = i
      /\ \A u \in (locators[v].prior + 1)..(v - 1) : locators[u].identity # i

\* The lifecycle of an identity and the versions of its locator are one line of
\* succession that ends with a tombstone: only a decision that was read before
\* another thread wrote can fork the line or resurrect what is tombstoned
\* (rebind, tombstone, _transition read outside of the transaction that writes).
HistoryIsLinear == NeverResurrected /\ RebindsSucceed
=============================================================================
