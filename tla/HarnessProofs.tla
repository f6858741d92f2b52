---------------------------- MODULE HarnessProofs ----------------------------
(***************************************************************************)
(* LedgerUndoes of HeadlineHarness, for any targets, values, workflows,    *)
(* other writers and bounds.                                               *)
(*                                                                         *)
(* What a rollback overwrites was drawn up before others wrote, called or  *)
(* rolled back too; HarnessInv says what a document that is drawn up       *)
(* (DrawnUp) and an effect (EffectTold) still tell of the ledger, on what  *)
(* an effect was spent (Spent), and how the entries of the ledger are      *)
(* numbered among the effects (LedgerTold).                                *)
(***************************************************************************)
EXTENDS HeadlineHarness, FiniteSetTheorems, SequenceTheorems, TLAPS

IsSequence(s) == \E S : s \in Seq(S)

DocumentFields == {"kind", "workflow", "version", "workspace", "changes", "change",
                   "conflicts", "fingerprint"}

\* A rollback is drawn up from what the ledger has of its change; if nothing conflicted,
\* the fingerprint has the values that the change wrote.
Undoes(d) ==
  /\ d.change \in DOMAIN applied
  /\ LET done == applied[d.change].changes IN
     /\ DOMAIN d.changes = DOMAIN done
     /\ \A i \in DOMAIN done : /\ d.changes[i].target = done[i].target
                               /\ d.changes[i].after = done[i].before
                               /\ d.conflicts = {} =>
                                    d.fingerprint[done[i].target] = done[i].after

OnTargets(changes) == IsSequence(changes) /\ TargetsOf(changes) \subseteq Targets

DrawnUp(d) ==
  /\ DOMAIN d = DocumentFields
  /\ d.workflow \in Lineages /\ d.version \in Nat
  /\ OnTargets(d.changes)
  /\ \/ d.kind = "change" /\ Len(d.changes) \in 1..2
     \/ d.kind = "rollback" /\ Undoes(d)

\* What an effect tells: a change overwrote the values it names as those before; a
\* rollback overwrote what the ledger has, and wrote what was there before.
ChangeTold(w) ==
  /\ DOMAIN w.overwrote = TargetsOf(w.changes)
  /\ \A i \in DOMAIN w.changes : w.overwrote[w.changes[i].target] = w.changes[i].before
UndoingTold(w) ==
  /\ w.recorded /\ w.change \in DOMAIN applied
  /\ LET done == applied[w.change].changes IN
     /\ DOMAIN w.changes = DOMAIN done
     /\ DOMAIN w.overwrote = TargetsOf(done)
     /\ \A i \in DOMAIN done : /\ w.overwrote[done[i].target] = done[i].after
                               /\ w.changes[i].target = done[i].target
                               /\ w.changes[i].after = done[i].before
EffectTold(w) == \/ w.kind = "change" /\ ChangeTold(w)
                 \/ w.kind = "rollback" /\ UndoingTold(w)

\* The recorded changes, numbered in their order.
RecordedChanges == Recorded \ Undoings
Rank(e) == Cardinality({f \in RecordedChanges : f <= e})

Shaped == /\ IsSequence(authorizations) /\ IsSequence(applied) /\ IsSequence(writings)
          /\ interruptAfter \in Nat /\ counters \in [Lineages -> Nat]
          /\ \A x \in DOMAIN authorizations : DOMAIN authorizations[x] = {"document", "state"}
          /\ \A n \in DOMAIN applied : OnTargets(applied[n].changes)

Authorized == {authorizations[x].document : x \in DOMAIN authorizations}
Documents == Authorized \cup {d \in {draft} : d.kind # "none"}
Effects == {writings[e] : e \in DOMAIN writings}

\* An authorization is spent on one effect, of which the version is used up if it is
\* recorded; if it is not, the document clashes with itself.
SelfClashing == {d \in Authorized : Clashes(d.changes) # {}}
Spent == \A e \in DOMAIN writings : LET w == writings[e] IN
  /\ w.authorization \in DOMAIN authorizations
  /\ authorizations[w.authorization].state = "consumed"
  /\ IF w.recorded THEN w.workflow \in Lineages /\ w.version \in Nat
                        /\ w.version < counters[w.workflow]
     ELSE authorizations[w.authorization].document \in SelfClashing

LedgerTold ==
  /\ Len(applied) = Cardinality(RecordedChanges)
  /\ \A n \in DOMAIN applied : \E e \in RecordedChanges : Rank(e) = n
  /\ \A e \in RecordedChanges : /\ Rank(e) \in DOMAIN applied
                                /\ applied[Rank(e)].changes = writings[e].changes

HarnessInv == /\ Shaped /\ Spent /\ EffectsAreSingle
              /\ \A d \in Documents : DrawnUp(d)
              /\ \A w \in Effects : EffectTold(w)
              /\ LedgerTold

-----------------------------------------------------------------------------
\* Sequences of whatever elements.
LEMMA Appended ==
  ASSUME NEW s, IsSequence(s), NEW r
  PROVE  /\ IsSequence(Append(s, r))
         /\ Len(s) \in Nat /\ DOMAIN s = 1..Len(s) /\ Len(s) + 1 \notin DOMAIN s
         /\ Len(Append(s, r)) = Len(s) + 1
         /\ DOMAIN Append(s, r) = DOMAIN s \cup {Len(s) + 1}
         /\ \A n \in DOMAIN s : Append(s, r)[n] = s[n]
         /\ Append(s, r)[Len(s) + 1] = r
<1>1. PICK S : s \in Seq(S)
  BY DEF IsSequence
<1>2. s \in Seq(S \cup {r})
  BY <1>1
<1>3. /\ Append(s, r) \in Seq(S \cup {r})
      /\ Len(s) \in Nat /\ DOMAIN s = 1..Len(s)
      /\ Len(Append(s, r)) = Len(s) + 1
      /\ DOMAIN Append(s, r) = 1..(Len(s) + 1)
      /\ \A n \in 1..Len(s) : Append(s, r)[n] = s[n]
      /\ Append(s, r)[Len(s) + 1] = r
  BY <1>2
<1>4. 1..(Len(s) + 1) = 1..Len(s) \cup {Len(s) + 1} /\ Len(s) + 1 \notin 1..Len(s)
  BY <1>3
<1>5. IsSequence(Append(s, r))
  BY <1>3 DEF IsSequence
<1> QED BY <1>3, <1>4, <1>5

LEMMA Prefix ==
  ASSUME NEW s, IsSequence(s), NEW n \in 0..Len(s)
  PROVE  /\ IsSequence(SubSeq(s, 1, n))
         /\ DOMAIN SubSeq(s, 1, n) = 1..n /\ 1..n \subseteq DOMAIN s
         /\ \A i \in 1..n : SubSeq(s, 1, n)[i] = s[i]
<1>1. PICK S : s \in Seq(S)
  BY DEF IsSequence
<1>2. Len(s) \in Nat /\ DOMAIN s = 1..Len(s) /\ n \in Nat
  BY <1>1
<1>3. /\ SubSeq(s, 1, n) \in Seq(S)
      /\ Len(SubSeq(s, 1, n)) = n
      /\ \A i \in 1..n : SubSeq(s, 1, n)[i] = s[i]
  BY <1>1, <1>2
<1>4. DOMAIN SubSeq(s, 1, n) = 1..n
  BY <1>3
<1>5. IsSequence(SubSeq(s, 1, n))
  BY <1>3 DEF IsSequence
<1> QED BY <1>2, <1>3, <1>4, <1>5

LEMMA Listed ==
  ASSUME NEW n \in Nat, NEW s, s = [i \in 1..n |-> s[i]]
  PROVE  IsSequence(s) /\ Len(s) = n
<1> DEFINE S == {s[i] : i \in 1..n}
<1>1. s \in [1..n -> S]
  OBVIOUS
<1>2. s \in Seq(S) /\ Len(s) = n
  BY <1>1
<1> QED BY <1>2 DEF IsSequence

-----------------------------------------------------------------------------
\* The entries of the ledger stay as they are.
LedgerStays == \A n \in DOMAIN applied : n \in DOMAIN applied' /\ applied'[n] = applied[n]

LEMMA DrawnUpStays ==
  ASSUME LedgerStays, NEW d, DrawnUp(d)
  PROVE  DrawnUp(d)'
<1>1. Undoes(d) => Undoes(d)'
  BY DEF LedgerStays, Undoes
<1> QED BY <1>1 DEF DrawnUp, OnTargets, TargetsOf

LEMMA EffectStays ==
  ASSUME LedgerStays, NEW w, EffectTold(w)
  PROVE  EffectTold(w)'
<1>1. UndoingTold(w) => UndoingTold(w)'
  BY DEF LedgerStays, UndoingTold, TargetsOf
<1>2. ChangeTold(w) => ChangeTold(w)'
  BY DEF ChangeTold, TargetsOf
<1> QED BY <1>1, <1>2 DEF EffectTold

\* There are finitely many effects.
LEMMA ChangesFinite ==
  ASSUME Shaped, NEW T \in SUBSET DOMAIN writings
  PROVE  IsFiniteSet(T) /\ Cardinality(T) \in Nat
<1>1. Len(writings) \in Nat /\ DOMAIN writings = 1..Len(writings)
  BY Appended DEF Shaped
<1>2. IsFiniteSet(DOMAIN writings)
  BY <1>1, FS_Interval
<1>3. IsFiniteSet(T)
  BY <1>2, FS_Subset
<1> QED BY <1>3, FS_CardinalityType

\* Recorded changes are ranked one after the other.
LEMMA RanksDiffer ==
  ASSUME Shaped, NEW e \in RecordedChanges, NEW f \in RecordedChanges, Rank(e) = Rank(f)
  PROVE  e = f
<1>1. RecordedChanges \subseteq DOMAIN writings
  BY DEF RecordedChanges, Recorded
<1>2. e \in Nat /\ f \in Nat /\ \A h \in DOMAIN writings : h \in Nat
  <2>1. Len(writings) \in Nat /\ DOMAIN writings = 1..Len(writings)
    BY Appended DEF Shaped
  <2> QED BY <1>1, <2>1
<1>3. ASSUME NEW a \in RecordedChanges, NEW b \in RecordedChanges, a < b, Rank(a) = Rank(b)
      PROVE  FALSE
  <2> DEFINE A == {h \in RecordedChanges : h <= a}
             B == {h \in RecordedChanges : h <= b}
  <2>1. a \in Nat /\ b \in Nat /\ \A h \in RecordedChanges : h \in Nat
    BY <1>1, <1>2
  <2>2. A \subseteq B
    <3> SUFFICES ASSUME NEW h \in A PROVE h \in B
      OBVIOUS
    <3>1. h \in RecordedChanges /\ h <= a /\ h \in Nat
      BY <2>1
    <3> QED BY <1>3, <2>1, <3>1
  <2>3. b \in B /\ b \notin A
    BY <1>3, <2>1
  <2>4. IsFiniteSet(B)
    BY <1>1, ChangesFinite
  <2>5. Cardinality(A) = Cardinality(B)
    BY <1>3 DEF Rank
  <2> HIDE DEF A, B
  <2>6. A = B
    BY <2>2, <2>4, <2>5, FS_Subset
  <2> QED BY <2>3, <2>6
<1>4. e < f \/ f < e \/ e = f
  BY <1>2
<1> QED BY <1>3, <1>4

\* A step that draws up a document, or in which others write.
LEMMA DraftKeeps ==
  ASSUME HarnessInv, UNCHANGED <<counters, authorizations, applied, writings>>,
         interruptAfter' \in Nat, NEW d, draft' = d, d.kind # "none" => DrawnUp(d)
  PROVE  HarnessInv'
<1>1. LedgerStays
  BY DEF LedgerStays
<1>2. Shaped'
  BY DEF HarnessInv, Shaped, OnTargets, TargetsOf, IsSequence
<1>3. ASSUME NEW c \in Documents' PROVE DrawnUp(c)'
  <2>1. DrawnUp(c)
    BY DEF HarnessInv, Documents, Authorized
  <2> QED BY <1>1, <2>1, DrawnUpStays
<1>4. ASSUME NEW w \in Effects' PROVE EffectTold(w)'
  <2>1. EffectTold(w)
    BY DEF HarnessInv, Effects
  <2> QED BY <1>1, <2>1, EffectStays
<1>5. EffectsAreSingle' /\ Spent'
  <2>1. EffectsAreSingle'
    BY DEF HarnessInv, EffectsAreSingle, Recorded
  <2>2. SelfClashing' = SelfClashing
    BY DEF SelfClashing, Authorized
  <2>3. Spent'
    BY <2>2 DEF HarnessInv, Spent
  <2> QED BY <2>1, <2>3
<1>6. LedgerTold'
  <2>1. RecordedChanges' = RecordedChanges
    BY DEF RecordedChanges, Recorded, Undoings
  <2>2. \A e : Rank(e)' = Rank(e)
    BY <2>1 DEF Rank
  <2> QED BY <2>1, <2>2 DEF HarnessInv, LedgerTold
<1> QED BY <1>2, <1>3, <1>4, <1>5, <1>6 DEF HarnessInv

\* An authorization is registered for a document that was drawn up.
LEMMA RegistersKeeps ==
  ASSUME HarnessInv, NEW d, DrawnUp(d), Registers(d), draft' = draft \/ draft' = NoDocument
  PROVE  HarnessInv'
<1>1. PICK r : r = [document |-> d, state |-> "registered"]
  OBVIOUS
<1>2. /\ authorizations' = Append(authorizations, r)
      /\ counters' = [counters EXCEPT ![d.workflow] = IF @ = 0 THEN d.version ELSE @]
      /\ UNCHANGED <<applied, interruptAfter, writings>>
  BY <1>1 DEF Registers
<1>3. /\ IsSequence(authorizations')
      /\ DOMAIN authorizations' = DOMAIN authorizations \cup {Len(authorizations) + 1}
      /\ \A x \in DOMAIN authorizations : authorizations'[x] = authorizations[x]
      /\ authorizations'[Len(authorizations) + 1] = r
  BY <1>2, Appended DEF HarnessInv, Shaped
<1>4. LedgerStays
  BY <1>2 DEF LedgerStays
<1>5. /\ counters' \in [Lineages -> Nat]
      /\ \A l \in Lineages : counters[l] # 0 => counters'[l] = counters[l]
  BY <1>2 DEF HarnessInv, Shaped, DrawnUp
<1>6. Shaped'
  <2>1. \A x \in DOMAIN authorizations' : DOMAIN authorizations'[x] = {"document", "state"}
    <3>1. DOMAIN r = {"document", "state"}
      BY <1>1
    <3> QED BY <1>3, <3>1 DEF HarnessInv, Shaped
  <2>2. \A n \in DOMAIN applied' : OnTargets(applied[n].changes)'
    BY <1>2 DEF HarnessInv, Shaped, OnTargets, TargetsOf, IsSequence
  <2>3. IsSequence(applied)' /\ IsSequence(writings)' /\ interruptAfter' \in Nat
    BY <1>2 DEF HarnessInv, Shaped, IsSequence
  <2>4. IsSequence(authorizations)'
    BY <1>3 DEF IsSequence
  <2> QED BY <1>5, <2>1, <2>2, <2>3, <2>4 DEF Shaped
<1>7. ASSUME NEW c \in Documents' PROVE DrawnUp(c)'
  <2>1. c = d \/ c \in Documents
    BY <1>1, <1>3 DEF Documents, Authorized, NoDocument
  <2>2. DrawnUp(c)
    BY <2>1 DEF HarnessInv
  <2> QED BY <1>4, <2>2, DrawnUpStays
<1>8. ASSUME NEW w \in Effects' PROVE EffectTold(w)'
  <2>1. EffectTold(w)
    BY <1>2 DEF HarnessInv, Effects
  <2> QED BY <1>4, <2>1, EffectStays
<1>9. EffectsAreSingle'
  BY <1>2 DEF HarnessInv, EffectsAreSingle, Recorded
<1>10. Spent'
  <2> SUFFICES ASSUME NEW e \in DOMAIN writings, NEW w, w = writings[e]
               PROVE  /\ w.authorization \in DOMAIN authorizations'
                      /\ authorizations'[w.authorization].state = "consumed"
                      /\ IF w.recorded THEN w.workflow \in Lineages /\ w.version \in Nat
                                            /\ w.version < counters'[w.workflow]
                         ELSE authorizations'[w.authorization].document \in SelfClashing'
    BY <1>2 DEF Spent
  <2>1. /\ w.authorization \in DOMAIN authorizations
        /\ authorizations[w.authorization].state = "consumed"
        /\ IF w.recorded THEN w.workflow \in Lineages /\ w.version \in Nat
                              /\ w.version < counters[w.workflow]
           ELSE authorizations[w.authorization].document \in SelfClashing
    BY DEF HarnessInv, Spent
  <2>2. /\ authorizations'[w.authorization] = authorizations[w.authorization]
        /\ w.authorization \in DOMAIN authorizations'
    BY <1>3, <2>1
  <2>3. CASE w.recorded
    <3>1. counters[w.workflow] # 0
      <4>1. counters[w.workflow] \in Nat
        BY <2>1, <2>3 DEF HarnessInv, Shaped
      <4> QED BY <2>1, <2>3, <4>1
    <3>2. counters'[w.workflow] = counters[w.workflow]
      BY <1>5, <2>1, <2>3, <3>1
    <3> QED BY <2>1, <2>2, <2>3, <3>2
  <2>4. CASE ~w.recorded
    <3>1. SelfClashing \subseteq SelfClashing'
      BY <1>3 DEF SelfClashing, Authorized
    <3> QED BY <2>1, <2>2, <2>4, <3>1
  <2> QED BY <2>3, <2>4
<1>11. LedgerTold'
  <2>1. RecordedChanges' = RecordedChanges
    BY <1>2 DEF RecordedChanges, Recorded, Undoings
  <2>2. \A e : Rank(e)' = Rank(e)
    BY <2>1 DEF Rank
  <2> QED BY <1>2, <2>1, <2>2 DEF HarnessInv, LedgerTold
<1> QED BY <1>2, <1>6, <1>7, <1>8, <1>9, <1>10, <1>11 DEF HarnessInv

-----------------------------------------------------------------------------
\* An effect w on an authorization that was not spent.  A recorded one uses up the version
\* of its workflow; a recorded change has an entry r in the ledger.
Writes(x, w) ==
  /\ authorizations[x].state = "registered"
  /\ authorizations' = Reserve(x)
  /\ writings' = Append(writings, w)
  /\ draft' = draft
  /\ interruptAfter' \in Nat
  /\ w.authorization = x /\ w.kind \in {"change", "rollback"}
  /\ IF w.recorded
     THEN /\ w.workflow \in Lineages /\ w.version = counters[w.workflow]
          /\ counters' = [counters EXCEPT ![w.workflow] = @ + 1]
     ELSE /\ counters' = counters
          /\ w.kind = "change"
          /\ Clashes(authorizations[x].document.changes) # {}
Records(w) ==
  IF w.recorded /\ w.kind = "change"
  THEN \E r : applied' = Append(applied, r) /\ r.changes = w.changes /\ OnTargets(r.changes)
  ELSE applied' = applied

\* What becomes of what was written before.
LEMMA WritesAppend ==
  ASSUME Shaped, NEW x \in DOMAIN authorizations, NEW w, Writes(x, w), Records(w)
  PROVE  /\ LedgerStays
         /\ IsSequence(writings') /\ IsSequence(authorizations') /\ IsSequence(applied')
         /\ DOMAIN writings' = DOMAIN writings \cup {Len(writings) + 1}
         /\ Len(writings) + 1 \notin DOMAIN writings
         /\ DOMAIN writings = 1..Len(writings) /\ Len(writings) \in Nat
         /\ \A e \in DOMAIN writings : writings'[e] = writings[e]
         /\ writings'[Len(writings) + 1] = w
         /\ DOMAIN authorizations' = DOMAIN authorizations
         /\ \A y \in DOMAIN authorizations :
              /\ y # x => authorizations'[y] = authorizations[y]
              /\ DOMAIN authorizations'[y] = {"document", "state"}
              /\ authorizations'[y].document = authorizations[y].document
         /\ authorizations'[x].state = "consumed"
<1>1. /\ IsSequence(writings')
      /\ DOMAIN writings' = DOMAIN writings \cup {Len(writings) + 1}
      /\ Len(writings) + 1 \notin DOMAIN writings
      /\ DOMAIN writings = 1..Len(writings) /\ Len(writings) \in Nat
      /\ \A e \in DOMAIN writings : writings'[e] = writings[e]
      /\ writings'[Len(writings) + 1] = w
  BY Appended DEF Shaped, Writes
<1>2. LedgerStays /\ IsSequence(applied')
  <2>1. CASE w.recorded /\ w.kind = "change"
    <3>1. PICK r : applied' = Append(applied, r)
      BY <2>1 DEF Records
    <3> QED BY <3>1, Appended DEF Shaped, LedgerStays
  <2>2. CASE ~(w.recorded /\ w.kind = "change")
    BY <2>2 DEF Records, Shaped, LedgerStays
  <2> QED BY <2>1, <2>2
<1>3. PICK a : a = [authorizations[x] EXCEPT !.state = "consumed"]
  OBVIOUS
<1>4. /\ DOMAIN a = {"document", "state"} /\ a.state = "consumed"
      /\ a.document = authorizations[x].document
  BY <1>3 DEF Shaped
<1>5. authorizations' = [authorizations EXCEPT ![x] = a]
  BY <1>3 DEF Writes, Reserve
<1>6. IsSequence(authorizations')
  <2>1. PICK S : authorizations \in Seq(S)
    BY DEF Shaped, IsSequence
  <2>2. authorizations \in Seq(S \cup {a})
    BY <2>1
  <2>3. authorizations' \in Seq(S \cup {a})
    BY <1>5, <2>2
  <2> QED BY <2>3 DEF IsSequence
<1>7. /\ DOMAIN authorizations' = DOMAIN authorizations
      /\ authorizations'[x] = a
      /\ \A y \in DOMAIN authorizations : y # x => authorizations'[y] = authorizations[y]
  BY <1>5
<1>8. \A y \in DOMAIN authorizations :
        /\ DOMAIN authorizations'[y] = {"document", "state"}
        /\ authorizations'[y].document = authorizations[y].document
  BY <1>4, <1>7 DEF Shaped
<1> QED BY <1>1, <1>2, <1>4, <1>6, <1>7, <1>8

\* The effects before this one have their ranks; a recorded change is the last of them.
LEMMA WritesKeepLedger ==
  ASSUME Shaped, LedgerTold, NEW x \in DOMAIN authorizations, NEW w, Writes(x, w), Records(w)
  PROVE  LedgerTold'
<1> DEFINE L == Len(writings) + 1
<1>1. /\ DOMAIN writings' = DOMAIN writings \cup {L}
      /\ L \notin DOMAIN writings
      /\ DOMAIN writings = 1..Len(writings) /\ Len(writings) \in Nat
      /\ \A e \in DOMAIN writings : writings'[e] = writings[e]
      /\ writings'[L] = w
  BY WritesAppend
<1>2. L \in Nat /\ \A e \in DOMAIN writings : e \in Nat /\ e < L
  BY <1>1
<1> HIDE DEF L
<1>3. RecordedChanges \subseteq DOMAIN writings
  BY DEF RecordedChanges, Recorded
<1>4. \A T : T \subseteq RecordedChanges => IsFiniteSet(T) /\ Cardinality(T) \in Nat
  BY <1>3, ChangesFinite
<1>5. Len(applied) = Cardinality(RecordedChanges) /\ Cardinality(RecordedChanges) \in Nat
  BY <1>4 DEF LedgerTold
<1>6. CASE ~(w.recorded /\ w.kind = "change")
  <2>1. RecordedChanges' = RecordedChanges
    BY <1>1, <1>6 DEF Writes, RecordedChanges, Recorded, Undoings
  <2>2. \A e : Rank(e)' = Rank(e)
    BY <2>1 DEF Rank
  <2>3. applied' = applied /\ \A e \in RecordedChanges : writings'[e] = writings[e]
    BY <1>1, <1>3, <1>6 DEF Records
  <2> QED BY <2>1, <2>2, <2>3 DEF LedgerTold
<1>7. CASE w.recorded /\ w.kind = "change"
  <2>1. PICK r : applied' = Append(applied, r) /\ r.changes = w.changes
    BY <1>7 DEF Records
  <2>2. PICK M : M = Len(applied) + 1
    OBVIOUS
  <2>3. /\ Len(applied) \in Nat /\ DOMAIN applied = 1..Len(applied)
        /\ Len(applied') = M /\ DOMAIN applied' = DOMAIN applied \cup {M}
        /\ \A n \in DOMAIN applied : applied'[n] = applied[n]
        /\ applied'[M] = r
    BY <2>1, <2>2, Appended DEF Shaped
  <2>4. RecordedChanges' = RecordedChanges \cup {L}
    BY <1>1, <1>7 DEF RecordedChanges, Recorded, Undoings
  <2>5. \A e \in RecordedChanges : e \in Nat /\ e < L
    BY <1>2, <1>3
  <2>6. \A e \in RecordedChanges : Rank(e)' = Rank(e)
    <3> SUFFICES ASSUME NEW e \in RecordedChanges PROVE Rank(e)' = Rank(e)
      OBVIOUS
    <3>1. {f \in RecordedChanges' : f <= e} = {f \in RecordedChanges : f <= e}
      BY <1>2, <2>4, <2>5
    <3> QED BY <3>1 DEF Rank
  <2>7. Cardinality(RecordedChanges') = M
    <3>1. L \notin RecordedChanges /\ IsFiniteSet(RecordedChanges)
      BY <1>1, <1>3, <1>4
    <3> QED BY <1>5, <2>2, <2>4, <3>1, FS_AddElement
  <2>8. \A e : e = L => Rank(e)' = M
    <3>1. {f \in RecordedChanges' : f <= L} = RecordedChanges'
      BY <1>2, <2>4, <2>5
    <3> QED BY <2>7, <3>1 DEF Rank
  <2>9. ASSUME NEW n \in DOMAIN applied' PROVE \E e \in RecordedChanges' : Rank(e)' = n
    <3>1. CASE n \in DOMAIN applied
      <4>1. PICK e \in RecordedChanges : Rank(e) = n
        BY <3>1 DEF LedgerTold
      <4> QED BY <2>4, <2>6, <4>1
    <3>2. CASE n = M
      BY <2>4, <2>8, <3>2
    <3> QED BY <2>3, <3>1, <3>2
  <2>10. ASSUME NEW e \in RecordedChanges', NEW n, n = Rank(e)'
         PROVE  n \in DOMAIN applied' /\ applied'[n].changes = writings'[e].changes
    <3>1. CASE e \in RecordedChanges
      <4>1. n = Rank(e) /\ writings'[e] = writings[e]
        BY <1>1, <1>3, <2>6, <2>10, <3>1
      <4>2. n \in DOMAIN applied /\ applied[n].changes = writings[e].changes
        BY <3>1, <4>1 DEF LedgerTold
      <4> QED BY <2>3, <4>1, <4>2
    <3>2. CASE e = L
      BY <1>1, <2>1, <2>3, <2>8, <2>10, <3>2
    <3> QED BY <2>4, <3>1, <3>2
  <2> QED BY <2>3, <2>7, <2>9, <2>10 DEF LedgerTold
<1> QED BY <1>6, <1>7

LEMMA WritesKeep ==
  ASSUME HarnessInv, NEW x \in DOMAIN authorizations, NEW w, Writes(x, w), Records(w), EffectTold(w)
  PROVE  HarnessInv'
<1> DEFINE L == Len(writings) + 1
<1>1. /\ LedgerStays
      /\ IsSequence(writings') /\ IsSequence(authorizations') /\ IsSequence(applied')
      /\ DOMAIN writings' = DOMAIN writings \cup {L}
      /\ L \notin DOMAIN writings
      /\ \A e \in DOMAIN writings : writings'[e] = writings[e]
      /\ writings'[L] = w
      /\ DOMAIN authorizations' = DOMAIN authorizations
      /\ \A y \in DOMAIN authorizations :
           /\ y # x => authorizations'[y] = authorizations[y]
           /\ DOMAIN authorizations'[y] = {"document", "state"}
           /\ authorizations'[y].document = authorizations[y].document
      /\ authorizations'[x].state = "consumed"
  BY WritesAppend DEF HarnessInv
<1> HIDE DEF L
<1>2. /\ counters' \in [Lineages -> Nat]
      /\ \A l \in Lineages : counters[l] <= counters'[l]
      /\ w.recorded => /\ w.workflow \in Lineages /\ w.version = counters[w.workflow]
                       /\ w.version \in Nat /\ w.version < counters'[w.workflow]
  BY DEF HarnessInv, Shaped, Writes
<1>3. Shaped'
  <2>1. \A n \in DOMAIN applied' : OnTargets(applied'[n].changes)
    <3>1. CASE w.recorded /\ w.kind = "change"
      <4>1. PICK r : applied' = Append(applied, r) /\ OnTargets(r.changes)
        BY <3>1 DEF Records
      <4>2. /\ DOMAIN applied' = DOMAIN applied \cup {Len(applied) + 1}
            /\ \A n \in DOMAIN applied : applied'[n] = applied[n]
            /\ applied'[Len(applied) + 1] = r
        BY <4>1, Appended DEF HarnessInv, Shaped
      <4> QED BY <4>1, <4>2 DEF HarnessInv, Shaped
    <3>2. CASE ~(w.recorded /\ w.kind = "change")
      BY <3>2 DEF Records, HarnessInv, Shaped
    <3> QED BY <3>1, <3>2
  <2>2. \A n \in DOMAIN applied' : OnTargets(applied[n].changes)'
    BY <2>1 DEF OnTargets, TargetsOf, IsSequence
  <2>3. IsSequence(applied)' /\ IsSequence(writings)' /\ IsSequence(authorizations)'
    BY <1>1 DEF IsSequence
  <2>4. interruptAfter' \in Nat
    BY DEF Writes
  <2> QED BY <1>1, <1>2, <2>2, <2>3, <2>4 DEF Shaped
<1>4. ASSUME NEW c \in Documents' PROVE DrawnUp(c)'
  <2>1. c \in Documents
    BY <1>1 DEF Documents, Authorized, Writes
  <2> QED BY <1>1, <2>1, DrawnUpStays DEF HarnessInv
<1>5. ASSUME NEW v \in Effects' PROVE EffectTold(v)'
  <2>1. v \in Effects \/ v = w
    BY <1>1 DEF Effects
  <2>2. EffectTold(v)
    BY <2>1 DEF HarnessInv
  <2> QED BY <1>1, <2>2, EffectStays
<1>6. \A e \in DOMAIN writings : writings[e].authorization # x
  BY DEF HarnessInv, Spent, Writes
<1>7. EffectsAreSingle'
  <2> SUFFICES ASSUME NEW e \in DOMAIN writings', NEW f \in DOMAIN writings', e # f
               PROVE  /\ writings'[e].authorization # writings'[f].authorization
                      /\ writings'[e].recorded /\ writings'[f].recorded =>
                           <<writings'[e].workflow, writings'[e].version>>
                             # <<writings'[f].workflow, writings'[f].version>>
    BY DEF EffectsAreSingle, Recorded
  <2>1. ASSUME NEW a \in DOMAIN writings
        PROVE  /\ writings[a].authorization # w.authorization
               /\ writings[a].recorded /\ w.recorded =>
                    ~(writings[a].workflow = w.workflow /\ writings[a].version = w.version)
    <3>1. writings[a].recorded => /\ writings[a].version \in Nat
                                  /\ writings[a].version < counters[writings[a].workflow]
      BY DEF HarnessInv, Spent
    <3> QED BY <1>2, <1>6, <3>1 DEF Writes
  <2>2. CASE e \in DOMAIN writings /\ f \in DOMAIN writings
    BY <1>1, <2>2 DEF HarnessInv, EffectsAreSingle, Recorded
  <2>3. CASE e \in DOMAIN writings /\ f = L
    BY <1>1, <2>1, <2>3
  <2>4. CASE e = L /\ f \in DOMAIN writings
    BY <1>1, <2>1, <2>4
  <2> QED BY <1>1, <2>2, <2>3, <2>4
<1>8. Spent'
  <2>0. SelfClashing' = SelfClashing
    <3>1. Authorized' = Authorized
      BY <1>1 DEF Authorized
    <3> QED BY <3>1 DEF SelfClashing
  <2> SUFFICES ASSUME NEW e \in DOMAIN writings', NEW v, v = writings'[e]
               PROVE  /\ v.authorization \in DOMAIN authorizations'
                      /\ authorizations'[v.authorization].state = "consumed"
                      /\ IF v.recorded THEN v.workflow \in Lineages /\ v.version \in Nat
                                            /\ v.version < counters'[v.workflow]
                         ELSE authorizations'[v.authorization].document \in SelfClashing
    BY <2>0 DEF Spent
  <2>1. CASE e \in DOMAIN writings
    <3>1. /\ v.authorization \in DOMAIN authorizations
          /\ authorizations[v.authorization].state = "consumed"
          /\ IF v.recorded THEN v.workflow \in Lineages /\ v.version \in Nat
                                /\ v.version < counters[v.workflow]
             ELSE authorizations[v.authorization].document \in SelfClashing
      BY <1>1, <2>1 DEF HarnessInv, Spent
    <3>2. /\ authorizations'[v.authorization] = authorizations[v.authorization]
          /\ v.authorization \in DOMAIN authorizations'
      BY <1>1, <1>6, <2>1, <3>1
    <3>3. CASE v.recorded
      <4>1. counters[v.workflow] \in Nat /\ counters'[v.workflow] \in Nat
            /\ counters[v.workflow] <= counters'[v.workflow]
        BY <1>2, <3>1, <3>3 DEF HarnessInv, Shaped
      <4> QED BY <3>1, <3>2, <3>3, <4>1
    <3>4. CASE ~v.recorded
      BY <3>1, <3>2, <3>4
    <3> QED BY <3>3, <3>4
  <2>2. CASE e = L
    <3>1. v = w /\ v.authorization = x
      BY <1>1, <2>2 DEF Writes
    <3>2. ~v.recorded => authorizations'[x].document \in SelfClashing
      <4>1. authorizations'[x].document = authorizations[x].document
        BY <1>1
      <4>2. ~v.recorded => Clashes(authorizations[x].document.changes) # {}
        BY <3>1 DEF Writes
      <4> QED BY <4>1, <4>2 DEF SelfClashing, Authorized
    <3> QED BY <1>1, <1>2, <3>1, <3>2
  <2> QED BY <1>1, <2>1, <2>2
<1>9. LedgerTold'
  BY WritesKeepLedger DEF HarnessInv
<1> QED BY <1>3, <1>4, <1>5, <1>7, <1>8, <1>9 DEF HarnessInv

-----------------------------------------------------------------------------
\* What a preview reads.
LEMMA PreviewKeeps == ASSUME HarnessInv, ReadForPreview PROVE HarnessInv'
<1>1. /\ UNCHANGED <<counters, authorizations, applied, writings>> /\ interruptAfter' = interruptAfter
      /\ interruptAfter \in Nat
  BY DEF ReadForPreview, HarnessInv, Shaped
<1>2. PICK w \in Lineages, n \in 1..2, v \in Amounts : \E at \in [1..n -> Targets] :
        draft' = [kind |-> "change", workflow |-> w, version |-> Version(w), workspace |-> workspace,
                  changes |-> [i \in 1..n |-> [target |-> at[i], before |-> live[at[i]], after |-> v]],
                  change |-> 0, conflicts |-> {}, fingerprint |-> <<>>]
  BY DEF ReadForPreview
<1>3. PICK at \in [1..n -> Targets] :
        draft' = [kind |-> "change", workflow |-> w, version |-> Version(w), workspace |-> workspace,
                  changes |-> [i \in 1..n |-> [target |-> at[i], before |-> live[at[i]], after |-> v]],
                  change |-> 0, conflicts |-> {}, fingerprint |-> <<>>]
  BY <1>2
<1>4. PICK changes :
        changes = [i \in 1..n |-> [target |-> at[i], before |-> live[at[i]], after |-> v]]
  OBVIOUS
<1>5. IsSequence(changes) /\ Len(changes) \in 1..2
  BY <1>4, Listed
<1>6. OnTargets(changes)
  BY <1>4, <1>5 DEF OnTargets, TargetsOf
<1>7. PICK d : d = [kind |-> "change", workflow |-> w, version |-> Version(w),
                    workspace |-> workspace, changes |-> changes,
                    change |-> 0, conflicts |-> {}, fingerprint |-> <<>>]
  OBVIOUS
<1>8. draft' = d
  BY <1>3, <1>4, <1>7
<1>9. /\ DOMAIN d = DocumentFields /\ d.kind = "change" /\ d.workflow = w
      /\ d.version = Version(w) /\ d.changes = changes
  BY <1>7 DEF DocumentFields
<1>10. Version(w) \in Nat
  BY DEF Version, HarnessInv, Shaped
<1>11. DrawnUp(d)
  BY <1>5, <1>6, <1>9, <1>10 DEF DrawnUp
<1> QED BY <1>1, <1>8, <1>11, DraftKeeps

LEMMA FingerprintKeeps == ASSUME HarnessInv, TakeFingerprint PROVE HarnessInv'
<1>1. PICK c : c = draft
  OBVIOUS
<1>2. DrawnUp(c) /\ c.kind = "change"
  BY <1>1 DEF HarnessInv, Documents, TakeFingerprint
<1>3. PICK d : d = [c EXCEPT !.fingerprint = Fingerprint(c.changes)]
  OBVIOUS
<1>4. /\ DOMAIN d = DocumentFields /\ d.kind = "change" /\ d.workflow = c.workflow
      /\ d.version = c.version /\ d.changes = c.changes
  BY <1>2, <1>3 DEF DrawnUp, DocumentFields
<1>5. DrawnUp(d)
  BY <1>2, <1>4 DEF DrawnUp
<1>6. draft' = d /\ UNCHANGED <<counters, authorizations, applied, writings, interruptAfter>>
  BY <1>1, <1>3 DEF TakeFingerprint
<1>7. interruptAfter \in Nat
  BY DEF HarnessInv, Shaped
<1> QED BY <1>5, <1>6, <1>7, DraftKeeps

\* A plan without conflicts has the values that the change wrote.
LEMMA PlanKeeps ==
  ASSUME HarnessInv, NEW n \in DOMAIN applied, NEW w \in Lineages, PlanRollback(n, w)
  PROVE  HarnessInv'
<1>1. PICK done : done = applied[n].changes
  OBVIOUS
<1>2. OnTargets(done) /\ DOMAIN done = 1..Len(done) /\ Len(done) \in Nat
  <2>1. OnTargets(done)
    BY <1>1 DEF HarnessInv, Shaped
  <2> QED BY <2>1, Appended DEF OnTargets
<1>3. PICK changes : changes = [i \in DOMAIN done |-> [target |-> done[i].target,
                                                       before |-> live[done[i].target],
                                                       after |-> done[i].before]]
  OBVIOUS
<1>4. IsSequence(changes)
  BY <1>2, <1>3, Listed
<1>5. /\ DOMAIN changes = DOMAIN done
      /\ \A i \in DOMAIN done : changes[i].target = done[i].target /\ changes[i].after = done[i].before
  BY <1>3
<1>6. OnTargets(changes)
  BY <1>2, <1>4, <1>5 DEF OnTargets, TargetsOf
<1>7. PICK d : d = [kind |-> "rollback", workflow |-> w, version |-> counters[w],
                    workspace |-> workspace, changes |-> changes, change |-> n,
                    conflicts |-> ChangedSince(done), fingerprint |-> Fingerprint(done)]
  OBVIOUS
<1>8. draft' = d /\ UNCHANGED <<counters, authorizations, applied, writings, interruptAfter>>
  BY <1>1, <1>3, <1>7 DEF PlanRollback
<1>9. /\ DOMAIN d = DocumentFields /\ d.kind = "rollback" /\ d.workflow = w
      /\ d.version = counters[w] /\ d.changes = changes /\ d.change = n
      /\ d.conflicts = ChangedSince(done) /\ d.fingerprint = Fingerprint(done)
  BY <1>7 DEF DocumentFields
<1>10. ASSUME d.conflicts = {}, NEW i \in DOMAIN done
       PROVE  d.fingerprint[done[i].target] = done[i].after
  <2>1. done[i].target \in Targets /\ done[i].target \in TargetsOf(done)
    BY <1>2 DEF OnTargets, TargetsOf
  <2>2. live[done[i].target] = done[i].after
    BY <1>9, <1>10, <2>1 DEF ChangedSince
  <2> QED BY <1>9, <2>1, <2>2 DEF Fingerprint
<1>11. Undoes(d)
  BY <1>1, <1>5, <1>9, <1>10 DEF Undoes
<1>12. counters[w] \in Nat /\ interruptAfter \in Nat
  BY DEF HarnessInv, Shaped
<1>13. DrawnUp(d)
  BY <1>6, <1>9, <1>11, <1>12 DEF DrawnUp
<1> QED BY <1>8, <1>12, <1>13, DraftKeeps

\* Of a preview, the writes before the first that finds an unexpected value; if there is
\* one, the preview clashes with itself.
LEMMA UnclashedIs ==
  ASSUME NEW changes, IsSequence(changes), Len(changes) \in 1..2
  PROVE  /\ Unclashed(changes) \in 0..Len(changes)
         /\ Unclashed(changes) # Len(changes) => Clashes(changes) # {}
<1>1. DOMAIN changes = 1..Len(changes)
  BY Appended
<1>2. Clashes(changes) \subseteq 2..Len(changes)
  <2> SUFFICES ASSUME NEW j \in Clashes(changes) PROVE j \in 2..Len(changes)
    OBVIOUS
  <2>1. j \in DOMAIN changes /\ \E i \in 1..(j - 1) : TRUE
    BY DEF Clashes
  <2> QED BY <1>1, <2>1
<1>3. \E n \in 0..Len(changes) : /\ 1..n \cap Clashes(changes) = {}
                                 /\ n < Len(changes) => n + 1 \in Clashes(changes)
  <2>1. CASE 2 \in Clashes(changes)
    <3>1. Len(changes) = 2 /\ 1 \in 0..Len(changes) /\ 1..1 \cap Clashes(changes) = {}
      BY <1>2, <2>1
    <3> QED BY <2>1, <3>1
  <2>2. CASE 2 \notin Clashes(changes)
    <3>1. Clashes(changes) = {}
      <4> SUFFICES ASSUME NEW j \in Clashes(changes) PROVE FALSE
        OBVIOUS
      <4>1. j = 2
        <5>1. PICK n \in 1..2 : n = Len(changes)
          OBVIOUS
        <5>2. j \in 2..n
          BY <1>2, <5>1
        <5> QED BY <5>2
      <4> QED BY <2>2, <4>1
    <3>2. Len(changes) \in 0..Len(changes) /\ ~(Len(changes) < Len(changes))
      OBVIOUS
    <3> QED BY <3>1, <3>2
  <2> QED BY <2>1, <2>2
<1>4. PICK n : n = Unclashed(changes)
  OBVIOUS
<1>5. /\ n \in 0..Len(changes) /\ 1..n \cap Clashes(changes) = {}
      /\ n < Len(changes) => n + 1 \in Clashes(changes)
  BY <1>3, <1>4 DEF Unclashed
<1> QED BY <1>4, <1>5

\* The values a change overwrites are those its preview names.
LEMMA ApplyKeeps ==
  ASSUME HarnessInv, NEW x \in DOMAIN authorizations, ApplyChange(x)
  PROVE  HarnessInv'
<1>1. PICK d : d = authorizations[x].document
  OBVIOUS
<1>2. PICK changes : changes = d.changes
  OBVIOUS
<1>3. PICK n : n = Unclashed(changes)
  OBVIOUS
<1>4. PICK interrupted \in BOOLEAN : interrupted = (interruptAfter # 0 /\ interruptAfter <= n)
  OBVIOUS
<1>5. PICK count : count = IF interrupted THEN interruptAfter ELSE n
  OBVIOUS
<1>6. PICK recorded \in BOOLEAN : recorded = (interrupted \/ n = Len(changes))
  OBVIOUS
<1>7. PICK w : w = Effect(x, d, count, recorded)
  OBVIOUS
<1>8. /\ d.kind = "change" /\ Authorizes(x) /\ IsCurrent(d) /\ ValuesHold(d)
      /\ authorizations' = Reserve(x)
      /\ writings' = Append(writings, w)
      /\ interruptAfter' = IF interrupted THEN 0 ELSE interruptAfter
      /\ IF recorded
         THEN RecordApplied(d, count, IF interrupted THEN "reconciliation_required" ELSE "verified")
         ELSE UNCHANGED <<applied, workspace, counters>>
      /\ draft' = draft
  BY <1>1, <1>2, <1>3, <1>4, <1>5, <1>6, <1>7 DEF ApplyChange
<1>9. DrawnUp(d) /\ interruptAfter \in Nat
  BY <1>1 DEF HarnessInv, Documents, Authorized, Shaped
<1>10. /\ OnTargets(changes) /\ IsSequence(changes) /\ Len(changes) \in 1..2
       /\ d.workflow \in Lineages
  BY <1>2, <1>8, <1>9 DEF DrawnUp, OnTargets
<1>11. /\ n \in 0..Len(changes) /\ (n # Len(changes) => Clashes(changes) # {})
  BY <1>3, <1>10, UnclashedIs
<1>12. count \in 0..Len(changes)
  <2>1. n \in Nat /\ n <= Len(changes) /\ Len(changes) \in Nat
    BY <1>10, <1>11
  <2>2. CASE interrupted
    <3>1. interruptAfter <= n /\ count = interruptAfter
      BY <1>4, <1>5, <2>2
    <3> QED BY <1>9, <2>1, <3>1
  <2>3. CASE ~interrupted
    BY <1>5, <1>11, <2>3
  <2> QED BY <2>2, <2>3
<1>13. PICK wrote : wrote = SubSeq(changes, 1, count)
  OBVIOUS
<1>14. /\ IsSequence(wrote) /\ DOMAIN wrote = 1..count /\ 1..count \subseteq DOMAIN changes
       /\ \A i \in 1..count : wrote[i] = changes[i]
  BY <1>10, <1>12, <1>13, Prefix
<1>15. OnTargets(wrote)
  BY <1>10, <1>14 DEF OnTargets, TargetsOf
<1>16. /\ w.authorization = x /\ w.kind = "change" /\ w.workflow = d.workflow
       /\ w.version = d.version /\ w.changes = wrote /\ w.recorded = recorded
       /\ w.overwrote = [t \in {changes[i].target : i \in 1..count} |-> live[t]]
  BY <1>2, <1>7, <1>8, <1>13 DEF Effect
<1>17. EffectTold(w)
  <2>1. {changes[i].target : i \in 1..count} = TargetsOf(wrote)
    BY <1>14 DEF TargetsOf
  <2>2. ASSUME NEW i \in DOMAIN wrote PROVE w.overwrote[wrote[i].target] = wrote[i].before
    <3>1. i \in DOMAIN changes /\ wrote[i] = changes[i]
      BY <1>14
    <3>2. live[changes[i].target] = changes[i].before
      BY <1>2, <1>8, <3>1 DEF ValuesHold
    <3> QED BY <1>14, <1>16, <3>1, <3>2
  <2>3. ChangeTold(w)
    BY <1>16, <2>1, <2>2 DEF ChangeTold
  <2> QED BY <1>16, <2>3 DEF EffectTold
<1>18. Records(w)
  <2>1. CASE recorded
    <3>1. PICK r : r = [changes |-> wrote, status |-> IF interrupted THEN "reconciliation_required"
                                                     ELSE "verified"]
      OBVIOUS
    <3>2. applied' = Append(applied, r) /\ r.changes = wrote
      BY <1>2, <1>8, <1>13, <2>1, <3>1 DEF RecordApplied, Confirmed
    <3> QED BY <1>15, <1>16, <2>1, <3>2 DEF Records
  <2>2. CASE ~recorded
    BY <1>8, <1>16, <2>2 DEF Records
  <2> QED BY <2>1, <2>2
<1>19. Writes(x, w)
  <2>1. recorded => /\ d.version = counters[d.workflow]
                    /\ counters' = [counters EXCEPT ![d.workflow] = @ + 1]
    BY <1>8 DEF IsCurrent, RecordApplied
  <2>2. ~recorded => counters' = counters /\ Clashes(authorizations[x].document.changes) # {}
    BY <1>1, <1>2, <1>6, <1>8, <1>11
  <2>3. interruptAfter' \in Nat
    BY <1>8, <1>9
  <2> QED BY <1>8, <1>10, <1>16, <2>1, <2>2, <2>3 DEF Writes, Authorizes
<1> QED BY <1>17, <1>18, <1>19, WritesKeep

\* The fingerprint of the plan still holds: what a rollback overwrites is what its change
\* wrote, whoever wrote in between.
LEMMA RollbackKeeps ==
  ASSUME HarnessInv, NEW x \in DOMAIN authorizations, ExecuteRollback(x)
  PROVE  HarnessInv'
<1>1. PICK d : d = authorizations[x].document
  OBVIOUS
<1>2. PICK changes : changes = d.changes
  OBVIOUS
<1>3. PICK w : w = Effect(x, d, Len(changes), TRUE)
  OBVIOUS
<1>4. /\ d.kind = "rollback" /\ Authorizes(x) /\ IsCurrent(d) /\ ValuesHold(d) /\ d.conflicts = {}
      /\ authorizations' = Reserve(x)
      /\ writings' = Append(writings, w)
      /\ counters' = [counters EXCEPT ![d.workflow] = @ + 1]
      /\ UNCHANGED <<applied, interruptAfter, draft>>
  BY <1>1, <1>2, <1>3 DEF ExecuteRollback
<1>5. DrawnUp(d) /\ interruptAfter \in Nat
  BY <1>1 DEF HarnessInv, Documents, Authorized, Shaped
<1>6. IsSequence(changes) /\ Undoes(d) /\ d.workflow \in Lineages
  BY <1>2, <1>4, <1>5 DEF DrawnUp, OnTargets
<1>7. Len(changes) \in Nat /\ DOMAIN changes = 1..Len(changes)
  BY <1>6, Appended
<1>8. PICK wrote : wrote = SubSeq(changes, 1, Len(changes))
  OBVIOUS
<1>9. DOMAIN wrote = DOMAIN changes /\ \A i \in DOMAIN changes : wrote[i] = changes[i]
  <2>1. Len(changes) \in 0..Len(changes)
    BY <1>7
  <2> QED BY <1>6, <1>7, <1>8, <2>1, Prefix
<1>10. /\ w.authorization = x /\ w.kind = "rollback" /\ w.workflow = d.workflow
       /\ w.version = d.version /\ w.changes = wrote /\ w.recorded = TRUE /\ w.change = d.change
       /\ w.overwrote = [t \in {changes[i].target : i \in 1..Len(changes)} |-> live[t]]
  BY <1>2, <1>3, <1>4, <1>8 DEF Effect
<1>11. PICK done : done = applied[d.change].changes
  OBVIOUS
<1>12. /\ d.change \in DOMAIN applied /\ DOMAIN changes = DOMAIN done
       /\ \A i \in DOMAIN done : /\ changes[i].target = done[i].target
                                 /\ changes[i].after = done[i].before
                                 /\ d.fingerprint[done[i].target] = done[i].after
  BY <1>2, <1>4, <1>6, <1>11 DEF Undoes
<1>13. {changes[i].target : i \in 1..Len(changes)} = TargetsOf(done)
  BY <1>7, <1>12 DEF TargetsOf
<1>14. ASSUME NEW i \in DOMAIN done
       PROVE  w.overwrote[done[i].target] = done[i].after
  <2>1. done[i].target \in TargetsOf(done) /\ done[i].target \in TargetsOf(changes)
    BY <1>12 DEF TargetsOf
  <2>2. d.fingerprint[done[i].target] = live[done[i].target]
    BY <1>2, <1>4, <2>1 DEF ValuesHold, Fingerprint
  <2> QED BY <1>10, <1>12, <1>13, <2>1, <2>2
<1>15. UndoingTold(w)
  <2>1. DOMAIN w.overwrote = TargetsOf(done)
    BY <1>10, <1>13
  <2>2. \A i \in DOMAIN done : w.changes[i].target = done[i].target /\ w.changes[i].after = done[i].before
    BY <1>9, <1>10, <1>12
  <2>3. w.recorded /\ w.change \in DOMAIN applied /\ done = applied[w.change].changes
        /\ DOMAIN w.changes = DOMAIN done
    BY <1>9, <1>10, <1>11, <1>12
  <2> QED BY <1>14, <2>1, <2>2, <2>3 DEF UndoingTold
<1>16. EffectTold(w) /\ Records(w)
  BY <1>4, <1>10, <1>15 DEF EffectTold, Records
<1>17. Writes(x, w)
  <2>1. d.version = counters[d.workflow]
    BY <1>4 DEF IsCurrent
  <2> QED BY <1>4, <1>5, <1>6, <1>10, <2>1 DEF Writes, Authorizes
<1> QED BY <1>16, <1>17, WritesKeep

-----------------------------------------------------------------------------
LEMMA HarnessInitHolds == HarnessInit => HarnessInv
<1> SUFFICES ASSUME HarnessInit PROVE HarnessInv
  OBVIOUS
<1>1. /\ authorizations = <<>> /\ applied = <<>> /\ writings = <<>> /\ interruptAfter = 0
      /\ counters = [w \in Lineages |-> 0] /\ draft.kind = "none"
  BY DEF HarnessInit, NoDocument
<1>2. IsSequence(<<>>)
  <2>1. <<>> \in Seq({})
    OBVIOUS
  <2> QED BY <2>1 DEF IsSequence
<1>3. Shaped
  BY <1>1, <1>2 DEF Shaped
<1>4. Documents = {} /\ Effects = {} /\ RecordedChanges = {}
  BY <1>1 DEF Documents, Authorized, Effects, RecordedChanges, Recorded
<1>5. LedgerTold
  BY <1>1, <1>4, FS_EmptySet DEF LedgerTold
<1>6. Spent /\ EffectsAreSingle
  BY <1>1 DEF Spent, EffectsAreSingle
<1> QED BY <1>3, <1>4, <1>5, <1>6 DEF HarnessInv

\* One step for each method of the harness, and for what others do.
LEMMA HarnessNextKeeps == HarnessInv /\ [HarnessNext]_harnessVars => HarnessInv'
<1> SUFFICES ASSUME HarnessInv, [HarnessNext]_harnessVars PROVE HarnessInv'
  OBVIOUS
<1>1. PICK c : c = draft
  OBVIOUS
<1>2. (c.kind # "none" => DrawnUp(c)) /\ interruptAfter \in Nat
  BY <1>1 DEF HarnessInv, Documents, Shaped
<1>3. CASE ReadForPreview
  BY <1>3, PreviewKeeps
<1>4. CASE TakeFingerprint
  BY <1>4, FingerprintKeeps
<1>5. CASE Register
  <2>1. Registers(c) /\ DrawnUp(c) /\ draft' = NoDocument
    BY <1>1, <1>2, <1>5 DEF Register
  <2> QED BY <2>1, RegistersKeeps
<1>6. ASSUME NEW n \in DOMAIN applied, NEW w \in Lineages, PlanRollback(n, w) PROVE HarnessInv'
  BY <1>6, PlanKeeps
<1>7. ASSUME NEW x \in DOMAIN authorizations, RegisterAgain(x) PROVE HarnessInv'
  <2>1. PICK d : d = authorizations[x].document
    OBVIOUS
  <2>2. DrawnUp(d) /\ Registers(d) /\ draft' = draft
    BY <1>7, <2>1 DEF RegisterAgain, HarnessInv, Documents, Authorized
  <2> QED BY <2>2, RegistersKeeps
<1>8. ASSUME NEW x \in DOMAIN authorizations, ApplyChange(x) PROVE HarnessInv'
  BY <1>8, ApplyKeeps
<1>9. ASSUME NEW x \in DOMAIN authorizations, ExecuteRollback(x) PROVE HarnessInv'
  BY <1>9, RollbackKeeps
<1>10. ASSUME NEW t \in Targets, NEW v \in Amounts, ForceExternalChange(t, v) PROVE HarnessInv'
  BY <1>1, <1>2, <1>10, DraftKeeps DEF ForceExternalChange
<1>11. ASSUME NEW n \in 1..2, InjectPartialMutation(n) PROVE HarnessInv'
  BY <1>1, <1>2, <1>11, DraftKeeps DEF InjectPartialMutation
<1>12. CASE UNCHANGED harnessVars
  BY <1>1, <1>2, <1>12, DraftKeeps DEF harnessVars
<1> QED BY <1>3, <1>4, <1>5, <1>6, <1>7, <1>8, <1>9, <1>10, <1>11, <1>12 DEF HarnessNext

LEMMA HarnessInvariant == HarnessSpec => []HarnessInv
<1>1. HarnessInit => HarnessInv
  BY HarnessInitHolds
<1>2. HarnessInv /\ [HarnessNext]_harnessVars => HarnessInv'
  BY HarnessNextKeeps
<1> QED BY <1>1, <1>2, PTL DEF HarnessSpec

\* The nth entry of the ledger is that of the nth recorded change.
LEMMA EntryOfChange ==
  ASSUME HarnessInv, NEW n \in DOMAIN applied
  PROVE  ChangeOf(n) \in RecordedChanges /\ applied[n].changes = writings[ChangeOf(n)].changes
<1>1. PICK e \in RecordedChanges : Rank(e) = n
  BY DEF HarnessInv, LedgerTold
<1>2. PICK f : f = ChangeOf(n)
  OBVIOUS
<1>3. f \in RecordedChanges /\ Rank(f) = n
  BY <1>1, <1>2 DEF ChangeOf, Rank, RecordedChanges
<1> QED BY <1>2, <1>3 DEF HarnessInv, LedgerTold

\* Each effect was authorized for itself alone, the ledger has what was written, and a
\* rollback overwrites nothing but what its change wrote, for any number of workflows,
\* writers and rollbacks that are planned and presented side by side (apply_change,
\* plan_rollback, execute_rollback).
THEOREM HarnessLedgerUndoes == HarnessSpec => []LedgerUndoes
<1>1. HarnessInv => LedgerUndoes
  <2> SUFFICES ASSUME HarnessInv PROVE LedgerUndoes
    OBVIOUS
  <2>1. EffectsAreRecorded
    <3>1. \A n \in DOMAIN applied : applied[n].changes = writings[ChangeOf(n)].changes
      BY EntryOfChange
    <3>2. \A e \in DOMAIN writings \ Recorded :
            Clashes(authorizations[writings[e].authorization].document.changes) # {}
      BY DEF HarnessInv, Spent, Recorded, SelfClashing
    <3> QED BY <3>1, <3>2 DEF EffectsAreRecorded
  <2>2. RollbacksUndo
    <3> SUFFICES ASSUME NEW e \in Undoings, NEW change, change = writings[ChangeOf(writings[e].change)]
                 PROVE  /\ DOMAIN writings[e].overwrote = DOMAIN change.overwrote
                        /\ \A i \in DOMAIN change.changes :
                             writings[e].overwrote[change.changes[i].target] = change.changes[i].after
                        /\ \A i \in DOMAIN writings[e].changes :
                             writings[e].changes[i].after
                               = change.overwrote[writings[e].changes[i].target]
      BY DEF RollbacksUndo
    <3>1. PICK w : w = writings[e]
      OBVIOUS
    <3>2. w \in Effects /\ w.kind = "rollback"
      BY <3>1 DEF Undoings, Effects
    <3>3. UndoingTold(w)
      BY <3>2 DEF HarnessInv, EffectTold
    <3>4. PICK done : done = applied[w.change].changes
      OBVIOUS
    <3>5. ChangeOf(w.change) \in RecordedChanges /\ done = change.changes
      BY <3>1, <3>3, <3>4, EntryOfChange DEF UndoingTold
    <3>6. change \in Effects /\ change.kind # "rollback"
      BY <3>1, <3>5 DEF RecordedChanges, Recorded, Undoings, Effects
    <3>7. ChangeTold(change)
      BY <3>6 DEF HarnessInv, EffectTold
    <3>8. /\ DOMAIN w.changes = DOMAIN done /\ DOMAIN w.overwrote = TargetsOf(done)
          /\ \A i \in DOMAIN done : /\ w.overwrote[done[i].target] = done[i].after
                                    /\ w.changes[i].target = done[i].target
                                    /\ w.changes[i].after = done[i].before
      BY <3>3, <3>4 DEF UndoingTold
    <3>9. /\ DOMAIN change.overwrote = TargetsOf(done)
          /\ \A i \in DOMAIN done : change.overwrote[done[i].target] = done[i].before
      BY <3>5, <3>7 DEF ChangeTold
    <3>10. DOMAIN w.overwrote = DOMAIN change.overwrote
      BY <3>8, <3>9
    <3>11. \A i \in DOMAIN change.changes : w.overwrote[change.changes[i].target] = change.changes[i].after
      BY <3>5, <3>8
    <3>12. \A i \in DOMAIN w.changes : w.changes[i].after = change.overwrote[w.changes[i].target]
      BY <3>8, <3>9
    <3> QED BY <3>1, <3>10, <3>11, <3>12
  <2> QED BY <2>1, <2>2 DEF LedgerUndoes, HarnessInv
<1> QED BY <1>1, HarnessInvariant, PTL
=============================================================================
