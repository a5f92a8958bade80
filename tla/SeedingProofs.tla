--------------------------- MODULE SeedingProofs ---------------------------
(***************************************************************************)
(* Theorems about Seeding, for any fixture validateReferences accepts,     *)
(* any number of seeders and any number of faults.                         *)
(***************************************************************************)
EXTENDS Seeding, TLAPS

-----------------------------------------------------------------------------
(* The inductive invariant *)

Positions == 1..Len(Fixture)

\* An event was recorded for some item of the fixture, under an event that
\* stands for the item's parent.
RecordedFor(D, e, i) ==
    /\ e.ref = Fixture[i].ref
    /\ e.externalID = Fixture[i].externalID
    /\ Fixture[i].parentRef = EmptyText => e.parent = None
    /\ Fixture[i].parentRef # EmptyText =>
          /\ e.parent \in DOMAIN D
          /\ \E j \in Positions :
                /\ Fixture[j].ref = Fixture[i].parentRef
                /\ standsFor(D[e.parent], Fixture[j])

AllRecordedFor(D) == \A id \in DOMAIN D : \E i \in Positions : RecordedFor(D, D[id], i)

\* An external id is recorded once.
ExternalOnce(D) ==
    \A a, b \in DOMAIN D :
        D[a].externalID # EmptyText /\ D[a].externalID = D[b].externalID => a = b

\* The ids a run has learnt are those of events that stand for its items.
Learnt(D, position, known) ==
    \A j \in Positions : j < position =>
        /\ known[Fixture[j].ref] \in DOMAIN D
        /\ standsFor(D[known[Fixture[j].ref]], Fixture[j])

Complete(D) == \A j \in Positions : \E id \in DOMAIN D : standsFor(D[id], Fixture[j])

Event == [ref : STRING, externalID : STRING, parent : Nat \cup {None}]

Shape ==
    /\ db \in Seq(Event)
    /\ at \in [Seeders -> 0..(Len(Fixture) + 1)]
    /\ refs \in [Seeders -> [Refs -> Nat \cup {None}]]

SeedingInv ==
    /\ Shape
    /\ AllRecordedFor(db)
    /\ ExternalOnce(db)
    /\ \A s \in Seeders : Learnt(db, at[s], refs[s])
    /\ done # {} => Complete(db)

-----------------------------------------------------------------------------
(* The fixture *)

\* What validateReferences has made sure of.
LEMMA Validated ==
    ASSUME NEW i \in Positions
    PROVE  /\ Fixture[i] \in Items
           /\ Fixture[i].ref \in Refs
           /\ \A j \in Positions : Fixture[j].ref = Fixture[i].ref => j = i
           /\ Fixture[i].parentRef # EmptyText =>
                 \E j \in Positions : j < i /\ Fixture[j].ref = Fixture[i].parentRef
<1>1. Fixture \in Seq(Items) /\ validateReferences /\ DOMAIN Fixture = Positions
      BY SeedingAssumption DEF Positions
<1>2. Fixture[i] \in Items /\ Fixture[i].ref \in Refs BY <1>1 DEF Refs
<1>3. \A a \in Positions, b \in Positions : b < a => Fixture[b].ref # Fixture[a].ref
      BY <1>1 DEF validateReferences, Positions
<1>4. \A j \in Positions : Fixture[j].ref = Fixture[i].ref => j = i
      BY <1>3 DEF Positions
<1>5. Fixture[i].parentRef # EmptyText =>
         \E j \in Positions : j < i /\ Fixture[j].ref = Fixture[i].parentRef
      BY <1>1 DEF validateReferences, Positions
<1> QED BY <1>2, <1>4, <1>5

LEMMA ItemOfRef ==
    ASSUME NEW i \in Positions
    PROVE  itemOf(Fixture[i].ref) = Fixture[i]
<1>1. DOMAIN Fixture = Positions BY SeedingAssumption DEF Positions
<1>2. (CHOOSE j \in DOMAIN Fixture : Fixture[j].ref = Fixture[i].ref) = i
      BY <1>1, Validated
<1> QED BY <1>2 DEF itemOf

-----------------------------------------------------------------------------
(* Steps *)

\* What one create does to the recorded events and tells the seeder.
LEMMA CreateStep ==
    ASSUME SeedingInv, NEW s \in Seeders, at[s] \in Positions,
           NEW D, D = recorded(s, Fixture[at[s]])
    PROVE  /\ D \in Seq(Event)
           /\ DOMAIN db \subseteq DOMAIN D
           /\ \A id \in DOMAIN db : D[id] = db[id]
           /\ AllRecordedFor(D)
           /\ ExternalOnce(D)
           /\ existing(Fixture[at[s]]) # {} =>
                 D = db /\ \A id \in existing(Fixture[at[s]]) :
                              id \in DOMAIN D /\ standsFor(D[id], Fixture[at[s]])
           /\ existing(Fixture[at[s]]) = {} =>
                 Len(D) \in DOMAIN D /\ standsFor(D[Len(D)], Fixture[at[s]])
<1>1. PICK i \in Positions : i = at[s] OBVIOUS
<1>2. PICK item : item = Fixture[i] OBVIOUS
<1>3. item \in Items /\ item.ref \in Refs BY <1>2, Validated
<1>4. Shape /\ AllRecordedFor(db) /\ ExternalOnce(db) /\ Learnt(db, i, refs[s])
      BY <1>1 DEF SeedingInv
<1>5. CASE existing(item) # {}
  <2>1. D = db BY <1>1, <1>2, <1>5 DEF recorded
  <2>2. \A id \in existing(item) : id \in DOMAIN db /\ standsFor(db[id], item)
        BY DEF existing, standsFor
  <2> QED BY <1>1, <1>2, <1>4, <1>5, <2>1, <2>2 DEF Shape
<1>6. CASE existing(item) = {}
  <2>1. PICK e : e = [ref |-> item.ref, externalID |-> item.externalID,
                      parent |-> parentOf(s, item)]
        OBVIOUS
  <2>2. D = Append(db, e) BY <1>1, <1>2, <1>6, <2>1 DEF recorded
  <2>3. /\ e.ref = item.ref
        /\ e.externalID = item.externalID
        /\ e.parent = parentOf(s, item)
        BY <2>1
  <2>4. RecordedFor(db, e, i)
    <3>1. CASE item.parentRef = EmptyText
          BY <1>2, <2>3, <3>1 DEF RecordedFor, parentOf
    <3>2. CASE item.parentRef # EmptyText
      <4>1. PICK j \in Positions : j < i /\ Fixture[j].ref = item.parentRef
            BY <1>2, <3>2, Validated
      <4>2. e.parent = refs[s][Fixture[j].ref] BY <2>3, <3>2, <4>1 DEF parentOf
      <4>3. e.parent \in DOMAIN db /\ standsFor(db[e.parent], Fixture[j])
            BY <1>4, <4>1, <4>2 DEF Learnt
      <4> QED BY <1>2, <2>3, <3>2, <4>1, <4>3 DEF RecordedFor
    <3> QED BY <3>1, <3>2
  <2>5. parentOf(s, item) \in Nat \cup {None}
    <3>1. CASE item.parentRef = EmptyText BY <3>1 DEF parentOf
    <3>2. CASE item.parentRef # EmptyText
      <4>1. PICK j \in Positions : Fixture[j].ref = item.parentRef
            BY <1>2, <3>2, Validated
      <4>2. item.parentRef \in Refs BY <4>1, Validated
      <4> QED BY <1>4, <3>2, <4>2 DEF parentOf, Shape
    <3> QED BY <3>1, <3>2
  <2>6. e \in Event BY <1>3, <2>1, <2>5 DEF Event, Items
  <2>7. /\ db \in Seq(Event) /\ D \in Seq(Event)
        /\ Len(D) = Len(db) + 1
        /\ DOMAIN db = 1..Len(db) /\ DOMAIN D = 1..(Len(db) + 1)
        /\ \A id \in DOMAIN db : id \in DOMAIN D /\ D[id] = db[id]
        /\ Len(D) \in DOMAIN D /\ D[Len(D)] = e
        BY <1>4, <2>2, <2>6 DEF Shape
  <2>8. \A id \in DOMAIN D : id \in DOMAIN db \/ D[id] = e BY <2>7
  <2>9. \A f, k : RecordedFor(db, f, k) => RecordedFor(D, f, k)
        BY <2>7 DEF RecordedFor
  <2>10. AllRecordedFor(D)
         BY <1>4, <2>4, <2>7, <2>8, <2>9 DEF AllRecordedFor
  <2>11. \A id \in DOMAIN db : item.externalID # EmptyText => db[id].externalID # item.externalID
         BY <1>6 DEF existing
  <2>12. ExternalOnce(D)
    <3>1. ASSUME NEW a \in DOMAIN D, NEW b \in DOMAIN D,
                 D[a].externalID # EmptyText, D[a].externalID = D[b].externalID
          PROVE  a = b
      <4>1. CASE a \in DOMAIN db /\ b \in DOMAIN db
            BY <1>4, <2>7, <3>1, <4>1 DEF ExternalOnce
      <4>2. CASE a \in DOMAIN db /\ b \notin DOMAIN db
            BY <2>3, <2>7, <2>8, <2>11, <3>1, <4>2
      <4>3. CASE a \notin DOMAIN db /\ b \in DOMAIN db
            BY <2>3, <2>7, <2>8, <2>11, <3>1, <4>3
      <4>4. CASE a \notin DOMAIN db /\ b \notin DOMAIN db
            BY <1>4, <2>7, <4>4 DEF Shape
      <4> QED BY <4>1, <4>2, <4>3, <4>4
    <3> QED BY <3>1 DEF ExternalOnce
  <2>13. standsFor(D[Len(D)], item) BY <2>3, <2>7 DEF standsFor
  <2> QED BY <1>1, <1>2, <1>6, <2>7, <2>10, <2>12, <2>13
<1> QED BY <1>1, <1>2, <1>5, <1>6

\* What a run has learnt stays true while events are added.
LEMMA LearntGrows ==
    ASSUME NEW D, NEW E, DOMAIN D \subseteq DOMAIN E, \A id \in DOMAIN D : E[id] = D[id]
    PROVE  /\ \A position, known : Learnt(D, position, known) => Learnt(E, position, known)
           /\ Complete(D) => Complete(E)
<1>1. \A position, known : Learnt(D, position, known) => Learnt(E, position, known)
      BY DEF Learnt
<1>2. Complete(D) => Complete(E) BY DEF Complete
<1> QED BY <1>1, <1>2

LEMMA StartOK ==
    ASSUME SeedingInv, NEW s \in Seeders, Start(s)
    PROVE  SeedingInv'
<1>1. Shape' BY DEF SeedingInv, Start, Shape
<1>2. ASSUME NEW r \in Seeders PROVE Learnt(db, at[r], refs[r])'
  <2>1. CASE r = s
    <3>1. at'[s] = 1 BY DEF SeedingInv, Start, Shape
    <3>2. \A j \in Positions : ~(j < 1) BY DEF Positions
    <3> QED BY <2>1, <3>1, <3>2 DEF Learnt
  <2>2. CASE r # s
    <3>1. at'[r] = at[r] /\ refs'[r] = refs[r] /\ db' = db
          BY <2>2 DEF SeedingInv, Start, Shape
    <3> QED BY <3>1 DEF SeedingInv
  <2> QED BY <2>1, <2>2
<1> QED BY <1>1, <1>2 DEF SeedingInv, Start

LEMMA CreateOK ==
    ASSUME SeedingInv, NEW s \in Seeders, Create(s)
    PROVE  SeedingInv'
<1>1. Shape /\ at[s] \in Positions
      BY SeedingAssumption DEF SeedingInv, Create, Positions
<1>2. PICK i \in Positions : i = at[s] BY <1>1
<1>3. PICK item : item = Fixture[i] OBVIOUS
<1>4. PICK id : id = IF existing(item) # {} THEN CHOOSE x \in existing(item) : TRUE
                     ELSE Len(db')
      OBVIOUS
<1>5. /\ db' = recorded(s, item)
      /\ refs' = [refs EXCEPT ![s] = [refs[s] EXCEPT ![item.ref] = id]]
      /\ at' = [at EXCEPT ![s] = at[s] + 1]
      /\ done' = done
      BY <1>2, <1>3, <1>4 DEF Create, accepted
<1>6. /\ db' \in Seq(Event)
      /\ DOMAIN db \subseteq DOMAIN db'
      /\ \A x \in DOMAIN db : db'[x] = db[x]
      /\ AllRecordedFor(db')
      /\ ExternalOnce(db')
      BY <1>1, <1>2, <1>3, <1>5, CreateStep
<1>7. id \in DOMAIN db' /\ standsFor(db'[id], item)
      BY <1>1, <1>2, <1>3, <1>4, <1>5, CreateStep
<1>8. item.ref \in Refs BY <1>3, Validated
<1>9. id \in Nat BY <1>6, <1>7
<1>10. Shape'
  <2>1. at' \in [Seeders -> 0..(Len(Fixture) + 1)]
        BY <1>1, <1>5, SeedingAssumption DEF Shape, Positions
  <2> QED BY <1>1, <1>5, <1>6, <1>8, <1>9, <2>1 DEF Shape
<1>11. ASSUME NEW r \in Seeders PROVE Learnt(db, at[r], refs[r])'
  <2>1. Learnt(db', at[r], refs[r]) BY <1>6, LearntGrows DEF SeedingInv
  <2>2. CASE r # s
    <3>1. at'[r] = at[r] /\ refs'[r] = refs[r] BY <1>1, <1>5, <2>2 DEF Shape
    <3> QED BY <2>1, <3>1
  <2>3. CASE r = s
    <3>1. at'[s] = i + 1 BY <1>1, <1>2, <1>5 DEF Shape
    <3>2. PICK known : known = refs'[s] OBVIOUS
    <3>3. \A ref \in Refs : known[ref] = IF ref = item.ref THEN id ELSE refs[s][ref]
          BY <1>1, <1>5, <1>8, <3>2 DEF Shape
    <3>4. ASSUME NEW j \in Positions, j < i + 1
          PROVE  known[Fixture[j].ref] \in DOMAIN db' /\ standsFor(db'[known[Fixture[j].ref]], Fixture[j])
      <4>1. CASE j = i BY <1>3, <1>7, <1>8, <3>3, <4>1
      <4>2. CASE j # i
        <5>1. j < i BY <3>4, <4>2 DEF Positions
        <5>2. Fixture[j].ref \in Refs /\ Fixture[j].ref # item.ref
              BY <1>3, <4>2, Validated
        <5> QED BY <1>2, <2>1, <2>3, <3>3, <5>1, <5>2 DEF Learnt
      <4> QED BY <4>1, <4>2
    <3> QED BY <2>3, <3>1, <3>2, <3>4 DEF Learnt
  <2> QED BY <2>2, <2>3
<1>12. done' # {} => Complete(db')
       BY <1>5, <1>6, LearntGrows DEF SeedingInv
<1> QED BY <1>6, <1>10, <1>11, <1>12 DEF SeedingInv

LEMMA FailOK ==
    ASSUME SeedingInv, NEW s \in Seeders, Fail(s)
    PROVE  SeedingInv'
<1>1. Shape /\ at[s] \in Positions
      BY SeedingAssumption DEF SeedingInv, Fail, Positions
<1>2. /\ at' = [at EXCEPT ![s] = 0]
      /\ refs' = refs /\ done' = done
      /\ db' = db \/ db' = recorded(s, Fixture[at[s]])
      BY DEF Fail
<1>3. /\ db' \in Seq(Event)
      /\ DOMAIN db \subseteq DOMAIN db'
      /\ \A x \in DOMAIN db : db'[x] = db[x]
      /\ AllRecordedFor(db')
      /\ ExternalOnce(db')
  <2>1. CASE db' = db BY <1>1, <2>1 DEF SeedingInv, Shape
  <2>2. CASE db' = recorded(s, Fixture[at[s]]) BY <1>1, <2>2, CreateStep
  <2> QED BY <1>2, <2>1, <2>2
<1>4. Shape' BY <1>1, <1>2, <1>3, SeedingAssumption DEF Shape
<1>5. ASSUME NEW r \in Seeders PROVE Learnt(db, at[r], refs[r])'
  <2>1. Learnt(db', at[r], refs[r]) BY <1>3, LearntGrows DEF SeedingInv
  <2>2. CASE r # s BY <1>1, <1>2, <2>1, <2>2 DEF Shape
  <2>3. CASE r = s
    <3>1. at'[s] = 0 BY <1>1, <1>2 DEF Shape
    <3> QED BY <2>3, <3>1 DEF Learnt, Positions
  <2> QED BY <2>2, <2>3
<1>6. done' # {} => Complete(db') BY <1>2, <1>3, LearntGrows DEF SeedingInv
<1> QED BY <1>3, <1>4, <1>5, <1>6 DEF SeedingInv

LEMMA FinishOK ==
    ASSUME SeedingInv, NEW s \in Seeders, Finish(s)
    PROVE  SeedingInv'
<1>1. /\ at[s] = Len(Fixture) + 1
      /\ at' = [at EXCEPT ![s] = 0]
      /\ db' = db /\ refs' = refs
      BY DEF Finish
<1>2. Shape BY DEF SeedingInv
<1>3. Shape' BY <1>1, <1>2, SeedingAssumption DEF Shape
<1>4. ASSUME NEW r \in Seeders PROVE Learnt(db, at[r], refs[r])'
  <2>1. CASE r # s BY <1>1, <1>2, <2>1 DEF Shape, SeedingInv
  <2>2. CASE r = s
    <3>1. at'[s] = 0 BY <1>1, <1>2 DEF Shape
    <3> QED BY <2>2, <3>1 DEF Learnt, Positions
  <2> QED BY <2>1, <2>2
<1>5. Complete(db)
  <2>1. Learnt(db, Len(Fixture) + 1, refs[s]) BY <1>1 DEF SeedingInv
  <2>2. \A j \in Positions : j < Len(Fixture) + 1 BY SeedingAssumption DEF Positions
  <2> QED BY <2>1, <2>2 DEF Learnt, Complete
<1> QED BY <1>1, <1>3, <1>4, <1>5 DEF SeedingInv

LEMMA InitOK == Init => SeedingInv
<1> SUFFICES ASSUME Init PROVE SeedingInv OBVIOUS
<1>1. Shape BY SeedingAssumption DEF Init, Shape
<1>2. AllRecordedFor(db) /\ ExternalOnce(db) BY DEF Init, AllRecordedFor, ExternalOnce
<1>3. \A s \in Seeders : Learnt(db, at[s], refs[s]) BY DEF Init, Learnt, Positions
<1> QED BY <1>1, <1>2, <1>3 DEF SeedingInv, Init

LEMMA NextOK == SeedingInv /\ [Next]_vars => SeedingInv'
<1> SUFFICES ASSUME SeedingInv, [Next]_vars PROVE SeedingInv' OBVIOUS
<1>1. CASE \E s \in Seeders : Start(s) \/ Create(s) \/ Fail(s) \/ Finish(s)
      BY <1>1, StartOK, CreateOK, FailOK, FinishOK
<1>2. CASE UNCHANGED vars BY <1>2 DEF vars, SeedingInv, Shape
<1> QED BY <1>1, <1>2 DEF Next, AllSeeded

LEMMA Invariance == Spec => []SeedingInv
BY InitOK, NextOK, PTL DEF Spec

-----------------------------------------------------------------------------
(* Theorems *)

\* ApplyAt puts every event under the event that stands for its parent_ref,
\* in whatever way runs of pcr-seed fail, repeat and overlap.
THEOREM ParentsAreRight == Spec => []Lineage
<1>1. SeedingInv => Lineage
  <2> SUFFICES ASSUME SeedingInv, NEW id \in DOMAIN db, NEW parentRef,
                      parentRef = itemOf(db[id].ref).parentRef
               PROVE  IF parentRef = EmptyText THEN db[id].parent = None
                      ELSE /\ db[id].parent \in DOMAIN db
                           /\ standsFor(db[db[id].parent], itemOf(parentRef))
      BY DEF Lineage
  <2>1. PICK i \in Positions : RecordedFor(db, db[id], i)
        BY DEF SeedingInv, AllRecordedFor
  <2>2. itemOf(db[id].ref) = Fixture[i] BY <2>1, ItemOfRef DEF RecordedFor
  <2>3. CASE parentRef = EmptyText BY <2>1, <2>2, <2>3 DEF RecordedFor
  <2>4. CASE parentRef # EmptyText
    <3>1. PICK j \in Positions :
             /\ db[id].parent \in DOMAIN db
             /\ Fixture[j].ref = parentRef
             /\ standsFor(db[db[id].parent], Fixture[j])
          BY <2>1, <2>2, <2>4 DEF RecordedFor
    <3>2. itemOf(parentRef) = Fixture[j] BY <3>1, ItemOfRef
    <3> QED BY <2>4, <3>1, <3>2
  <2> QED BY <2>3, <2>4
<1> QED BY <1>1, Invariance, PTL

\* A success that pcr-seed reports means the whole fixture is there, and no
\* rerun has recorded an event with an external id again.
THEOREM SuccessMeansSeeded == Spec => []SeededOnce
<1>1. SeedingInv => SeededOnce
  <2> SUFFICES ASSUME SeedingInv, done # {}, NEW i \in DOMAIN Fixture
               PROVE  LET copies == {id \in DOMAIN db : standsFor(db[id], Fixture[i])}
                      IN  /\ copies # {}
                          /\ Fixture[i].externalID # EmptyText => \A a, b \in copies : a = b
      BY DEF SeededOnce
  <2>1. i \in Positions BY SeedingAssumption DEF Positions
  <2>2. \E id \in DOMAIN db : standsFor(db[id], Fixture[i])
        BY <2>1 DEF SeedingInv, Complete
  <2>3. ASSUME NEW a \in DOMAIN db, standsFor(db[a], Fixture[i])
        PROVE  db[a].externalID = Fixture[i].externalID
    <3>1. PICK j \in Positions : db[a].ref = Fixture[j].ref /\ db[a].externalID = Fixture[j].externalID
          BY DEF SeedingInv, AllRecordedFor, RecordedFor
    <3> QED BY <2>1, <2>3, <3>1, Validated DEF standsFor
  <2> QED BY <2>2, <2>3 DEF SeedingInv, ExternalOnce
<1> QED BY <1>1, Invariance, PTL
=============================================================================
