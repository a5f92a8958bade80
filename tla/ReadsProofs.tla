----------------------------- MODULE ReadsProofs -----------------------------
(***************************************************************************)
(* Theorems about Queries, Paging, Annotations and Dashboard, for any      *)
(* events, filters, limits and URLs, and any interleaving of a read with   *)
(* the growth of the registry.                                             *)
(***************************************************************************)
EXTENDS Paging, Annotations, Dashboard, FiniteSetTheorems, TLAPS

-----------------------------------------------------------------------------
(* The registry *)

\* What is recorded: a finite set of events with distinct ids and sequence
\* numbers that contains the parents of its events.
RegistryInv ==
    /\ workload \in DOMAIN Workloads
    /\ db \subseteq Events
    /\ IsFiniteSet(db)
    /\ Cardinality(db) <= MaxEvents
    /\ \A e, f \in db : e.id = f.id => e = f
    /\ \A e, f \in db : e.seq = f.seq => e = f
    /\ \A e \in db : e.parent # None => \E f \in db : f.id = e.parent

LEMMA CanonicalNat ==
    ASSUME NEW t \in Nat
    PROVE  canonicalTime(t) \in Nat
<1>1. t % Second \in 0..(Second - 1) /\ t = Second * (t \div Second) + (t % Second)
      BY QueryAssumption
<1>2. t \div Second \in Nat BY QueryAssumption
<1>3. Second * (t \div Second) \in Nat BY <1>2, QueryAssumption
<1> QED BY <1>1, <1>3 DEF canonicalTime

LEMMA RecordOK ==
    ASSUME RegistryInv, NEW e \in Workloads[workload], Record(e)
    PROVE  RegistryInv' /\ db \subseteq db'
<1>1. PICK r : r = [e EXCEPT !.ts = canonicalTime(e.ts)] OBVIOUS
<1>2. db' = db \cup {r} /\ workload' = workload BY <1>1 DEF Record
<1>3. e \in Events BY QueryAssumption DEF RegistryInv
<1>4. r \in Events /\ r.id = e.id /\ r.seq = e.seq /\ r.parent = e.parent
  <2>1. canonicalTime(e.ts) \in Nat BY <1>3, CanonicalNat DEF Events
  <2> QED BY <1>1, <1>3, <2>1 DEF Events
<1>5. \A f \in db : f.id # r.id /\ f.seq # r.seq BY <1>4 DEF Record, recordable
<1>10. r.parent # None => \E f \in db : f.id = r.parent BY <1>4 DEF Record, recordable
<1>6. IsFiniteSet(db') /\ Cardinality(db') = Cardinality(db) + 1
      BY <1>2, <1>5, FS_AddElement DEF RegistryInv
<1>7. Cardinality(db) < MaxEvents BY DEF Record, recordable
<1>8. Cardinality(db) \in Nat BY FS_CardinalityType DEF RegistryInv
<1>9. Cardinality(db') <= MaxEvents BY <1>6, <1>7, <1>8, QueryAssumption
<1> QED BY <1>2, <1>4, <1>5, <1>6, <1>9, <1>10 DEF RegistryInv

-----------------------------------------------------------------------------
(* Operations *)

\* The Go rule for the identity of an operation and the SQL rule agree.
LEMMA Identity ==
    ASSUME NEW e
    PROVE  /\ operationIdentity(e) # NoIdentity <=>
                 /\ e.parent = None
                 /\ Tag(e.tags, "phase") = "start"
                 /\ correlation(e).value # EmptyText
           /\ operationIdentity(e) # NoIdentity => operationIdentity(e) = correlation(e)
<1>1. PICK c, d : c = Tag(e.tags, "change_id") /\ d = Tag(e.tags, "deploy_id") OBVIOUS
<1>2. correlation(e) = [key |-> IF c # EmptyText THEN "change_id" ELSE "deploy_id",
                        value |-> IF c # EmptyText THEN c ELSE d]
      BY <1>1 DEF correlation
<1>3. correlation(e).value = IF c # EmptyText THEN c ELSE d BY <1>2
<1>4. CASE e.parent # None \/ Tag(e.tags, "phase") # "start"
      BY <1>4 DEF operationIdentity
<1>5. CASE e.parent = None /\ Tag(e.tags, "phase") = "start"
  <2>1. operationIdentity(e) =
           IF c # EmptyText THEN [key |-> "change_id", value |-> c]
           ELSE IF d # EmptyText THEN [key |-> "deploy_id", value |-> d] ELSE NoIdentity
        BY <1>1, <1>5 DEF operationIdentity
  <2>2. CASE c # EmptyText
    <3>1. operationIdentity(e) = [key |-> "change_id", value |-> c] BY <2>1, <2>2
    <3>2. operationIdentity(e).value # EmptyText BY <2>2, <3>1
    <3>3. operationIdentity(e) # NoIdentity BY <3>2 DEF NoIdentity
    <3> QED BY <1>2, <1>3, <1>5, <2>2, <3>1, <3>3
  <2>3. CASE c = EmptyText /\ d # EmptyText
    <3>1. operationIdentity(e) = [key |-> "deploy_id", value |-> d] BY <2>1, <2>3
    <3>2. operationIdentity(e).value # EmptyText BY <2>3, <3>1
    <3>3. operationIdentity(e) # NoIdentity BY <3>2 DEF NoIdentity
    <3> QED BY <1>2, <1>3, <1>5, <2>3, <3>1, <3>3
  <2>4. CASE c = EmptyText /\ d = EmptyText BY <1>3, <1>5, <2>1, <2>4
  <2> QED BY <2>2, <2>3, <2>4
<1> QED BY <1>4, <1>5

\* endsOf in the terms of SQL.
LEMMA EndsAreCorrelated ==
    ASSUME NEW D \in SUBSET Events, NEW s \in D, operationIdentity(s) # NoIdentity
    PROVE  endsOf(D, s) =
              {e \in correlated(D, "end") : e.type = s.type /\ correlation(e) = correlation(s)}
<1>1. operationIdentity(s) = correlation(s) /\ correlation(s).value # EmptyText BY Identity
<1>2. ASSUME NEW e \in D, Tag(e.tags, "phase") = "end"
      PROVE  operationIdentity([e EXCEPT !.tags["phase"] = "start"]) = operationIdentity(s)
             <=> /\ e.parent = None
                 /\ correlation(e).value # EmptyText
                 /\ correlation(e) = correlation(s)
  <2>1. PICK f : f = [e EXCEPT !.tags["phase"] = "start"] OBVIOUS
  <2>2. /\ f.parent = e.parent
        /\ f.tags["phase"] = "start"
        /\ f.tags["change_id"] = e.tags["change_id"]
        /\ f.tags["deploy_id"] = e.tags["deploy_id"]
        BY <2>1 DEF Events, TagMap, TagKeys
  <2>3. "start" # None BY TextAssumption DEF Phases
  <2>4. Tag(f.tags, "phase") = "start" BY <2>2, <2>3 DEF Tag
  <2>5. correlation(f) = correlation(e) BY <2>2 DEF correlation, Tag
  <2>6. operationIdentity(f) # NoIdentity <=> (e.parent = None /\ correlation(e).value # EmptyText)
        BY <2>2, <2>4, <2>5, Identity
  <2>7. operationIdentity(f) # NoIdentity => operationIdentity(f) = correlation(e)
        BY <2>5, Identity
  <2> QED BY <1>1, <2>1, <2>6, <2>7
<1> QED BY <1>2 DEF endsOf, correlated

\* A start is open exactly while nothing has ended its operation.
LEMMA OpenStarts ==
    ASSUME NEW D \in SUBSET Events, NEW s \in D, operationIdentity(s) # NoIdentity
    PROVE  /\ s \in active(D) <=> endsOf(D, s) = {}
           /\ \A e \in active(D) : operation(e) = operation(s) => s \in active(D)
           /\ OperationState(D, s) = "open" <=> endsOf(D, s) = {}
<1>1. /\ s \in correlated(D, "start")
      /\ operationIdentity(s) = correlation(s)
      BY Identity DEF correlated
<1>2. endsOf(D, s) # {} <=> <<s.type, correlation(s)>> \in ended(D)
      BY EndsAreCorrelated DEF ended
<1>3. s \in active(D) <=> endsOf(D, s) = {} BY <1>1, <1>2 DEF active
<1>4. \A e \in active(D) : operation(e) = operation(s) => s \in active(D)
      BY <1>1 DEF active, operation
<1>5. OperationState(D, s) = "open" <=>
         \E e \in active(D) : e.type = s.type /\ correlation(e) = operationIdentity(s)
      BY DEF OperationState
<1>6. \A e : (e.type = s.type /\ correlation(e) = operationIdentity(s)) <=> operation(e) = operation(s)
      BY <1>1 DEF operation
<1>7. OperationState(D, s) = "open" <=> s \in active(D) BY <1>4, <1>5, <1>6
<1> QED BY <1>3, <1>4, <1>7

\* An active start is a closable one.
LEMMA ActiveAreStarts ==
    ASSUME NEW D, NEW e \in active(D)
    PROVE  /\ e \in D
           /\ operationIdentity(e) # NoIdentity
           /\ operationIdentity(e) = correlation(e)
BY Identity DEF active, correlated

\* A set of naturals has a least element.
LEMMA Least ==
    ASSUME NEW S \in SUBSET Nat, S # {}
    PROVE  \E x \in S : \A y \in S : x <= y
<1> DEFINE R == {p \in Nat \X Nat : p[1] < p[2]}
<1>1. IsWellFoundedOn(R, Nat) BY NatLessThanWellFounded, Zenon DEF OpToRel
<1>2. PICK x \in S : \A y \in S : ~(<<y, x>> \in R) BY <1>1, WFMin
<1>3. ASSUME NEW y \in S, y < x PROVE FALSE
  <2>1. <<y, x>> \in Nat \X Nat /\ <<y, x>>[1] = y /\ <<y, x>>[2] = x OBVIOUS
  <2>2. <<y, x>> \in R BY <1>3, <2>1
  <2> QED BY <1>2, <2>2
<1> QED BY <1>3

\* An open operation has exactly one representative, its earliest start.
LEMMA OneRepresentative ==
    ASSUME NEW D \in SUBSET Events, \A e, f \in D : e.id = f.id => e = f, NEW s \in active(D)
    PROVE  \E r : {e \in representatives(D) : operation(e) = operation(s)} = {r}
<1> DEFINE Starts == {e \in active(D) : operation(e) = operation(s)}
           times == {e.ts : e \in Starts}
<1>1. s \in Starts /\ Starts \subseteq D /\ Starts \subseteq Events BY DEF active, correlated
<1>2. \A e \in Starts : e.ts \in Nat /\ e.id \in Nat BY <1>1 DEF Events
<1>3. PICK m \in times : \A t \in times : m <= t
  <2>1. times \subseteq Nat /\ times # {} BY <1>1, <1>2
  <2> QED BY <2>1, Least
<1> DEFINE ids == {e.id : e \in {f \in Starts : f.ts = m}}
<1>4. PICK k \in ids : \A i \in ids : k <= i
  <2>1. ids \subseteq Nat BY <1>2
  <2>2. PICK e \in Starts : e.ts = m BY <1>3
  <2>3. e.id \in ids BY <2>2
  <2> QED BY <2>1, <2>3, Least
<1>5. PICK r \in Starts : r.ts = m /\ r.id = k BY <1>4
<1>6. ASSUME NEW f \in Starts
      PROVE  r.ts < f.ts \/ (r.ts = f.ts /\ r.id <= f.id)
  <2>1. m <= f.ts BY <1>3
  <2>2. f.ts = m => k <= f.id BY <1>4
  <2> QED BY <1>2, <1>5, <2>1, <2>2
<1>7. r \in representatives(D) /\ operation(r) = operation(s)
      BY <1>5, <1>6 DEF representatives
<1>8. ASSUME NEW e \in representatives(D), operation(e) = operation(s)
      PROVE  e = r
  <2>1. e \in Starts BY <1>8 DEF representatives
  <2>2. e.ts < r.ts \/ (e.ts = r.ts /\ e.id <= r.id)
        BY <1>5, <1>8 DEF representatives
  <2>3. r.ts < e.ts \/ (r.ts = e.ts /\ r.id <= e.id) BY <1>6, <2>1
  <2>4. e.id = r.id BY <1>2, <1>5, <2>1, <2>2, <2>3
  <2> QED BY <1>1, <1>5, <2>1, <2>4
<1> QED BY <1>7, <1>8

\* Without filters Current is all representatives.
LEMMA Unfiltered == \A D : ListCurrent(D, NoCurrentParams) = representatives(D)
<1>1. \A e : shown(NoCurrentParams, e) BY DEF shown, NoCurrentParams
<1> QED BY <1>1 DEF ListCurrent, representatives

LEMMA CurrentIsOpen == RegistryInv => CurrentListsOpenOperations
<1> SUFFICES ASSUME RegistryInv PROVE CurrentListsOpenOperations OBVIOUS
<1> DEFINE current == ListCurrent(db, NoCurrentParams)
           starts == {e \in db : operationIdentity(e) # NoIdentity}
           sameOperation(e, f) == e.type = f.type /\ operationIdentity(e) = operationIdentity(f)
           rows(s) == {e \in current : sameOperation(e, s)}
<1>1. db \in SUBSET Events /\ \A e, f \in db : e.id = f.id => e = f BY DEF RegistryInv
<1>2. current = representatives(db) BY Unfiltered
<1>3. current \subseteq active(db) /\ active(db) \subseteq starts
      BY <1>2, ActiveAreStarts DEF representatives
<1>4. ASSUME NEW s \in starts
      PROVE  /\ OperationState(db, s) = "open" <=> endsOf(db, s) = {}
             /\ Cardinality(rows(s)) = IF endsOf(db, s) = {} THEN 1 ELSE 0
             /\ \A e \in rows(s) : e.ts <= s.ts
  <2>1. /\ s \in db /\ operationIdentity(s) # NoIdentity
        /\ operationIdentity(s) = correlation(s)
        BY Identity
  <2>2. /\ s \in active(db) <=> endsOf(db, s) = {}
        /\ \A e \in active(db) : operation(e) = operation(s) => s \in active(db)
        /\ OperationState(db, s) = "open" <=> endsOf(db, s) = {}
        BY <1>1, <2>1, OpenStarts
  <2>3. rows(s) = {e \in representatives(db) : operation(e) = operation(s)}
    <3>1. \A e \in current : operationIdentity(e) = correlation(e) BY <1>3, ActiveAreStarts
    <3> QED BY <1>2, <2>1, <3>1 DEF operation
  <2>4. CASE endsOf(db, s) = {}
    <3>1. s \in active(db) BY <2>2, <2>4
    <3>2. PICK r : rows(s) = {r}
      <4>1. \E r : {e \in representatives(db) : operation(e) = operation(s)} = {r}
            BY <1>1, <3>1, OneRepresentative
      <4> HIDE DEF rows
      <4> QED BY <2>3, <4>1
    <3>3. Cardinality(rows(s)) = 1 BY <3>2, FS_Singleton
    <3>4. r.ts < s.ts \/ r.ts = s.ts
      <4>1. r \in representatives(db) /\ operation(r) = operation(s) BY <2>3, <3>2
      <4> QED BY <3>1, <4>1 DEF representatives
    <3>5. r \in db /\ r.ts \in Nat /\ s.ts \in Nat
          BY <1>1, <1>3, <2>1, <3>2 DEF Events
    <3>6. \A e \in rows(s) : e.ts <= s.ts BY <3>2, <3>4, <3>5
    <3> QED BY <2>2, <2>4, <3>3, <3>6
  <2>5. CASE endsOf(db, s) # {}
    <3>1. rows(s) = {} BY <1>2, <1>3, <2>2, <2>3, <2>5
    <3> HIDE DEF rows
    <3>2. Cardinality(rows(s)) = 0 BY <3>1, FS_EmptySet
    <3> QED BY <2>2, <2>5, <3>1, <3>2
  <2> QED BY <2>4, <2>5
<1>5. current \subseteq starts BY <1>3
<1> QED BY <1>4, <1>5 DEF CurrentListsOpenOperations

LEMMA FiltersHide == FilterNeverPromotes
<1>1. \A D, p : ListCurrent(D, p) \subseteq representatives(D) BY DEF ListCurrent
<1> QED BY <1>1, Unfiltered DEF FilterNeverPromotes

\* The end events of a closed operation carry the key and value of its start.
LEMMA ClosuresShow == RegistryInv => ClosedHasClosure
<1> SUFFICES ASSUME RegistryInv, NEW s \in db, operationIdentity(s) # NoIdentity,
                    OperationState(db, s) = "closed"
             PROVE  GetActivity(db, s) \cap endsOf(db, s) # {}
    BY DEF ClosedHasClosure
<1>1. db \in SUBSET Events BY DEF RegistryInv
<1>2. PICK f : f \in endsOf(db, s) BY <1>1, OpenStarts
<1>3. f \in correlated(db, "end") /\ f.type = s.type /\ correlation(f) = correlation(s)
      BY <1>1, <1>2, EndsAreCorrelated
<1>4. operationIdentity(s) = correlation(s) BY Identity
<1>5. PICK key, value : key = operationIdentity(s).key /\ value = operationIdentity(s).value
      OBVIOUS
<1>6. f.tags["phase"] = "end"
  <2>1. EmptyText # "end" BY Zenon DEF EmptyText
  <2> QED BY <1>3, <2>1 DEF correlated, Tag
<1>7. key \in {"change_id", "deploy_id"} /\ f.tags[key] = value
  <2>1. /\ key = IF Tag(f.tags, "change_id") # EmptyText THEN "change_id" ELSE "deploy_id"
        /\ value = IF Tag(f.tags, "change_id") # EmptyText
                   THEN Tag(f.tags, "change_id") ELSE Tag(f.tags, "deploy_id")
        BY <1>3, <1>4, <1>5 DEF correlation
  <2>2. value # EmptyText BY <1>3, <1>4, <1>5 DEF correlated
  <2>3. value = Tag(f.tags, key) BY <2>1
  <2>4. f.tags[key] = value BY <2>2, <2>3 DEF Tag
  <2> QED BY <2>1, <2>4
<1>8. PICK p : p = [NoParams EXCEPT !.type = s.type, !.topLevel = TRUE,
                                    !.tags[key] = value, !.tags["phase"] = "end"]
      OBVIOUS
<1>9. /\ p.parent = None /\ p.after = None /\ p.before = None /\ p.around = None
      /\ p.type = s.type /\ ~p.alerted
      /\ p.tags[key] = value /\ p.tags["phase"] = "end"
      /\ \A k \in TagKeys \ {key, "phase"} : p.tags[k] = None
      BY <1>7, <1>8 DEF NoParams, NoTags, TagKeys
<1>10. inTime(p, f.ts) BY <1>9 DEF inTime
<1>11. f \in matching(db, p)
       BY <1>3, <1>6, <1>7, <1>9, <1>10 DEF matching, correlated
<1>12. f \in closures(db, s) BY <1>5, <1>8, <1>11 DEF closures
<1> QED BY <1>2, <1>12 DEF GetActivity

-----------------------------------------------------------------------------
(* Places in a listing *)

\* A listing that can be ordered.
Rows(M) ==
    /\ M \subseteq Events
    /\ IsFiniteSet(M)
    /\ \A e, f \in M : e.id = f.id => e = f

\* How many rows come before e: what LIMIT and OFFSET count.
preceding(M, e) == {f \in M : listedBefore(f, e)}
rank(M, e) == Cardinality(preceding(M, e))

\* ORDER BY timestamp DESC, id ASC is a strict total order on rows.
LEMMA Ordered ==
    ASSUME NEW M, Rows(M), NEW e \in M, NEW f \in M
    PROVE  /\ ~listedBefore(e, e)
           /\ e # f => listedBefore(e, f) \/ listedBefore(f, e)
           /\ \A g \in M : listedBefore(g, f) /\ listedBefore(f, e) => listedBefore(g, e)
<1>1. \A g \in M : g.ts \in Nat /\ g.id \in Nat BY DEF Rows, Events
<1>2. e # f => e.id # f.id BY DEF Rows
<1> QED BY <1>1, <1>2 DEF listedBefore

LEMMA RankBounds ==
    ASSUME NEW M, Rows(M), NEW e \in M
    PROVE  /\ IsFiniteSet(preceding(M, e))
           /\ Cardinality(M) \in Nat
           /\ rank(M, e) \in 0..(Cardinality(M) - 1)
<1>1. IsFiniteSet(M) /\ Cardinality(M) \in Nat BY FS_CardinalityType DEF Rows
<1>2. IsFiniteSet(M \ {e}) /\ Cardinality(M \ {e}) = Cardinality(M) - 1
      BY <1>1, FS_RemoveElement
<1>3. preceding(M, e) \in SUBSET (M \ {e}) BY Ordered DEF preceding
<1>4. /\ IsFiniteSet(preceding(M, e))
      /\ Cardinality(preceding(M, e)) <= Cardinality(M) - 1
      BY <1>2, <1>3, FS_Subset
<1>5. Cardinality(preceding(M, e)) \in Nat BY <1>4, FS_CardinalityType
<1> QED BY <1>1, <1>4, <1>5 DEF rank

LEMMA RankGrows ==
    ASSUME NEW M, Rows(M), NEW f \in M, NEW e \in M, listedBefore(f, e)
    PROVE  rank(M, f) < rank(M, e)
<1>1. preceding(M, f) \in SUBSET preceding(M, e) BY Ordered DEF preceding
<1>2. f \in preceding(M, e) /\ f \notin preceding(M, f) BY Ordered DEF preceding
<1>3. IsFiniteSet(preceding(M, e)) /\ rank(M, e) \in Nat /\ rank(M, f) \in Nat
      BY RankBounds
<1>4. /\ rank(M, f) <= rank(M, e)
      /\ rank(M, e) = rank(M, f) => preceding(M, e) = preceding(M, f)
      BY <1>1, <1>3, FS_Subset DEF rank
<1> QED BY <1>2, <1>3, <1>4

\* No two rows have the same place.
LEMMA RankInjective ==
    ASSUME NEW M, Rows(M), NEW e \in M, NEW f \in M, rank(M, e) = rank(M, f)
    PROVE  e = f
<1>1. rank(M, e) \in Nat /\ rank(M, f) \in Nat BY RankBounds
<1> QED BY <1>1, Ordered, RankGrows

\* So a stretch of places holds at most as many rows.
LEMMA FewRanks ==
    ASSUME NEW M, Rows(M), NEW S \in SUBSET M, NEW a \in Int, NEW b \in Int,
           \A e \in S : rank(M, e) \in a..b
    PROVE  IsFiniteSet(S) /\ Cardinality(S) <= IF a > b THEN 0 ELSE b - a + 1
<1>1. PICK g : g = [e \in S |-> rank(M, e)] OBVIOUS
<1>2. g \in Injection(S, a..b)
      BY <1>1, RankInjective DEF Injection, IsInjective
<1>3. IsFiniteSet(a..b) /\ Cardinality(a..b) = IF a > b THEN 0 ELSE b - a + 1
      BY FS_Interval
<1> QED BY <1>2, <1>3, FS_Injection

\* Adding rows moves the others back.
LEMMA RankMonotone ==
    ASSUME NEW M, NEW N, Rows(N), M \subseteq N, Rows(M), NEW e \in M
    PROVE  rank(M, e) <= rank(N, e)
<1>1. preceding(M, e) \in SUBSET preceding(N, e) BY DEF preceding
<1> QED BY <1>1, RankBounds, FS_Subset DEF rank

\* A page is a stretch of places.
LEMMA PageRanks == \A M, limit, offs :
    page(M, limit, offs) = {e \in M : rank(M, e) \in offs..(offs + limit - 1)}
BY DEF page, rank, preceding

-----------------------------------------------------------------------------
(* Time ranges and pages *)

\* Parameters that filter by time only.
TimeOnly(p) ==
    /\ p.parent = None /\ p.type = EmptyText /\ ~p.topLevel /\ ~p.alerted
    /\ \A k \in TagKeys : p.tags[k] = None

LEMMA MatchingTime ==
    ASSUME NEW D, NEW p, TimeOnly(p)
    PROVE  matching(D, p) = {e \in D : inTime(p, e.ts)}
BY DEF matching, TimeOnly

LEMMA RangesTile == RegistryInv => rangesTile
<1> SUFFICES ASSUME RegistryInv, NEW t \in Bounds
             PROVE  LET earlier == matching(db, [NoParams EXCEPT !.before = t])
                        later == matching(db, [NoParams EXCEPT !.after = t])
                    IN  /\ earlier \cup later = db
                        /\ earlier \cap later = {}
                        /\ \A w \in 1..t :
                              matching(db, [NoParams EXCEPT !.around = t, !.window = w])
                              = matching(db, [NoParams EXCEPT !.after = t - w, !.before = t + w])
    BY DEF rangesTile
<1>1. t \in Nat /\ t # None BY QueryAssumption
<1>2. \A e \in db : e.ts \in Nat BY DEF RegistryInv, Events
<1>3. canonicalTime(t) \in Nat BY <1>1, CanonicalNat
<1>4. PICK p : p = [NoParams EXCEPT !.before = t] OBVIOUS
<1>5. PICK q : q = [NoParams EXCEPT !.after = t] OBVIOUS
<1>6. matching(db, p) = {e \in db : e.ts < canonicalTime(t)}
  <2>1. TimeOnly(p) /\ p.before = t /\ p.after = None /\ p.around = None
        BY <1>4 DEF NoParams, NoTags, TimeOnly
  <2>2. \A ts : inTime(p, ts) <=> ts < canonicalTime(t) BY <1>1, <2>1 DEF inTime
  <2> QED BY <2>1, <2>2, MatchingTime
<1>7. matching(db, q) = {e \in db : e.ts >= canonicalTime(t)}
  <2>1. TimeOnly(q) /\ q.after = t /\ q.before = None /\ q.around = None
        BY <1>5 DEF NoParams, NoTags, TimeOnly
  <2>2. \A ts : inTime(q, ts) <=> ts >= canonicalTime(t) BY <1>1, <2>1 DEF inTime
  <2> QED BY <2>1, <2>2, MatchingTime
<1>8. matching(db, p) \cup matching(db, q) = db /\ matching(db, p) \cap matching(db, q) = {}
      BY <1>2, <1>3, <1>6, <1>7
<1>9. ASSUME NEW w \in 1..t
      PROVE  matching(db, [NoParams EXCEPT !.around = t, !.window = w])
             = matching(db, [NoParams EXCEPT !.after = t - w, !.before = t + w])
  <2>1. PICK u : u = [NoParams EXCEPT !.around = t, !.window = w] OBVIOUS
  <2>2. PICK v : v = [NoParams EXCEPT !.after = t - w, !.before = t + w] OBVIOUS
  <2>3. TimeOnly(u) /\ u.around = t /\ u.window = w
        BY <2>1 DEF NoParams, NoTags, TimeOnly
  <2>4. TimeOnly(v) /\ v.after = t - w /\ v.before = t + w /\ v.around = None
        BY <2>2 DEF NoParams, NoTags, TimeOnly
  <2>5. w # None /\ w > 0 /\ t - w # None /\ t + w # None BY <1>1, QueryAssumption
  <2>6. \A ts : inTime(u, ts) <=> inTime(v, ts)
        BY <1>1, <2>3, <2>4, <2>5 DEF inTime
  <2> QED BY <2>1, <2>2, <2>3, <2>4, <2>6, MatchingTime
<1> QED BY <1>4, <1>5, <1>8, <1>9

\* Stretches of the same length that start at its multiples do not meet.
LEMMA Stretches ==
    ASSUME NEW limit \in Nat \ {0}, NEW r \in Nat
    PROVE  /\ \E n \in 0..r : r \in (n * limit)..(n * limit + limit - 1)
           /\ \A n, m \in Nat :
                 /\ r \in (n * limit)..(n * limit + limit - 1)
                 /\ r \in (m * limit)..(m * limit + limit - 1)
                 => n = m
<1>1. PICK n \in Int, u \in 0..(limit - 1) : r = limit * n + u
      <2>1. r = limit * (r \div limit) + (r % limit) /\ r \div limit \in Int
            /\ r % limit \in 0..(limit - 1)
            OBVIOUS
      <2> QED BY <2>1
<1>2. ASSUME NEW a \in Int, NEW b \in Int, a < b PROVE a * limit + limit <= b * limit
  <2>1. b - a - 1 \in Nat BY <1>2
  <2>2. (b - a - 1) * limit \in Nat BY <2>1
  <2>3. (b - a - 1) * limit = b * limit - a * limit - limit OBVIOUS
  <2> QED BY <2>2, <2>3
<1>3. limit * n = n * limit OBVIOUS
<1>4. n \in Nat
  <2>1. ASSUME n < 0 PROVE FALSE
    <3>1. n * limit + limit <= 0 * limit BY <1>2, <2>1
    <3> QED BY <1>1, <1>3, <3>1
  <2> QED BY <2>1
<1>5. n <= r
  <2>1. CASE n = 0 BY <2>1
  <2>2. CASE n > 0
    <3>1. n * (limit - 1) \in Nat BY <1>4
    <3>2. n * limit = n * (limit - 1) + n OBVIOUS
    <3>3. n * limit >= n BY <1>4, <3>1, <3>2
    <3> QED BY <1>1, <1>3, <1>4, <3>3
  <2> QED BY <1>4, <2>1, <2>2
<1>6. r \in (n * limit)..(n * limit + limit - 1) BY <1>1, <1>3, <1>4
<1>7. ASSUME NEW a \in Nat, NEW b \in Nat,
             r \in (a * limit)..(a * limit + limit - 1),
             r \in (b * limit)..(b * limit + limit - 1)
      PROVE  a = b
  <2>1. ~(a < b) BY <1>2, <1>7
  <2>2. ~(b < a) BY <1>2, <1>7
  <2> QED BY <2>1, <2>2
<1> QED BY <1>4, <1>5, <1>6, <1>7

LEMMA PagesTile == RegistryInv => pagesTile
<1> SUFFICES ASSUME RegistryInv, NEW limit, limit \in {effectiveLimit(asked) : asked \in -1..(MaxLimit + 1)}
             PROVE  LET pages == {<<n, page(db, limit, n * limit)>> : n \in 0..MaxEvents}
                    IN  /\ UNION {p[2] : p \in pages} = db
                        /\ \A p, q \in pages : p[1] # q[1] => p[2] \cap q[2] = {}
                        /\ \A p \in pages : Cardinality(p[2]) <= limit
    BY DEF pagesTile
<1> DEFINE P(n) == page(db, limit, n * limit)
           pages == {<<n, P(n)>> : n \in 0..MaxEvents}
<1>1. limit \in Nat \ {0} BY LimitAssumption DEF effectiveLimit
<1>2. Rows(db) BY DEF RegistryInv, Rows
<1>3. \A n : P(n) = {e \in db : rank(db, e) \in (n * limit)..(n * limit + limit - 1)}
      BY PageRanks
<1>4. \A e \in db : rank(db, e) \in Nat /\ rank(db, e) <= MaxEvents
  <2>1. \A e \in db : Cardinality(db) \in Nat /\ rank(db, e) \in 0..(Cardinality(db) - 1)
        BY <1>2, RankBounds
  <2> QED BY <2>1, QueryAssumption DEF RegistryInv
<1> HIDE DEF P
<1>5. ASSUME NEW e \in db PROVE \E n \in 0..MaxEvents : e \in P(n)
  <2>1. PICK n \in 0..rank(db, e) : rank(db, e) \in (n * limit)..(n * limit + limit - 1)
        BY <1>1, <1>4, Stretches
  <2>2. n \in 0..MaxEvents BY <1>4, <2>1, QueryAssumption
  <2> QED BY <1>3, <2>1, <2>2
<1>6. ASSUME NEW n \in 0..MaxEvents, NEW m \in 0..MaxEvents, n # m PROVE P(n) \cap P(m) = {}
  <2>1. n \in Nat /\ m \in Nat OBVIOUS
  <2>2. ASSUME NEW e \in P(n) \cap P(m) PROVE FALSE
    <3>1. /\ e \in db
          /\ rank(db, e) \in (n * limit)..(n * limit + limit - 1)
          /\ rank(db, e) \in (m * limit)..(m * limit + limit - 1)
          BY <1>3, <2>2
    <3> QED BY <1>1, <1>4, <1>6, <2>1, <3>1, Stretches
  <2> QED BY <2>2
<1>7. ASSUME NEW n \in 0..MaxEvents PROVE Cardinality(P(n)) <= limit
  <2>1. PICK a, b : a = n * limit /\ b = n * limit + limit - 1 OBVIOUS
  <2>2. a \in Int /\ b \in Int /\ b - a + 1 = limit /\ ~(a > b) BY <1>1, <2>1
  <2>3. P(n) \in SUBSET db /\ \A e \in P(n) : rank(db, e) \in a..b BY <1>3, <2>1
  <2> QED BY <1>2, <2>2, <2>3, FewRanks
<1>8. UNION {p[2] : p \in pages} = db
  <2>1. \A p \in pages : p[2] \subseteq db BY <1>3
  <2>2. ASSUME NEW e \in db PROVE \E p \in pages : e \in p[2]
    <3>1. PICK n \in 0..MaxEvents : e \in P(n) BY <1>5
    <3>2. <<n, P(n)>> \in pages /\ <<n, P(n)>>[2] = P(n) OBVIOUS
    <3> QED BY <3>1, <3>2
  <2> QED BY <2>1, <2>2
<1>9. \A p, q \in pages : p[1] # q[1] => p[2] \cap q[2] = {} BY <1>6
<1>10. \A p \in pages : Cardinality(p[2]) <= limit BY <1>7
<1> QED BY <1>8, <1>9, <1>10 DEF P

-----------------------------------------------------------------------------
(* A listing while the registry grows *)

\* Without the alert filter a row matches whatever else is recorded.
LEMMA MatchingGrows ==
    ASSUME NEW D, NEW E, D \subseteq E, NEW p, ~p.alerted
    PROVE  matching(D, p) \subseteq matching(E, p) /\ matching(E, p) \subseteq E
BY DEF matching

now == matching(db, params)

\* Where the loop stands.  M matches, B matched at the beginning, G was collected
\* and T more than once: what matched at the beginning and has not been collected
\* is at the offset o or behind it, and what was collected twice is paid for by o.
Position(M, B, G, T, o) ==
    /\ o \in Nat /\ o <= Cardinality(M)
    /\ Cardinality(T) + Cardinality(G) <= o
    /\ \A e \in B \ G : rank(M, e) >= o

\* Nothing that matched at the beginning is passed over, and the COUNT of a page
\* has seen all of it.
ListingInv ==
    /\ RegistryInv
    /\ ~params.alerted
    /\ before \subseteq now /\ got \subseteq now /\ twice \subseteq got
    /\ pc = "idle" => offset = 0 /\ got = {} /\ twice = {}
    /\ pc \in {"idle", "count", "page"} => Position(now, before, got, twice, offset)
    /\ pc = "page" => total \in Nat /\ Cardinality(before) <= total
    /\ pc = "done" =>
          /\ Cardinality(before \ got) <= Cardinality(now \ before)
          /\ Cardinality(twice) <= Cardinality(now \ before)

\* The rows before a place and those from it on.
LEMMA SplitAt ==
    ASSUME NEW M, Rows(M), NEW n \in Nat, n <= Cardinality(M)
    PROVE  LET first == {e \in M : rank(M, e) < n}
           IN  /\ Cardinality(first) = n
               /\ Cardinality(M \ first) = Cardinality(M) - n
<1>1. PICK A : A = {e \in M : rank(M, e) < n} OBVIOUS
<1>2. PICK Z : Z = M \ A OBVIOUS
<1>3. PICK m : m = Cardinality(M) OBVIOUS
<1>4. IsFiniteSet(M) /\ m \in Nat BY <1>3, FS_CardinalityType DEF Rows
<1>5. \A e \in M : rank(M, e) \in 0..(m - 1) BY <1>3, RankBounds
<1>6. IsFiniteSet(A) /\ Cardinality(A) <= n
  <2>1. A \in SUBSET M /\ \A e \in A : rank(M, e) \in 0..(n - 1) BY <1>1, <1>4, <1>5
  <2>2. IsFiniteSet(A) /\ Cardinality(A) <= IF 0 > n - 1 THEN 0 ELSE (n - 1) - 0 + 1
        BY <2>1, FewRanks
  <2> QED BY <2>2
<1>7. IsFiniteSet(Z) /\ Cardinality(Z) <= m - n
  <2>1. Z \in SUBSET M /\ \A e \in Z : rank(M, e) \in n..(m - 1) BY <1>1, <1>2, <1>4, <1>5
  <2>2. IsFiniteSet(Z) /\ Cardinality(Z) <= IF n > m - 1 THEN 0 ELSE (m - 1) - n + 1
        BY <1>4, <2>1, FewRanks
  <2> QED BY <1>3, <1>4, <2>2
<1>8. Cardinality(A) + Cardinality(Z) = m
  <2>1. A \cup Z = M /\ A \cap Z = {} BY <1>1, <1>2
  <2>2. Cardinality(A \cup Z) = Cardinality(A) + Cardinality(Z) - Cardinality(A \cap Z)
        BY <1>6, <1>7, FS_Union
  <2>3. Cardinality(A) \in Nat /\ Cardinality(Z) \in Nat BY <1>6, <1>7, FS_CardinalityType
  <2> QED BY <1>3, <2>1, <2>2, <2>3, FS_EmptySet
<1>9. Cardinality(A) \in Nat /\ Cardinality(Z) \in Nat BY <1>6, <1>7, FS_CardinalityType
<1> QED BY <1>1, <1>2, <1>3, <1>4, <1>6, <1>7, <1>8, <1>9

\* One turn of the loop, with the page R.
LEMMA OnePage ==
    ASSUME NEW M, Rows(M), NEW B \in SUBSET M, NEW G \in SUBSET M, NEW T \in SUBSET G,
           NEW o, Position(M, B, G, T, o),
           NEW R, R = page(M, MaxLimit, o)
    PROVE  /\ Position(M, B, G \cup R, T \cup (G \cap R), o + Cardinality(R))
           /\ R = {} \/ o + Cardinality(R) >= Cardinality(B) =>
                 Cardinality(B \ (G \cup R)) <= Cardinality(M \ B)
           /\ Cardinality(T \cup (G \cap R)) <= Cardinality(M \ B)
<1>a. PICK n, H, U : n = o + Cardinality(R) /\ H = G \cup R /\ U = T \cup (G \cap R) OBVIOUS
<1>b. /\ o \in Nat /\ o <= Cardinality(M)
      /\ Cardinality(T) + Cardinality(G) <= o
      /\ \A e \in B \ G : rank(M, e) >= o
      BY DEF Position
<1> USE <1>a, <1>b
<1>1. PICK m, b, c : m = Cardinality(M) /\ b = Cardinality(B) /\ c = Cardinality(M \ B) OBVIOUS
<1>2. MaxLimit \in Nat \ {0} BY LimitAssumption
<1>3. IsFiniteSet(M) /\ m \in Nat BY <1>1, FS_CardinalityType DEF Rows
<1>4. R = {e \in M : rank(M, e) \in o..(o + MaxLimit - 1)} BY PageRanks
<1>5. \A e \in M : rank(M, e) \in 0..(m - 1) BY <1>1, RankBounds
<1>6. /\ R \in SUBSET M /\ H \in SUBSET M /\ U \in SUBSET M /\ M \ B \in SUBSET M
      /\ B \ H \in SUBSET M /\ G \cap R \in SUBSET M
      BY <1>4
<1>7. \A S \in SUBSET M : IsFiniteSet(S) /\ Cardinality(S) \in Nat
      BY <1>3, FS_Subset, FS_CardinalityType
<1>8. n \in Nat BY <1>6, <1>7
<1>9. Cardinality(R) <= MaxLimit
  <2>1. \A e \in R : rank(M, e) \in o..(o + MaxLimit - 1) BY <1>4
  <2>2. Cardinality(R) <= IF o > o + MaxLimit - 1 THEN 0 ELSE (o + MaxLimit - 1) - o + 1
        BY <1>2, <1>6, <2>1, FewRanks
  <2> QED BY <1>2, <2>2, <1>6, <1>7
<1>10. n <= m
  <2>1. PICK F : F = {e \in M : rank(M, e) < o} OBVIOUS
  <2>2. Cardinality(M \ F) = m - o BY <1>1, <2>1, SplitAt
  <2>3. R \in SUBSET (M \ F) /\ M \ F \in SUBSET M BY <1>2, <1>4, <1>5, <2>1
  <2>4. Cardinality(R) <= Cardinality(M \ F) BY <1>7, <2>3, FS_Subset
  <2> QED BY <1>1, <1>3, <1>6, <1>7, <2>2, <2>4
<1>11. Cardinality(U) + Cardinality(H) <= n
  <2>1. Cardinality(H) = Cardinality(G) + Cardinality(R) - Cardinality(G \cap R)
        BY <1>6, <1>7, FS_Union
  <2>2. /\ T \in SUBSET M /\ T \cap (G \cap R) \in SUBSET M
        /\ Cardinality(T) \in Nat /\ Cardinality(G) \in Nat /\ Cardinality(G \cap R) \in Nat
        /\ Cardinality(T \cap (G \cap R)) \in Nat
        BY <1>6, <1>7
  <2>3. Cardinality(U) = Cardinality(T) + Cardinality(G \cap R) - Cardinality(T \cap (G \cap R))
        BY <1>6, <1>7, <2>2, FS_Union
  <2> QED BY <1>6, <1>7, <2>1, <2>2, <2>3
<1>12. \A e \in B \ H : rank(M, e) >= n
  <2>1. SUFFICES ASSUME NEW e \in B \ H PROVE rank(M, e) >= n OBVIOUS
  <2>2. e \in M /\ rank(M, e) >= o /\ e \notin R OBVIOUS
  <2>3. rank(M, e) \in Nat BY <1>3, <1>5, <2>2
  <2>4. rank(M, e) >= o + MaxLimit BY <1>2, <1>4, <2>2, <2>3
  <2> QED BY <1>2, <1>6, <1>7, <1>9, <2>3, <2>4
<1>13. PICK A : A = {e \in M : rank(M, e) < n} OBVIOUS
<1>14. Cardinality(A) = n /\ Cardinality(M \ A) = m - n
       BY <1>1, <1>8, <1>10, <1>13, SplitAt
<1>15. B \ H \in SUBSET (M \ A) /\ M \ A \in SUBSET M /\ A \in SUBSET M
       BY <1>3, <1>5, <1>8, <1>12, <1>13
<1>16. Cardinality(B \ H) <= m - n BY <1>7, <1>14, <1>15, FS_Subset
<1>17. b + c = m /\ b \in Nat /\ c \in Nat
  <2>1. B \cup (M \ B) = M /\ B \cap (M \ B) = {} OBVIOUS
  <2>2. Cardinality(B \cup (M \ B)) = b + c - Cardinality(B \cap (M \ B))
        BY <1>1, <1>6, <1>7, FS_Union
  <2>3. b \in Nat /\ c \in Nat BY <1>1, <1>6, <1>7
  <2>4. Cardinality(M) = b + c - Cardinality({}) BY <2>1, <2>2
  <2>5. Cardinality({}) = 0 BY FS_EmptySet
  <2> QED BY <1>1, <2>3, <2>4, <2>5
<1>18. n >= b => Cardinality(B \ H) <= c
       BY <1>3, <1>6, <1>7, <1>8, <1>16, <1>17
<1>19. R = {} => B \ H = {}
  <2>1. SUFFICES ASSUME R = {}, NEW e \in B \ H PROVE FALSE OBVIOUS
  <2>2. n = o BY <2>1, FS_EmptySet
  <2>3. PICK k : k = o + MaxLimit OBVIOUS
  <2>4. ASSUME NEW f \in M \ A PROVE rank(M, f) \in k..(m - 1)
    <3>1. f \in M /\ f \notin R BY <2>1
    <3>2. rank(M, f) \in Nat /\ rank(M, f) <= m - 1 BY <1>3, <1>5, <3>1
    <3>3. rank(M, f) \notin o..(o + MaxLimit - 1) BY <1>4, <3>1
    <3>4. ~(rank(M, f) < n) BY <1>13, <2>4
    <3> QED BY <1>2, <1>3, <2>2, <2>3, <3>2, <3>3, <3>4
  <2>5. Cardinality(M \ A) <= IF k > m - 1 THEN 0 ELSE (m - 1) - k + 1
    <3>1. k \in Int /\ m - 1 \in Int BY <1>2, <1>3, <2>3
    <3>2. PICK Z : Z = M \ A OBVIOUS
    <3>3. Z \in SUBSET M /\ \A f \in Z : rank(M, f) \in k..(m - 1) BY <1>15, <2>4, <3>2
    <3> QED BY <3>1, <3>2, <3>3, FewRanks
  <2>6. e \in M \ A BY <1>15, <2>1
  <2>7. rank(M, e) >= k /\ rank(M, e) <= m - 1 /\ rank(M, e) \in Nat
        BY <1>3, <1>5, <1>15, <2>3, <2>4, <2>6
  <2> QED BY <1>2, <1>3, <1>14, <2>2, <2>3, <2>5, <2>7
<1>20. Cardinality(U) <= c
  <2>1. A \in SUBSET (H \cup (M \ B)) BY <1>12, <1>13, <1>3, <1>5, <1>8
  <2>2. H \cup (M \ B) \in SUBSET M /\ H \cap (M \ B) \in SUBSET M BY <1>6
  <2>3. n <= Cardinality(H \cup (M \ B)) BY <1>7, <1>14, <2>1, <2>2, FS_Subset
  <2>4. Cardinality(H \cup (M \ B)) = Cardinality(H) + c - Cardinality(H \cap (M \ B))
        BY <1>1, <1>6, <1>7, FS_Union
  <2>5. Cardinality(H \cup (M \ B)) \in Nat /\ Cardinality(H \cap (M \ B)) \in Nat
        BY <1>7, <2>2
  <2> QED BY <1>6, <1>7, <1>8, <1>11, <1>17, <2>3, <2>4, <2>5
<1>21. R = {} => Cardinality(B \ H) <= c BY <1>17, <1>19, FS_EmptySet
<1>22. Position(M, B, H, U, n) BY <1>1, <1>8, <1>10, <1>11, <1>12 DEF Position
<1> QED BY <1>1, <1>18, <1>20, <1>21, <1>22

-----------------------------------------------------------------------------
(* The listing's invariant *)

LEMMA ListingStarts == ListInit => ListingInv
<1> SUFFICES ASSUME ListInit PROVE ListingInv OBVIOUS
<1>1. RegistryInv BY FS_EmptySet, QueryAssumption DEF ListInit, Init, RegistryInv
<1>2. ~params.alerted BY DEF ListInit, NoParams
<1>3. now = {} BY DEF ListInit, Init, now, matching
<1>4. Cardinality(now) = 0 BY <1>3, FS_EmptySet
<1>5. Position(now, before, got, twice, offset)
      BY <1>4, FS_EmptySet DEF ListInit, Position
<1> QED BY <1>1, <1>2, <1>3, <1>5 DEF ListInit, ListingInv

\* What a listing reads can be ordered.
LEMMA NowIsRows ==
    ASSUME RegistryInv, NEW p
    PROVE  Rows(matching(db, p))
<1>1. matching(db, p) \in SUBSET db BY DEF matching
<1> QED BY <1>1, FS_Subset DEF RegistryInv, Rows

LEMMA BeginOK == ListingInv /\ Begin => ListingInv'
<1> SUFFICES ASSUME ListingInv, Begin PROVE ListingInv' OBVIOUS
<1>1. RegistryInv /\ RegistryInv' BY DEF Begin, ListingInv, RegistryInv, registry
<1>2. /\ offset' = 0 /\ got' = {} /\ twice' = {} /\ pc' = "count" /\ db' = db
      BY DEF Begin, ListingInv, registry
<1>3. ~params'.alerted BY <1>1, PagingAssumption DEF Begin, RegistryInv
<1>4. now' = matching(db, params') /\ before' = now' BY <1>2 DEF Begin, now
<1>5. Rows(now') BY <1>1, <1>4, NowIsRows
<1>6. /\ Cardinality(now') \in Nat /\ \A e \in before' : rank(now', e) >= 0
  <2>1. Cardinality(now') \in Nat BY <1>5, FS_CardinalityType DEF Rows
  <2>2. \A e \in now' : rank(now', e) \in 0..(Cardinality(now') - 1) BY <1>5, RankBounds
  <2> QED BY <1>4, <2>1, <2>2
<1>7. Position(now, before, got, twice, offset)'
      BY <1>2, <1>6, FS_EmptySet DEF Position
<1> QED BY <1>1, <1>2, <1>3, <1>4, <1>7 DEF ListingInv

LEMMA CountOK == ListingInv /\ Count => ListingInv'
<1> SUFFICES ASSUME ListingInv, Count PROVE ListingInv' OBVIOUS
<1>1. /\ UNCHANGED <<db, workload, params, offset, got, twice, before>>
      /\ pc = "count" /\ pc' = "page" /\ total' = Cardinality(now)
      BY DEF Count, registry, now
<1>2. RegistryInv /\ RegistryInv' BY <1>1 DEF ListingInv, RegistryInv
<1>3. now' = now BY <1>1 DEF now
<1>4. Rows(now) BY <1>2, NowIsRows DEF now
<1>5. Cardinality(now) \in Nat /\ Cardinality(before) <= Cardinality(now)
  <2>1. before \in SUBSET now /\ IsFiniteSet(now) BY <1>4 DEF ListingInv, Rows
  <2> QED BY <2>1, FS_Subset, FS_CardinalityType
<1>6. Position(now, before, got, twice, offset)'
      BY <1>1, <1>3 DEF ListingInv, Position, rank
<1> QED BY <1>1, <1>2, <1>3, <1>5, <1>6 DEF ListingInv

LEMMA PageOK == ListingInv /\ Page => ListingInv'
<1> SUFFICES ASSUME ListingInv, Page PROVE ListingInv' OBVIOUS
<1>1. UNCHANGED <<db, workload, params, total, before>> /\ pc = "page" BY DEF Page, registry
<1>2. RegistryInv /\ RegistryInv' BY <1>1 DEF ListingInv, RegistryInv
<1>3. now' = now BY <1>1 DEF now
<1>4. PICK M, B, G, T, o : M = now /\ B = before /\ G = got /\ T = twice /\ o = offset
      OBVIOUS
<1>5. PICK R : R = page(M, MaxLimit, o) OBVIOUS
<1>6. PICK n, H, U : n = o + Cardinality(R) /\ H = G \cup R /\ U = T \cup (G \cap R) OBVIOUS
<1>7. /\ got' = H /\ twice' = U
      /\ IF R = {} \/ n >= total THEN pc' = "done" /\ offset' = o
         ELSE pc' = "count" /\ offset' = n
      BY <1>4, <1>5, <1>6 DEF Page, now
<1>8. Rows(M) BY <1>2, <1>4, NowIsRows DEF now
<1>9. /\ B \in SUBSET M /\ G \in SUBSET M /\ T \in SUBSET G /\ Position(M, B, G, T, o)
      BY <1>1, <1>4 DEF ListingInv
<1>10. /\ Position(M, B, H, U, n)
       /\ R = {} \/ n >= Cardinality(B) => Cardinality(B \ H) <= Cardinality(M \ B)
       /\ Cardinality(U) <= Cardinality(M \ B)
       BY <1>5, <1>6, <1>8, <1>9, OnePage
<1>11. Cardinality(B) \in Nat /\ total \in Nat /\ Cardinality(B) <= total
  <2>1. IsFiniteSet(B) BY <1>8, <1>9, FS_Subset DEF Rows
  <2> QED BY <1>1, <1>4, <2>1, FS_CardinalityType DEF ListingInv
<1>12. H \in SUBSET M /\ U \in SUBSET H BY <1>5, <1>6, <1>9 DEF page
<1>13. /\ before' = B /\ now' = M /\ ~params'.alerted BY <1>1, <1>3, <1>4 DEF ListingInv
<1>14. /\ (before \subseteq now)' /\ (got \subseteq now)' /\ (twice \subseteq got)'
       BY <1>7, <1>9, <1>12, <1>13
<1>15. CASE R = {} \/ n >= total
  <2>1. pc' = "done" BY <1>7, <1>15
  <2>2. n \in Nat BY <1>10 DEF Position
  <2>3. Cardinality(B \ H) <= Cardinality(M \ B) BY <1>10, <1>11, <1>15, <2>2
  <2>4. /\ (Cardinality(before \ got) <= Cardinality(now \ before))'
        /\ (Cardinality(twice) <= Cardinality(now \ before))'
        BY <1>7, <1>10, <1>13, <2>3
  <2> QED BY <1>2, <1>13, <1>14, <2>1, <2>4 DEF ListingInv
<1>16. CASE ~(R = {} \/ n >= total)
  <2>1. pc' = "count" /\ offset' = n BY <1>7, <1>16
  <2>2. Position(now, before, got, twice, offset)' BY <1>7, <1>10, <1>13, <2>1
  <2> QED BY <1>2, <1>13, <1>14, <2>1, <2>2 DEF ListingInv
<1> QED BY <1>15, <1>16

LEMMA GrowOK == ListingInv /\ Grow => ListingInv'
<1> SUFFICES ASSUME ListingInv, Grow PROVE ListingInv' OBVIOUS
<1>1. UNCHANGED <<pc, params, offset, total, got, twice, before>> BY DEF Grow, listing
<1>2. RegistryInv BY DEF ListingInv
<1>3. RegistryInv' /\ db \subseteq db' BY <1>2, RecordOK DEF Grow
<1>4. PICK p : p = params OBVIOUS
<1>5. now' = matching(db', p) /\ now = matching(db, p) /\ ~p.alerted
      BY <1>1, <1>4 DEF now, ListingInv
<1>6. now \subseteq now' BY <1>3, <1>5, MatchingGrows
<1>7. Rows(now) BY <1>2, <1>5, NowIsRows
<1>8. Rows(now')
  <2>1. now' \in SUBSET db' BY <1>5 DEF matching
  <2> QED BY <1>3, <2>1, FS_Subset DEF RegistryInv, Rows
<1>9. PICK M, N, B : M = now /\ N = now' /\ B = before OBVIOUS
<1>10. /\ Cardinality(M) \in Nat /\ Cardinality(N) \in Nat /\ Cardinality(M) <= Cardinality(N)
       BY <1>6, <1>7, <1>8, <1>9, FS_Subset, FS_CardinalityType DEF Rows
<1>11. ASSUME NEW e \in M
       PROVE  rank(M, e) \in Nat /\ rank(N, e) \in Nat /\ rank(M, e) <= rank(N, e)
       BY <1>6, <1>7, <1>8, <1>9, <1>11, RankMonotone, RankBounds
<1>12. /\ Cardinality(M \ B) <= Cardinality(N \ B)
       /\ Cardinality(M \ B) \in Nat /\ Cardinality(N \ B) \in Nat
  <2>1. M \ B \in SUBSET (N \ B) /\ N \ B \in SUBSET N BY <1>6, <1>9
  <2>2. IsFiniteSet(N \ B) BY <1>8, <1>9, <2>1, FS_Subset DEF Rows
  <2> QED BY <2>1, <2>2, FS_Subset, FS_CardinalityType
<1>13. ASSUME NEW S \in SUBSET M PROVE Cardinality(S) \in Nat
       BY <1>7, <1>9, FS_Subset, FS_CardinalityType DEF Rows
<1>14. /\ before \in SUBSET M /\ got \in SUBSET M /\ twice \in SUBSET M /\ before \ got \in SUBSET M
       BY <1>9 DEF ListingInv
<1>15. ASSUME pc \in {"idle", "count", "page"}
       PROVE  Position(now, before, got, twice, offset)'
  <2>1. /\ offset \in Nat /\ offset <= Cardinality(M)
        /\ Cardinality(twice) + Cardinality(got) <= offset
        /\ \A e \in before \ got : rank(M, e) >= offset
        BY <1>9, <1>15 DEF ListingInv, Position
  <2>2. \A e \in before \ got : rank(N, e) >= offset BY <1>11, <1>14, <2>1
  <2> QED BY <1>1, <1>9, <1>10, <2>1, <2>2 DEF Position
<1>16. ASSUME pc = "done"
       PROVE  /\ (Cardinality(before \ got) <= Cardinality(now \ before))'
              /\ (Cardinality(twice) <= Cardinality(now \ before))'
  <2>1. /\ Cardinality(before \ got) <= Cardinality(M \ B)
        /\ Cardinality(twice) <= Cardinality(M \ B)
        BY <1>9, <1>16 DEF ListingInv
  <2> QED BY <1>1, <1>9, <1>12, <1>13, <1>14, <2>1
<1>17. /\ (before \subseteq now)' /\ (got \subseteq now)' /\ (twice \subseteq got)'
       /\ (~params.alerted)'
       BY <1>1, <1>6 DEF ListingInv
<1>18. /\ (pc = "idle" => offset = 0 /\ got = {} /\ twice = {})'
       /\ (pc = "page" => total \in Nat /\ Cardinality(before) <= total)'
       BY <1>1 DEF ListingInv
<1> QED BY <1>1, <1>3, <1>15, <1>16, <1>17, <1>18 DEF ListingInv

LEMMA StillOK == ListingInv /\ UNCHANGED pvars => ListingInv'
BY DEF ListingInv, Position, RegistryInv, now, rank, preceding, pvars, registry, listing

LEMMA FailOK == ListingInv /\ Fail => ListingInv'
<1> SUFFICES ASSUME ListingInv, Fail PROVE ListingInv' OBVIOUS
<1>1. UNCHANGED <<db, workload, params, before, got, twice>> /\ pc' = "failed"
      BY DEF Fail, registry
<1> QED BY <1>1 DEF ListingInv, RegistryInv, now

LEMMA ListingStep == ListingInv /\ [ListNext]_pvars => ListingInv'
BY BeginOK, CountOK, PageOK, FailOK, GrowOK, StillOK DEF ListNext, Stop

LEMMA ListingHolds == ListSpec => []ListingInv
BY ListingStarts, ListingStep, PTL DEF ListSpec

-----------------------------------------------------------------------------
(* Reading star and alert state *)

metas(D, I) == {e \in D : e.parent \in I /\ e.type \in Transitions}
ofKind(R, i, k) == {e \in R : e.parent = i /\ kindOf(e.type) = k}

\* Among the rows R, t is the newest transition of the kind; None if there is none.
Tells(R, i, k, t) ==
    IF t = None THEN ofKind(R, i, k) = {}
    ELSE \E e \in ofKind(R, i, k) : e.type = t /\ \A f \in ofKind(R, i, k) : f.seq <= e.seq

\* What a statement sees: distinct sequence numbers, and parents that are there.
Snapshot(D) ==
    /\ D \subseteq Events
    /\ \A e, f \in D : e.seq = f.seq => e = f
    /\ \A e \in D : e.parent # None => \E f \in D : f.id = e.parent

seen == metas(snapshot, DOMAIN verdict) \ unread

\* The loop has come to the rows with the largest sequence numbers, and each
\* verdict is the newest of them.
WalkInv ==
    /\ RegistryInv
    /\ Snapshot(snapshot)
    /\ DOMAIN verdict \subseteq Nat
    /\ verdict \in [DOMAIN verdict -> [Kinds -> Transitions \cup {None}]]
    /\ unread \subseteq metas(snapshot, DOMAIN verdict)
    /\ \A e \in seen, f \in unread : f.seq < e.seq
    /\ \A i \in DOMAIN verdict, k \in Kinds : Tells(seen, i, k, verdict[i][k])
    /\ reader = "done" => unread = {} \/ \A i \in DOMAIN verdict, k \in Kinds : verdict[i][k] # None

LEMMA NoneIsNoTransition == None \notin Transitions /\ None \notin Nat
BY TextAssumption, QueryAssumption

LEMMA KindOfTransition == \A t \in Transitions : kindOf(t) \in Kinds
BY DEF Transitions, kindOf, Kinds

\* The toggle's read is of the meta-events of one kind.
LEMMA TransitionsOfKind ==
    ASSUME NEW D, NEW I, NEW i \in I, NEW k \in Kinds
    PROVE  transitionsOf(D, i, k) = ofKind(metas(D, I), i, k)
BY DEF transitionsOf, ofKind, metas, Kinds, kindOf, Transitions, activeType, inactiveType

\* The AlertedOnly filter alone.
LEMMA MatchingAlerted ==
    ASSUME NEW D
    PROVE  matching(D, [NoParams EXCEPT !.alerted = TRUE]) = {e \in D : e.id \in alertedParents(D)}
<1>1. PICK p : p = [NoParams EXCEPT !.alerted = TRUE] OBVIOUS
<1>2. /\ p.parent = None /\ p.type = EmptyText /\ ~p.topLevel /\ p.alerted
      /\ p.after = None /\ p.before = None /\ p.around = None
      /\ \A k \in TagKeys : p.tags[k] = None
      BY <1>1 DEF NoParams, NoTags
<1>3. \A ts : inTime(p, ts) BY <1>2 DEF inTime
<1>4. matching(D, p) = {e \in D : e.id \in alertedParents(D)} BY <1>2, <1>3 DEF matching
<1> QED BY <1>1, <1>4

\* The subquery finds the parents whose newest alert transition is an alert.
LEMMA AlertedIsActive ==
    ASSUME NEW D, Snapshot(D), NEW i \in Nat
    PROVE  i \in alertedParents(D) <=> isActive(D, i, "alert")
<1>1. i # None BY NoneIsNoTransition
<1>2. \A e \in D : e.seq \in Nat BY DEF Snapshot, Events
<1>3. activeType("alert") = "alert" /\ inactiveType("alert") = "clear-alert"
      BY DEF activeType, inactiveType
<1>4. PICK T : T = transitionsOf(D, i, "alert") OBVIOUS
<1>5. T = {e \in D : e.parent = i /\ e.type \in {"alert", "clear-alert"}}
      BY <1>3, <1>4 DEF transitionsOf
<1>6. isActive(D, i, "alert") <=> \E e \in T : e.type = "alert" /\ \A f \in T : f.seq <= e.seq
      BY <1>3, <1>4 DEF isActive
<1>7. i \in alertedParents(D) <=> \E e \in T : e.type = "alert" /\ ~\E f \in T : f.seq > e.seq
      BY <1>1, <1>5 DEF alertedParents
<1>8. \A e, f \in T : f.seq <= e.seq <=> ~(f.seq > e.seq) BY <1>2, <1>5
<1> QED BY <1>6, <1>7, <1>8

\* A verdict on all meta-events is what the toggle would read.
LEMMA VerdictIsActive ==
    ASSUME NEW D, NEW I, NEW i \in I, NEW k \in Kinds, NEW t, Snapshot(D),
           Tells(metas(D, I), i, k, t)
    PROVE  t = activeType(k) <=> isActive(D, i, k)
<1>1. PICK T : T = ofKind(metas(D, I), i, k) OBVIOUS
<1>2. isActive(D, i, k) <=> \E e \in T : e.type = activeType(k) /\ \A f \in T : f.seq <= e.seq
      BY <1>1, TransitionsOfKind DEF isActive
<1>3. activeType(k) # None BY NoneIsNoTransition DEF activeType, Transitions
<1>4. CASE t = None BY <1>1, <1>2, <1>3, <1>4 DEF Tells
<1>5. CASE t # None
  <2>1. PICK e \in T : e.type = t /\ \A f \in T : f.seq <= e.seq BY <1>1, <1>5 DEF Tells
  <2>2. T \subseteq D BY <1>1 DEF ofKind, metas
  <2>3. \A f \in T : (\A g \in T : g.seq <= f.seq) => f = e
    <3>1. SUFFICES ASSUME NEW f \in T, \A g \in T : g.seq <= f.seq PROVE f = e OBVIOUS
    <3>2. f.seq \in Nat /\ e.seq \in Nat BY <2>2 DEF Snapshot, Events
    <3>3. f.seq = e.seq BY <2>1, <3>1, <3>2
    <3> QED BY <2>2, <3>3 DEF Snapshot
  <2> QED BY <1>2, <2>1, <2>3
<1> QED BY <1>4, <1>5

LEMMA WalkStarts == WalkInit => WalkInv
<1> SUFFICES ASSUME WalkInit PROVE WalkInv OBVIOUS
<1>1. RegistryInv BY FS_EmptySet, QueryAssumption DEF WalkInit, Init, RegistryInv
<1>2. verdict = [i \in {} |-> [k \in Kinds |-> None]] BY DEF WalkInit
<1>3. DOMAIN verdict = {} /\ verdict \in [DOMAIN verdict -> [Kinds -> Transitions \cup {None}]]
      BY <1>2
<1> QED BY <1>1, <1>3 DEF WalkInit, WalkInv, Snapshot, seen, metas

\* The statement runs: no row has been read.
LEMMA SelectOK ==
    ASSUME WalkInv, NEW I \in SUBSET Nat, selectMetas(I), reader' # "done"
    PROVE  WalkInv'
<1>1. db' = db /\ workload' = workload /\ snapshot' = db /\ unread' = metas(db, I)
      BY DEF selectMetas, registry, metas
<1>2. verdict' = [i \in I |-> [k \in Kinds |-> None]] BY DEF selectMetas
<1>3. DOMAIN verdict' = I /\ \A i \in I, k \in Kinds : verdict'[i][k] = None BY <1>2
<1>4. verdict' \in [I -> [Kinds -> Transitions \cup {None}]] BY <1>2
<1>5. RegistryInv' /\ Snapshot(snapshot)' BY <1>1 DEF WalkInv, RegistryInv, Snapshot
<1>6. seen' = {} BY <1>1, <1>3 DEF seen
<1>7. \A i \in I, k \in Kinds : Tells(seen', i, k, verdict'[i][k])
      BY <1>3, <1>6 DEF Tells, ofKind
<1>8. unread' \subseteq metas(snapshot', DOMAIN verdict') BY <1>1, <1>3
<1> QED BY <1>3, <1>4, <1>5, <1>6, <1>7, <1>8 DEF WalkInv

\* One row more: it is older than those seen and newer than those to come.
LEMMA ScanOK == WalkInv /\ Scan => WalkInv'
<1> SUFFICES ASSUME WalkInv, Scan PROVE WalkInv' OBVIOUS
<1>1. UNCHANGED <<db, workload, reader, snapshot>> /\ reader # "done" BY DEF Scan, registry, reading
<1>2. PICK e \in unread :
          /\ newest(e)
          /\ unread' = unread \ {e}
          /\ verdict' = IF verdict[e.parent][kindOf(e.type)] # None THEN verdict
                        ELSE [verdict EXCEPT ![e.parent][kindOf(e.type)] = e.type]
      BY DEF Scan
<1>3. PICK I : I = DOMAIN verdict OBVIOUS
<1>4. PICK M : M = metas(snapshot, I) OBVIOUS
<1>5. PICK p, k0 : p = e.parent /\ k0 = kindOf(e.type) OBVIOUS
<1>6. e \in M /\ p \in I /\ k0 \in Kinds /\ e.type \in Transitions
      BY <1>3, <1>4, <1>5, KindOfTransition DEF WalkInv, metas
<1>7. \A f \in M : f.seq \in Nat BY <1>4 DEF WalkInv, Snapshot, Events, metas
<1>8. verdict \in [I -> [Kinds -> Transitions \cup {None}]] BY <1>3 DEF WalkInv
<1>9. verdict' = IF verdict[p][k0] # None THEN verdict ELSE [verdict EXCEPT ![p][k0] = e.type]
      BY <1>2, <1>5
<1>10. verdict' \in [I -> [Kinds -> Transitions \cup {None}]] BY <1>6, <1>8, <1>9
<1>11. DOMAIN verdict' = I BY <1>10
<1>12. PICK S : S = seen OBVIOUS
<1>13. S = M \ unread /\ unread \subseteq M BY <1>3, <1>4, <1>12 DEF seen, WalkInv
<1>14. seen' = S \cup {e} BY <1>1, <1>2, <1>4, <1>6, <1>11, <1>13 DEF seen
<1>15. \A f \in S, g \in unread : g.seq < f.seq BY <1>12 DEF WalkInv
<1>16. \A f \in S \cup {e}, g \in unread' : g.seq < f.seq
  <2>1. SUFFICES ASSUME NEW g \in unread' PROVE g.seq < e.seq BY <1>2, <1>15
  <2>2. g \in M /\ e \in M /\ g # e /\ g.seq <= e.seq BY <1>2, <1>6, <1>13 DEF newest
  <2>3. g.seq # e.seq BY <2>2, <1>4 DEF WalkInv, Snapshot, metas
  <2> QED BY <1>7, <2>2, <2>3
<1>17. ASSUME NEW i \in I, NEW k \in Kinds
       PROVE  Tells(S \cup {e}, i, k, verdict'[i][k])
  <2>1. Tells(S, i, k, verdict[i][k]) BY <1>3, <1>12 DEF WalkInv
  <2>2. CASE i = p /\ k = k0 /\ verdict[p][k0] = None
    <3>1. verdict'[i][k] = e.type BY <1>6, <1>8, <1>9, <2>2
    <3>2. ofKind(S, i, k) = {} BY <2>1, <2>2 DEF Tells
    <3>3. ofKind(S \cup {e}, i, k) = {e} BY <1>5, <2>2, <3>2 DEF ofKind
    <3>4. e.type # None /\ e.seq <= e.seq BY <1>6, <1>7, NoneIsNoTransition
    <3> QED BY <3>1, <3>3, <3>4 DEF Tells
  <2>3. CASE i = p /\ k = k0 /\ verdict[p][k0] # None
    <3>1. verdict'[i][k] = verdict[i][k] BY <1>9, <2>3
    <3>2. PICK f \in ofKind(S, i, k) : f.type = verdict[i][k] /\ \A g \in ofKind(S, i, k) : g.seq <= f.seq
          BY <2>1, <2>3 DEF Tells
    <3>3. ofKind(S \cup {e}, i, k) = ofKind(S, i, k) \cup {e} BY <1>5, <2>3 DEF ofKind
    <3>4. f \in S /\ f \in M BY <3>2, <1>13 DEF ofKind
    <3>5. e.seq <= f.seq BY <1>6, <1>7, <1>15, <3>4
    <3> QED BY <2>3, <3>1, <3>2, <3>3, <3>5 DEF Tells
  <2>4. CASE i # p \/ k # k0
    <3>1. verdict'[i][k] = verdict[i][k] BY <1>6, <1>8, <1>9, <2>4
    <3>2. ofKind(S \cup {e}, i, k) = ofKind(S, i, k) BY <1>5, <2>4 DEF ofKind
    <3> QED BY <2>1, <3>1, <3>2 DEF Tells
  <2> QED BY <2>2, <2>3, <2>4
<1>18. RegistryInv' /\ Snapshot(snapshot)' BY <1>1 DEF WalkInv, RegistryInv, Snapshot
<1>19. unread' \subseteq metas(snapshot', I) BY <1>1, <1>2, <1>4, <1>13
<1>20. I \subseteq Nat BY <1>3 DEF WalkInv
<1> QED BY <1>1, <1>10, <1>11, <1>14, <1>16, <1>17, <1>18, <1>19, <1>20 DEF WalkInv

LEMMA FinishOK == WalkInv /\ (Finish \/ Interrupt) => WalkInv'
<1> SUFFICES ASSUME WalkInv, Finish \/ Interrupt PROVE WalkInv' OBVIOUS
<1>1. UNCHANGED <<db, workload, snapshot, unread, verdict>> BY DEF Finish, Interrupt, registry
<1>2. reader' = "done" => unread = {} \/ \A i \in DOMAIN verdict, k \in Kinds : verdict[i][k] # None
      BY DEF Finish, Interrupt, decided
<1>3. RegistryInv' BY <1>1 DEF WalkInv, RegistryInv
<1>4. Snapshot(snapshot)' /\ seen' = seen BY <1>1 DEF WalkInv, Snapshot, seen
<1> QED BY <1>1, <1>2, <1>3, <1>4 DEF WalkInv

LEMMA MeanwhileOK == WalkInv /\ Meanwhile => WalkInv'
<1> SUFFICES ASSUME WalkInv, Meanwhile PROVE WalkInv' OBVIOUS
<1>1. UNCHANGED <<reader, snapshot, unread, verdict>> BY DEF Meanwhile, walk
<1>2. RegistryInv' BY RecordOK DEF WalkInv, Meanwhile
<1>3. Snapshot(snapshot)' /\ seen' = seen BY <1>1 DEF WalkInv, Snapshot, seen
<1> QED BY <1>1, <1>2, <1>3 DEF WalkInv

LEMMA WalkStep == WalkInv /\ [WalkNext]_wvars => WalkInv'
<1> SUFFICES ASSUME WalkInv, [WalkNext]_wvars PROVE WalkInv' OBVIOUS
<1>1. ASSUME NEW e \in Workloads[workload], GetAnnotations(e.id) PROVE WalkInv'
  <2>1. e.id \in Nat BY QueryAssumption DEF WalkInv, RegistryInv, Events
  <2> QED BY <1>1, <2>1, SelectOK DEF GetAnnotations
<1>2. ASSUME NEW ids \in SUBSET {e.id : e \in db}, GetAnnotationsBatch(ids) PROVE WalkInv'
  <2>1. ids \in SUBSET Nat BY DEF WalkInv, RegistryInv, Events
  <2> QED BY <1>2, <2>1, SelectOK DEF GetAnnotationsBatch
<1>3. CASE UNCHANGED wvars
  <2>1. UNCHANGED <<db, workload, reader, snapshot, unread, verdict>> BY <1>3 DEF wvars, walk, registry
  <2>2. RegistryInv' BY <2>1 DEF WalkInv, RegistryInv
  <2>3. Snapshot(snapshot)' /\ seen' = seen BY <2>1 DEF WalkInv, Snapshot, seen
  <2> QED BY <2>1, <2>2, <2>3 DEF WalkInv
<1> QED BY <1>1, <1>2, <1>3, ScanOK, FinishOK, MeanwhileOK DEF WalkNext, Answered

LEMMA WalkHolds == WalkSpec => []WalkInv
BY WalkStarts, WalkStep, PTL DEF WalkSpec

\* A loop that is done has the verdict of all meta-events: no row is left, or
\* those left are older than the newest of each kind.
LEMMA DoneTellsAll ==
    ASSUME WalkInv, reader = "done", NEW i \in DOMAIN verdict, NEW k \in Kinds
    PROVE  Tells(metas(snapshot, DOMAIN verdict), i, k, verdict[i][k])
<1>1. PICK M : M = metas(snapshot, DOMAIN verdict) OBVIOUS
<1>2. PICK S : S = seen OBVIOUS
<1>3. S = M \ unread /\ unread \subseteq M BY <1>1, <1>2 DEF seen, WalkInv
<1>4. Tells(S, i, k, verdict[i][k]) BY <1>2 DEF WalkInv
<1>5. CASE unread = {} BY <1>1, <1>3, <1>4, <1>5
<1>6. CASE verdict[i][k] # None
  <2>1. PICK e \in ofKind(S, i, k) : e.type = verdict[i][k] /\ \A f \in ofKind(S, i, k) : f.seq <= e.seq
        BY <1>4, <1>6 DEF Tells
  <2>2. e \in S /\ e \in ofKind(M, i, k) BY <2>1, <1>3 DEF ofKind
  <2>3. \A f \in unread : f.seq < e.seq BY <1>2, <2>2 DEF WalkInv
  <2>4. \A f \in M : f.seq \in Nat BY <1>1 DEF WalkInv, Snapshot, Events, metas
  <2>5. \A f \in ofKind(M, i, k) : f.seq <= e.seq
    <3>1. SUFFICES ASSUME NEW f \in ofKind(M, i, k) PROVE f.seq <= e.seq OBVIOUS
    <3>2. f \in M /\ (f \in unread \/ f \in ofKind(S, i, k)) BY <1>3 DEF ofKind
    <3>3. e \in M BY <1>3, <2>2
    <3> QED BY <2>1, <2>3, <2>4, <3>2, <3>3
  <2> QED BY <1>1, <1>6, <2>1, <2>2, <2>5 DEF Tells
<1> QED BY <1>5, <1>6 DEF WalkInv

LEMMA ReadersAgreeHere == WalkInv => AnnotationReadersAgree
<1> SUFFICES ASSUME WalkInv, reader = "done", NEW i \in DOMAIN verdict
             PROVE  /\ \A k \in Kinds : verdict[i][k] = activeType(k) <=> isActive(snapshot, i, k)
                    /\ verdict[i]["alert"] = "alert" <=>
                          \E e \in matching(snapshot, [NoParams EXCEPT !.alerted = TRUE]) : e.id = i
    BY DEF AnnotationReadersAgree
<1>1. i \in Nat /\ Snapshot(snapshot) BY DEF WalkInv
<1>2. \A k \in Kinds : verdict[i][k] = activeType(k) <=> isActive(snapshot, i, k)
      BY <1>1, DoneTellsAll, VerdictIsActive
<1>3. verdict[i]["alert"] = "alert" <=> i \in alertedParents(snapshot)
      BY <1>1, <1>2, AlertedIsActive DEF Kinds, activeType
<1>4. i \in alertedParents(snapshot) => \E e \in snapshot : e.id = i
  <2>1. SUFFICES ASSUME i \in alertedParents(snapshot) PROVE \E e \in snapshot : e.id = i OBVIOUS
  <2>2. PICK m \in snapshot : m.parent = i BY <2>1 DEF alertedParents
  <2> QED BY <1>1, <2>2, NoneIsNoTransition DEF Snapshot
<1>5. i \in alertedParents(snapshot) <=>
         \E e \in matching(snapshot, [NoParams EXCEPT !.alerted = TRUE]) : e.id = i
  <2>1. PICK A : A = alertedParents(snapshot) OBVIOUS
  <2>2. PICK M : M = matching(snapshot, [NoParams EXCEPT !.alerted = TRUE]) OBVIOUS
  <2>3. M = {e \in snapshot : e.id \in A} BY <2>1, <2>2, MatchingAlerted
  <2>4. i \in A => \E e \in snapshot : e.id = i BY <1>4, <2>1
  <2>5. i \in A <=> \E e \in M : e.id = i BY <2>3, <2>4
  <2> QED BY <2>1, <2>2, <2>5
<1> QED BY <1>2, <1>3, <1>5

-----------------------------------------------------------------------------
(* Keeping part of a sequence *)

upTo(P, i) == {j \in P : j <= i}
placesIn(s, K) == {i \in DOMAIN s : s[i] \in K}

LEMMA CountUpTo ==
    ASSUME NEW P \in SUBSET Nat, IsFiniteSet(P), NEW i \in P
    PROVE  IsFiniteSet(upTo(P, i)) /\ Cardinality(upTo(P, i)) \in 1..Cardinality(P)
<1>1. upTo(P, i) \in SUBSET P /\ i \in upTo(P, i) BY DEF upTo
<1>2. IsFiniteSet(upTo(P, i)) /\ Cardinality(upTo(P, i)) <= Cardinality(P) BY <1>1, FS_Subset
<1>3. Cardinality(upTo(P, i)) \in Nat /\ Cardinality(P) \in Nat BY <1>2, FS_CardinalityType
<1>4. Cardinality(upTo(P, i)) # 0
  <2>1. PICK U : U = upTo(P, i) OBVIOUS
  <2>2. IsFiniteSet(U) /\ U # {} BY <1>1, <1>2, <2>1
  <2>3. Cardinality(U) # 0 BY <2>2, FS_EmptySet
  <2> QED BY <2>1, <2>3
<1> QED BY <1>2, <1>3, <1>4

LEMMA CountGrows ==
    ASSUME NEW P \in SUBSET Nat, IsFiniteSet(P), NEW i \in P, NEW j \in P, i < j
    PROVE  Cardinality(upTo(P, i)) < Cardinality(upTo(P, j))
<1>1. upTo(P, i) \in SUBSET upTo(P, j)
  <2>1. SUFFICES ASSUME NEW k \in upTo(P, i) PROVE k \in upTo(P, j) OBVIOUS
  <2>2. k \in P /\ k <= i BY DEF upTo
  <2>3. k \in Nat /\ i \in Nat /\ j \in Nat BY <2>2
  <2>4. k <= j BY <2>2, <2>3
  <2> QED BY <2>2, <2>4 DEF upTo
<1>2. j \in upTo(P, j) /\ j \notin upTo(P, i) BY DEF upTo
<1>3. /\ IsFiniteSet(upTo(P, j))
      /\ Cardinality(upTo(P, i)) \in Nat /\ Cardinality(upTo(P, j)) \in Nat
      BY CountUpTo
<1> QED BY <1>1, <1>2, <1>3, FS_Subset

LEMMA CountInjective ==
    ASSUME NEW P \in SUBSET Nat, IsFiniteSet(P), NEW i \in P, NEW j \in P,
           Cardinality(upTo(P, i)) = Cardinality(upTo(P, j))
    PROVE  i = j
<1>1. Cardinality(upTo(P, i)) \in Nat /\ Cardinality(upTo(P, j)) \in Nat BY CountUpTo
<1> QED BY <1>1, CountGrows

LEMMA CountReaches ==
    ASSUME NEW P \in SUBSET Nat, IsFiniteSet(P), NEW n \in 1..Cardinality(P)
    PROVE  \E i \in P : Cardinality(upTo(P, i)) = n
<1>1. PICK m : m = Cardinality(P) OBVIOUS
<1>2. m \in Nat BY <1>1, FS_CardinalityType
<1>3. PICK g : g = [i \in P |-> Cardinality(upTo(P, i))] OBVIOUS
<1>4. g \in Injection(P, 1..m) BY <1>1, <1>3, CountUpTo, CountInjective DEF Injection, IsInjective
<1>5. IsFiniteSet(1..m) /\ Cardinality(1..m) = m BY <1>2, FS_Interval
<1>6. g \in Surjection(P, 1..m) BY <1>1, <1>4, <1>5, FS_Injection
<1>7. \E i \in P : g[i] = n BY <1>1, <1>6 DEF Surjection
<1> QED BY <1>3, <1>7

\* The elements of r are those of s at the places h, in their order.
Picks(s, K, r, m, h) ==
    /\ m \in Nat
    /\ h \in [1..m -> placesIn(s, K)]
    /\ r = [n \in 1..m |-> s[h[n]]]
    /\ \A a, b \in 1..m : a < b => h[a] < h[b]
    /\ \A i \in placesIn(s, K) : \E n \in 1..m : h[n] = i

LEMMA PlacesFinite ==
    ASSUME NEW T, NEW s \in Seq(T), NEW K
    PROVE  placesIn(s, K) \in SUBSET Nat /\ IsFiniteSet(placesIn(s, K))
<1>1. Len(s) \in Nat /\ DOMAIN s = 1..Len(s) OBVIOUS
<1>2. placesIn(s, K) \in SUBSET (1..Len(s)) BY <1>1 DEF placesIn
<1>3. IsFiniteSet(1..Len(s)) BY <1>1, FS_Interval
<1> QED BY <1>1, <1>2, <1>3, FS_Subset

LEMMA KeptPicks ==
    ASSUME NEW T, NEW s \in Seq(T), NEW K
    PROVE  \E m, h : Picks(s, K, kept(s, K), m, h)
<1>1. PICK P : P = placesIn(s, K) OBVIOUS
<1>2. P \in SUBSET Nat /\ IsFiniteSet(P) BY <1>1, PlacesFinite
<1>3. PICK m : m = Cardinality(P) OBVIOUS
<1>4. m \in Nat BY <1>2, <1>3, FS_CardinalityType
<1>5. PICK h : h = [n \in 1..m |-> CHOOSE i \in P : Cardinality(upTo(P, i)) = n] OBVIOUS
<1>6. \A n \in 1..m : h[n] \in P /\ Cardinality(upTo(P, h[n])) = n
  <2>1. SUFFICES ASSUME NEW n \in 1..m PROVE h[n] \in P /\ Cardinality(upTo(P, h[n])) = n OBVIOUS
  <2>2. \E i \in P : Cardinality(upTo(P, i)) = n BY <1>2, <1>3, CountReaches
  <2> QED BY <1>5, <2>2
<1>7. kept(s, K) = [n \in 1..m |-> s[h[n]]]
  <2>1. kept(s, K) = [n \in 1..m |-> s[CHOOSE i \in P : Cardinality(upTo(P, i)) = n]]
        BY <1>1, <1>3 DEF kept, placesIn, upTo
  <2> QED BY <1>5, <2>1
<1>8. h \in [1..m -> P] BY <1>5, <1>6
<1>9. ASSUME NEW a \in 1..m, NEW b \in 1..m, a < b PROVE h[a] < h[b]
  <2>1. h[a] \in P /\ h[b] \in P /\ h[a] \in Nat /\ h[b] \in Nat BY <1>2, <1>6
  <2>2. Cardinality(upTo(P, h[a])) = a /\ Cardinality(upTo(P, h[b])) = b BY <1>6
  <2>3. CASE h[b] < h[a]
    <3>1. Cardinality(upTo(P, h[b])) < Cardinality(upTo(P, h[a])) BY <1>2, <2>1, <2>3, CountGrows
    <3> QED BY <1>9, <2>2, <3>1
  <2> QED BY <1>9, <2>1, <2>2, <2>3
<1>10. ASSUME NEW i \in P PROVE \E n \in 1..m : h[n] = i
  <2>1. PICK n : n = Cardinality(upTo(P, i)) OBVIOUS
  <2>2. n \in 1..m BY <1>2, <1>3, <2>1, CountUpTo
  <2>3. h[n] \in P /\ Cardinality(upTo(P, h[n])) = Cardinality(upTo(P, i)) BY <1>6, <2>1, <2>2
  <2>4. PICK x : x = h[n] OBVIOUS
  <2>5. x \in P /\ Cardinality(upTo(P, x)) = Cardinality(upTo(P, i)) BY <2>3, <2>4
  <2>6. x = i BY <1>2, <2>5, CountInjective
  <2> QED BY <2>2, <2>4, <2>6
<1>11. Picks(s, K, kept(s, K), m, h) BY <1>1, <1>4, <1>7, <1>8, <1>9, <1>10 DEF Picks
<1> QED BY <1>11

LEMMA KeptIsSeq ==
    ASSUME NEW T, NEW s \in Seq(T), NEW K
    PROVE  kept(s, K) \in Seq(T) /\ \A n \in DOMAIN kept(s, K) : kept(s, K)[n] \in K
<1>1. PICK m, h : Picks(s, K, kept(s, K), m, h) BY KeptPicks
<1>2. PICK r : r = kept(s, K) OBVIOUS
<1>3. r = [n \in 1..m |-> s[h[n]]] /\ m \in Nat BY <1>1, <1>2 DEF Picks
<1>4. \A n \in 1..m : h[n] \in DOMAIN s /\ s[h[n]] \in K BY <1>1 DEF Picks, placesIn
<1>5. \A i \in DOMAIN s : s[i] \in T OBVIOUS
<1>6. r \in Seq(T)
  <2>1. r \in [1..m -> T] BY <1>3, <1>4, <1>5
  <2>2. \A f \in [1..m -> T] : f \in Seq(T) BY <1>3
  <2> QED BY <2>1, <2>2
<1> QED BY <1>2, <1>3, <1>4, <1>6

\* Nothing to pass over.
LEMMA KeptAll ==
    ASSUME NEW T, NEW s \in Seq(T), NEW K, \A i \in DOMAIN s : s[i] \in K
    PROVE  kept(s, K) = s
<1>1. PICK l : l = Len(s) OBVIOUS
<1>2. l \in Nat /\ DOMAIN s = 1..l BY <1>1
<1>3. PICK P : P = placesIn(s, K) OBVIOUS
<1>4. P = 1..l BY <1>2, <1>3 DEF placesIn
<1>5. \A i \in P : Cardinality(upTo(P, i)) = i
  <2>1. SUFFICES ASSUME NEW i \in 1..l PROVE Cardinality(upTo(P, i)) = i BY <1>4
  <2>2. upTo(P, i) = 1..i BY <1>2, <1>4 DEF upTo
  <2> QED BY <1>2, <2>2, FS_Interval
<1>6. Cardinality(P) = l BY <1>2, <1>4, FS_Interval
<1>7. \A n \in 1..l : (CHOOSE i \in P : Cardinality(upTo(P, i)) = n) = n BY <1>4, <1>5
<1>8. kept(s, K) = [n \in 1..l |-> s[CHOOSE i \in P : Cardinality(upTo(P, i)) = n]]
      BY <1>3, <1>6 DEF kept, placesIn, upTo
<1>9. kept(s, K) = [n \in 1..l |-> s[n]] BY <1>7, <1>8
<1>10. s = [n \in 1..l |-> s[n]] BY <1>2
<1> QED BY <1>9, <1>10

-----------------------------------------------------------------------------
(* Repeated tags *)

keysOf(tags) == {tags[i].key : i \in DOMAIN tags}

IsLast(tags, k, i) ==
    /\ i \in DOMAIN tags /\ tags[i].key = k
    /\ \A j \in DOMAIN tags : tags[j].key = k => j <= i

\* The value of a key is the one at its last place.
LEMMA TagMapAt ==
    ASSUME NEW s \in Seq(Pair), NEW k, NEW i, IsLast(s, k, i)
    PROVE  k \in keysOf(s) /\ tagMap(s)[k] = s[i].value
<1>1. \A j \in DOMAIN s : j \in Nat OBVIOUS
<1>2. k \in keysOf(s) BY DEF IsLast, keysOf
<1>3. IsLast(s, k, lastWith(s, k)) BY DEF IsLast, lastWith
<1>4. lastWith(s, k) = i
  <2>1. PICK l : l = lastWith(s, k) OBVIOUS
  <2>2. IsLast(s, k, l) BY <1>3, <2>1
  <2>3. l \in Nat /\ i \in Nat /\ l <= i /\ i <= l BY <1>1, <2>2 DEF IsLast
  <2> QED BY <2>1, <2>3
<1>5. tagMap(s)[k] = s[lastWith(s, k)].value BY <1>2 DEF tagMap, keysOf
<1> QED BY <1>2, <1>4, <1>5

LEMMA TagMapKeys == \A s : DOMAIN tagMap(s) = keysOf(s)
BY DEF tagMap, keysOf

LEMMA LastExists ==
    ASSUME NEW s \in Seq(Pair), NEW k \in keysOf(s)
    PROVE  \E i : IsLast(s, k, i)
<1>1. PICK l : l = Len(s) OBVIOUS
<1>2. l \in Nat /\ DOMAIN s = 1..l BY <1>1
<1>3. PICK W : W = {n \in 0..l : \E i \in 1..l : n = l - i /\ s[i].key = k} OBVIOUS
<1>4. W \in SUBSET Nat BY <1>2, <1>3
<1>5. PICK i0 \in 1..l : s[i0].key = k BY <1>2 DEF keysOf
<1>6. l - i0 \in W BY <1>2, <1>3, <1>5
<1>7. PICK x \in W : \A y \in W : x <= y BY <1>4, <1>6, Least
<1>8. PICK i \in 1..l : x = l - i /\ s[i].key = k BY <1>3, <1>7
<1>9. ASSUME NEW j \in 1..l, s[j].key = k PROVE j <= i
  <2>1. l - j \in W BY <1>2, <1>3, <1>9
  <2>2. x <= l - j BY <1>7, <2>1
  <2> QED BY <1>2, <1>8, <2>2
<1>10. IsLast(s, k, i) BY <1>2, <1>8, <1>9 DEF IsLast
<1> QED BY <1>10

\* The last pair with a key decides it among what is kept, if it is kept itself.
LEMMA KeptLast ==
    ASSUME NEW s \in Seq(Pair), NEW K, NEW k, NEW i, IsLast(s, k, i), s[i] \in K
    PROVE  k \in keysOf(kept(s, K)) /\ tagMap(kept(s, K))[k] = s[i].value
<1>1. PICK r : r = kept(s, K) OBVIOUS
<1>2. PICK m, h : Picks(s, K, r, m, h) BY <1>1, KeptPicks
<1>3. m \in Nat /\ r = [n \in 1..m |-> s[h[n]]] BY <1>2 DEF Picks
<1>4. DOMAIN r = 1..m /\ \A n \in 1..m : r[n] = s[h[n]] BY <1>3
<1>5. \A n \in 1..m : h[n] \in DOMAIN s BY <1>2 DEF Picks, placesIn
<1>6. r \in Seq(Pair) BY <1>1, KeptIsSeq
<1>7. i \in DOMAIN s /\ s[i].key = k BY DEF IsLast
<1>8. i \in placesIn(s, K) BY <1>7 DEF placesIn
<1>9. PICK n \in 1..m : h[n] = i BY <1>2, <1>8 DEF Picks
<1>10. r[n] = s[i] BY <1>4, <1>9
<1>11. ASSUME NEW a \in 1..m, r[a].key = k PROVE a <= n
  <2>1. h[a] \in DOMAIN s /\ s[h[a]].key = k BY <1>4, <1>5, <1>11
  <2>2. h[a] <= i BY <2>1 DEF IsLast
  <2>3. ASSUME n < a PROVE FALSE
    <3>1. h[n] < h[a] BY <1>2, <2>3 DEF Picks
    <3>2. h[a] \in Nat /\ i \in Nat BY <1>7, <2>1
    <3> QED BY <1>9, <2>2, <3>1, <3>2
  <2> QED BY <1>3, <2>3
<1>12. IsLast(r, k, n) BY <1>4, <1>7, <1>10, <1>11 DEF IsLast
<1>13. k \in keysOf(r) /\ tagMap(r)[k] = r[n].value BY <1>6, <1>12, TagMapAt
<1> QED BY <1>1, <1>10, <1>13

\* Passing over other keys leaves the value of a key.
LEMMA KeptTagMap ==
    ASSUME NEW s \in Seq(Pair), NEW K, NEW k,
           \A i \in DOMAIN s : s[i].key = k => s[i] \in K
    PROVE  /\ k \in keysOf(kept(s, K)) <=> k \in keysOf(s)
           /\ k \in keysOf(s) => tagMap(kept(s, K))[k] = tagMap(s)[k]
<1>1. PICK r : r = kept(s, K) OBVIOUS
<1>2. PICK m, h : Picks(s, K, r, m, h) BY <1>1, KeptPicks
<1>3. r = [n \in 1..m |-> s[h[n]]] BY <1>2 DEF Picks
<1>4. DOMAIN r = 1..m /\ \A n \in 1..m : r[n] = s[h[n]] BY <1>3
<1>5. \A n \in 1..m : h[n] \in DOMAIN s BY <1>2 DEF Picks, placesIn
<1>6. k \in keysOf(r) => k \in keysOf(s)
  <2>1. SUFFICES ASSUME k \in keysOf(r) PROVE k \in keysOf(s) OBVIOUS
  <2>2. PICK n \in 1..m : r[n].key = k BY <1>4, <2>1 DEF keysOf
  <2>3. h[n] \in DOMAIN s /\ s[h[n]].key = k BY <1>4, <1>5, <2>2
  <2> QED BY <2>3 DEF keysOf
<1>7. ASSUME k \in keysOf(s) PROVE k \in keysOf(r) /\ tagMap(r)[k] = tagMap(s)[k]
  <2>1. PICK i : IsLast(s, k, i) BY <1>7, LastExists
  <2>2. s[i] \in K BY <2>1 DEF IsLast
  <2>3. k \in keysOf(r) /\ tagMap(r)[k] = s[i].value BY <1>1, <2>1, <2>2, KeptLast
  <2>4. tagMap(s)[k] = s[i].value BY <2>1, TagMapAt
  <2> QED BY <2>3, <2>4
<1> QED BY <1>1, <1>6, <1>7

\* One pair more: it decides its own key and no other.
LEMMA AppendTagMap ==
    ASSUME NEW s \in Seq(Pair), NEW p \in Pair
    PROVE  /\ keysOf(Append(s, p)) = keysOf(s) \cup {p.key}
           /\ tagMap(Append(s, p))[p.key] = p.value
           /\ \A k \in keysOf(s) \ {p.key} : tagMap(Append(s, p))[k] = tagMap(s)[k]
<1>1. PICK r : r = Append(s, p) OBVIOUS
<1>2. PICK l : l = Len(s) OBVIOUS
<1>3. /\ r \in Seq(Pair) /\ l \in Nat /\ DOMAIN s = 1..l /\ DOMAIN r = 1..(l + 1)
      /\ r[l + 1] = p /\ \A i \in 1..l : r[i] = s[i]
      BY <1>1, <1>2
<1>4. keysOf(r) = keysOf(s) \cup {p.key}
  <2>1. \A k : k \in keysOf(r) <=> \E i \in 1..(l + 1) : r[i].key = k BY <1>3 DEF keysOf
  <2>2. \A k : k \in keysOf(s) <=> \E i \in 1..l : s[i].key = k BY <1>3 DEF keysOf
  <2>3. \A i : i \in 1..(l + 1) <=> i \in 1..l \/ i = l + 1 BY <1>3
  <2> QED BY <1>3, <2>1, <2>2, <2>3
<1>5. IsLast(r, p.key, l + 1) BY <1>3 DEF IsLast
<1>6. tagMap(r)[p.key] = p.value BY <1>3, <1>5, TagMapAt
<1>7. ASSUME NEW k \in keysOf(s) \ {p.key} PROVE tagMap(r)[k] = tagMap(s)[k]
  <2>1. PICK i : IsLast(s, k, i) BY LastExists
  <2>2. i \in 1..l /\ s[i].key = k BY <1>3, <2>1 DEF IsLast
  <2>3. IsLast(r, k, i)
    <3>1. r[i].key = k /\ i \in DOMAIN r BY <1>3, <2>2
    <3>2. ASSUME NEW j \in 1..(l + 1), r[j].key = k PROVE j <= i
      <4>1. j # l + 1 BY <1>3, <3>2
      <4>2. j \in 1..l BY <1>3, <4>1
      <4> QED BY <1>3, <2>1, <3>2, <4>2 DEF IsLast
    <3> QED BY <1>3, <3>1, <3>2 DEF IsLast
  <2>4. tagMap(r)[k] = r[i].value BY <1>3, <2>3, TagMapAt
  <2>5. tagMap(s)[k] = s[i].value BY <2>1, TagMapAt
  <2> QED BY <1>3, <2>2, <2>4, <2>5
<1> QED BY <1>1, <1>4, <1>6, <1>7

-----------------------------------------------------------------------------
(* The links of the dashboard *)

\* A page link replaces these two.
Paged(q) == "limit" \in DOMAIN q /\ "offset" \in DOMAIN q

\* What the parser and the links rely on; the other parameters may be anything.
IsQuery(q) ==
    /\ Paged(q)
    /\ q.team \in Text /\ q.for_team \in Text /\ q.type \in Text
    /\ q.scope \in SUBSET Text /\ q.severity \in SUBSET Text
    /\ q.tag \in Seq(Pair)
    /\ q.limit \in NaN..MaxInt /\ q.offset \in NaN..MaxInt

BrowseInv == IsQuery(query)

LEMMA Texts ==
    /\ EmptyText \in Text /\ TrimSpace[EmptyText] = EmptyText
    /\ \A t \in Text : TrimSpace[t] \in Text /\ TrimSpace[TrimSpace[t]] = TrimSpace[t]
BY TextAssumption, DashboardAssumption

\* Lower-case, trimmed values stay as they are.
LEMMA NormalizedAgain ==
    ASSUME NEW V \in SUBSET Text
    PROVE  /\ normalizeCurrentValues(V) \in SUBSET Text
           /\ normalizeCurrentValues(normalizeCurrentValues(V)) = normalizeCurrentValues(V)
<1>1. PICK N : N = normalizeCurrentValues(V) OBVIOUS
<1>2. \A v \in V : ToLower[TrimSpace[v]] \in Text BY TextAssumption
<1>3. \A v \in V : ToLower[TrimSpace[ToLower[TrimSpace[v]]]] = ToLower[TrimSpace[v]]
  <2>1. SUFFICES ASSUME NEW v \in V
                 PROVE  ToLower[TrimSpace[ToLower[TrimSpace[v]]]] = ToLower[TrimSpace[v]]
        OBVIOUS
  <2>2. PICK t : t = TrimSpace[v] OBVIOUS
  <2>3. t \in Text /\ TrimSpace[t] = t BY <2>2, Texts
  <2>4. TrimSpace[ToLower[t]] = ToLower[t] BY <2>3, TextAssumption
  <2>5. ToLower[ToLower[t]] = ToLower[t] BY <2>3, TextAssumption
  <2> QED BY <2>2, <2>4, <2>5
<1>4. \A x \in N : x # EmptyText /\ x \in Text /\ ToLower[TrimSpace[x]] = x
      BY <1>1, <1>2, <1>3 DEF normalizeCurrentValues
<1>5. normalizeCurrentValues(N) = N BY <1>4 DEF normalizeCurrentValues
<1> QED BY <1>1, <1>4, <1>5

LEMMA WordsAreNormal ==
    /\ normalizeCurrentValues({"site"}) = {"site"}
    /\ normalizeCurrentValues({"sev0", "sev1"}) = {"sev0", "sev1"}
    /\ {"site", "sev0", "sev1", "maintenance"} \subseteq Text
<1>1. "site" # EmptyText /\ "sev0" # EmptyText /\ "sev1" # EmptyText BY Zenon DEF EmptyText
<1>2. \A t \in {"site", "sev0", "sev1", "maintenance"} :
         t \in Text /\ TrimSpace[t] = t /\ ToLower[t] = t
      BY DashboardAssumption
<1> QED BY <1>1, <1>2 DEF normalizeCurrentValues

LEMMA ViewIsView == \A q : dashboardView(q) \in Views
BY DEF dashboardView, Views

\* The active tags have keys, and reading them again gives them again.
LEMMA TagsHaveKeys ==
    ASSUME NEW q, IsQuery(q)
    PROVE  tagsOf(q) \in Seq(Pair) /\ \A i \in DOMAIN tagsOf(q) : tagsOf(q)[i].key # EmptyText
<1>1. CASE isListing(q)
  <2>1. PICK K : K = {t \in Pair : t.key # EmptyText} OBVIOUS
  <2>2. q.tag \in Seq(Pair) BY DEF IsQuery
  <2>3. kept(q.tag, K) \in Seq(Pair) /\ \A n \in DOMAIN kept(q.tag, K) : kept(q.tag, K)[n] \in K
        BY <2>2, KeptIsSeq
  <2>4. tagsOf(q) = kept(q.tag, K) BY <1>1, <2>1 DEF tagsOf, parseDashboardTags
  <2> QED BY <2>1, <2>3, <2>4
<1>2. CASE ~isListing(q)
  <2>1. tagsOf(q) = << >> BY <1>2 DEF tagsOf
  <2> QED BY <2>1
<1> QED BY <1>1, <1>2

LEMMA TagsReadBack ==
    ASSUME NEW q, isListing(q), q.tag \in Seq(Pair), \A i \in DOMAIN q.tag : q.tag[i].key # EmptyText
    PROVE  tagsOf(q) = q.tag
<1>1. PICK K : K = {t \in Pair : t.key # EmptyText} OBVIOUS
<1>2. \A i \in DOMAIN q.tag : q.tag[i] \in K BY <1>1
<1>3. kept(q.tag, K) = q.tag BY <1>2, KeptAll
<1> QED BY <1>1, <1>3 DEF tagsOf, parseDashboardTags

LEMMA TeamTagInText ==
    ASSUME NEW s \in Seq(Pair)
    PROVE  teamTag(s) \in Text
<1>1. CASE "team" \in keysOf(s)
  <2>1. PICK i : IsLast(s, "team", i) BY <1>1, LastExists
  <2>2. tagMap(s)["team"] = s[i].value /\ s[i] \in Pair BY <2>1, TagMapAt DEF IsLast
  <2>3. teamTag(s) = s[i].value BY <1>1, <2>2, TagMapKeys DEF teamTag
  <2> QED BY <2>2, <2>3 DEF Pair
<1>2. CASE "team" \notin keysOf(s) BY <1>2, TagMapKeys, Texts DEF teamTag
<1> QED BY <1>1, <1>2

LEMMA TeamInText ==
    ASSUME NEW q, IsQuery(q)
    PROVE  teamOf(q) \in Text
<1>1. teamTag(tagsOf(q)) \in Text BY TagsHaveKeys, TeamTagInText
<1>2. TrimSpace[q.team] \in Text /\ TrimSpace[q.for_team] \in Text BY Texts DEF IsQuery
<1> QED BY <1>1, <1>2 DEF teamOf

\* A link that carries the parsed filters, with any tags and team.
Carries(l, q) ==
    /\ l.view = dashboardView(q) /\ l.range = rangeFilter(q)
    /\ l.start_after = customBound(q, q.start_after)
    /\ l.start_before = customBound(q, q.start_before)
    /\ l.type = TrimSpace[q.type]
    /\ l.user = IF isListing(q) THEN q.user ELSE EmptyText
    /\ l.scope = normalizeCurrentValues(q.scope)
    /\ l.severity = normalizeCurrentValues(q.severity)
    /\ l.for_team = EmptyText

LEMMA Carried ==
    ASSUME NEW q, IsQuery(q), NEW l, Carries(l, q)
    PROVE  /\ dashboardView(l) = dashboardView(q) /\ isListing(l) = isListing(q)
           /\ rangeFilter(l) = rangeFilter(q)
           /\ customBound(l, l.start_after) = customBound(q, q.start_after)
           /\ customBound(l, l.start_before) = customBound(q, q.start_before)
           /\ startAfter(l) = startAfter(q) /\ startBefore(l) = startBefore(q)
           /\ TrimSpace[l.type] = TrimSpace[q.type]
           /\ (IF isListing(l) THEN l.user ELSE EmptyText) = IF isListing(q) THEN q.user ELSE EmptyText
           /\ normalizeCurrentValues(l.scope) = normalizeCurrentValues(q.scope)
           /\ normalizeCurrentValues(l.severity) = normalizeCurrentValues(q.severity)
<1>1. dashboardView(l) = dashboardView(q) BY ViewIsView DEF Carries, dashboardView
<1>2. isListing(l) = isListing(q) BY <1>1 DEF isListing
<1>3. rangeFilter(l) = rangeFilter(q) BY <1>2 DEF Carries, rangeFilter
<1>4. /\ customBound(l, l.start_after) = customBound(q, q.start_after)
      /\ customBound(l, l.start_before) = customBound(q, q.start_before)
      BY <1>3 DEF Carries, customBound
<1>5. startAfter(l) = startAfter(q) /\ startBefore(l) = startBefore(q)
      BY <1>3, <1>4 DEF startAfter, startBefore
<1>6. TrimSpace[l.type] = TrimSpace[q.type] BY Texts DEF Carries, IsQuery
<1>7. (IF isListing(l) THEN l.user ELSE EmptyText) = IF isListing(q) THEN q.user ELSE EmptyText
      BY <1>2 DEF Carries
<1>8. /\ normalizeCurrentValues(l.scope) = normalizeCurrentValues(q.scope)
      /\ normalizeCurrentValues(l.severity) = normalizeCurrentValues(q.severity)
      BY NormalizedAgain DEF Carries, IsQuery
<1> QED BY <1>1, <1>2, <1>3, <1>4, <1>5, <1>6, <1>7, <1>8

LEMMA FilterFields ==
    ASSUME NEW q, NEW f, f = filtersOf(q)
    PROVE  /\ f.view = dashboardView(q) /\ f.team = teamOf(q) /\ f.range = rangeFilter(q)
           /\ f.start_after = customBound(q, q.start_after)
           /\ f.start_before = customBound(q, q.start_before)
           /\ f.type = TrimSpace[q.type]
           /\ f.user = IF isListing(q) THEN q.user ELSE EmptyText
           /\ f.scope = normalizeCurrentValues(q.scope)
           /\ f.severity = normalizeCurrentValues(q.severity)
           /\ f.tag = tagsOf(q)
BY DEF filtersOf

LEMMA FilterQueryCarries ==
    ASSUME NEW q, NEW l, l = dashboardFilterQuery(filtersOf(q))
    PROVE  /\ Carries(l, q) /\ l.team = teamOf(q) /\ l.tag = tagsOf(q)
           /\ l.limit = 0 /\ l.offset = 0 /\ Paged(l)
<1>1. PICK f : f = filtersOf(q) OBVIOUS
<1>2. /\ l.view = f.view /\ l.team = f.team /\ l.range = f.range
      /\ l.start_after = f.start_after /\ l.start_before = f.start_before
      /\ l.type = f.type /\ l.user = f.user /\ l.scope = f.scope /\ l.severity = f.severity
      /\ l.tag = f.tag /\ l.for_team = EmptyText /\ l.limit = 0 /\ l.offset = 0 /\ Paged(l)
      BY <1>1 DEF dashboardFilterQuery, NoQuery, Paged
<1> QED BY <1>1, <1>2, FilterFields DEF Carries

\* Filters and parameters with the same parts are the same.
LEMMA SameFilters ==
    ASSUME NEW q, IsQuery(q), NEW l, Carries(l, q), tagsOf(l) = tagsOf(q), teamOf(l) = teamOf(q)
    PROVE  filtersOf(l) = filtersOf(q) /\ listParams(l) = listParams(q)
<1>1. filtersOf(l) = filtersOf(q) BY Carried DEF filtersOf
<1>2. startAfter(l) = startAfter(q) /\ startBefore(l) = startBefore(q)
      /\ dashboardView(l) = dashboardView(q)
      BY Carried
<1> QED BY <1>1, <1>2 DEF listParams

LEMMA FiltersSurvive == BrowseInv => filtersSurviveLinks
<1> SUFFICES ASSUME BrowseInv PROVE filtersSurviveLinks OBVIOUS
<1>1. PICK q : q = query OBVIOUS
<1>2. PICK l : l = dashboardFilterQuery(filtersOf(q)) OBVIOUS
<1>3. IsQuery(q) BY <1>1 DEF BrowseInv
<1>4. Carries(l, q) /\ l.team = teamOf(q) /\ l.tag = tagsOf(q) BY <1>2, FilterQueryCarries
<1>5. tagsOf(l) = tagsOf(q)
  <2>1. CASE isListing(q)
    <3>1. isListing(l) BY <1>3, <1>4, <2>1, Carried
    <3> QED BY <1>3, <1>4, <3>1, TagsHaveKeys, TagsReadBack
  <2>2. CASE ~isListing(q)
    <3>1. ~isListing(l) BY <1>3, <1>4, <2>2, Carried
    <3> QED BY <2>2, <3>1 DEF tagsOf
  <2> QED BY <2>1, <2>2
<1>6. teamOf(l) = teamOf(q)
  <2>1. l.for_team = EmptyText BY <1>4 DEF Carries
  <2>2. CASE teamTag(tagsOf(q)) # EmptyText BY <1>5, <2>2 DEF teamOf
  <2>3. CASE teamTag(tagsOf(q)) = EmptyText
    <3>1. teamOf(q) = IF TrimSpace[q.team] # EmptyText THEN TrimSpace[q.team] ELSE TrimSpace[q.for_team]
          BY <2>3 DEF teamOf
    <3>2. TrimSpace[teamOf(q)] = teamOf(q) BY <1>3, <3>1, Texts DEF IsQuery
    <3>3. teamOf(l) = IF TrimSpace[l.team] # EmptyText THEN TrimSpace[l.team] ELSE TrimSpace[l.for_team]
          BY <1>5, <2>3 DEF teamOf
    <3> QED BY <1>4, <2>1, <3>2, <3>3, Texts
  <2> QED BY <2>2, <2>3
<1>7. filtersOf(l) = filtersOf(q) /\ listParams(l) = listParams(q)
      BY <1>3, <1>4, <1>5, <1>6, SameFilters
<1>8. currentParams(l) = currentParams(q) BY <1>7 DEF currentParams
<1> QED BY <1>1, <1>2, <1>7, <1>8 DEF filtersSurviveLinks

LEMMA CurrentURLFields ==
    ASSUME NEW p, NEW l, l = currentURL(p)
    PROVE  /\ l.view = "current" /\ l.team = p.forTeam /\ l.for_team = EmptyText
           /\ l.scope = p.scopes /\ l.severity = p.severities /\ l.type = p.type
           /\ l.tag = << >> /\ l.limit = 0 /\ l.offset = 0 /\ Paged(l)
BY DEF currentURL, NoQuery, Paged

LEMMA BannerFields ==
    ASSUME NEW q, IsQuery(q), NEW p, p = highVisibilityParams(q)
    PROVE  /\ p.forTeam = teamOf(q) /\ p.forTeam \in Text
           /\ p.scopes \in SUBSET Text /\ normalizeCurrentValues(p.scopes) = p.scopes
           /\ p.severities \in SUBSET Text /\ normalizeCurrentValues(p.severities) = p.severities
           /\ p.type \in Text /\ TrimSpace[p.type] = p.type
<1>1. PICK f : f = filtersOf(q) OBVIOUS
<1>2. /\ f.team = teamOf(q) /\ f.type = TrimSpace[q.type]
      /\ f.scope = normalizeCurrentValues(q.scope) /\ f.severity = normalizeCurrentValues(q.severity)
      BY <1>1, FilterFields
<1>3. /\ p.forTeam = f.team /\ p.type = f.type
      /\ p.scopes = IF f.view = "site" THEN {"site"} ELSE f.scope
      /\ p.severities = IF f.severity = {} THEN {"sev0", "sev1"} ELSE f.severity
      BY <1>1 DEF highVisibilityParams
<1>4. f.type \in Text /\ TrimSpace[f.type] = f.type BY <1>2, Texts DEF IsQuery
<1>5. f.scope \in SUBSET Text /\ normalizeCurrentValues(f.scope) = f.scope
      BY <1>2, NormalizedAgain DEF IsQuery
<1>6. f.severity \in SUBSET Text /\ normalizeCurrentValues(f.severity) = f.severity
      BY <1>2, NormalizedAgain DEF IsQuery
<1>7. p.scopes \in SUBSET Text /\ normalizeCurrentValues(p.scopes) = p.scopes
      BY <1>3, <1>5, WordsAreNormal
<1>8. p.severities \in SUBSET Text /\ normalizeCurrentValues(p.severities) = p.severities
      BY <1>3, <1>6, WordsAreNormal
<1> QED BY <1>2, <1>3, <1>4, <1>7, <1>8, TeamInText

LEMMA BannerMatches == BrowseInv => bannerLinkMatches
<1> SUFFICES ASSUME BrowseInv PROVE bannerLinkMatches OBVIOUS
<1>1. PICK p : p = highVisibilityParams(query) OBVIOUS
<1>2. PICK l : l = currentURL(p) OBVIOUS
<1>3. /\ p.forTeam \in Text
      /\ normalizeCurrentValues(p.scopes) = p.scopes
      /\ normalizeCurrentValues(p.severities) = p.severities
      /\ TrimSpace[p.type] = p.type
      BY <1>1, BannerFields DEF BrowseInv
<1>4. /\ l.view = "current" /\ l.team = p.forTeam /\ l.for_team = EmptyText
      /\ l.scope = p.scopes /\ l.severity = p.severities /\ l.type = p.type
      BY <1>2, CurrentURLFields
<1>5. dashboardView(l) = "current" /\ ~isListing(l) BY <1>4 DEF dashboardView, Views, isListing
<1>6. teamOf(l) = TrimSpace[p.forTeam]
  <2>1. tagsOf(l) = << >> BY <1>5 DEF tagsOf
  <2>2. teamTag(<< >>) = EmptyText
    <3>1. keysOf(<< >>) = {} BY DEF keysOf
    <3> QED BY <3>1, TagMapKeys DEF teamTag
  <2> QED BY <1>3, <1>4, <2>1, <2>2, Texts DEF teamOf
<1>7. PICK f : f = filtersOf(l) OBVIOUS
<1>8. /\ f.view = "current" /\ f.team = TrimSpace[p.forTeam] /\ f.scope = p.scopes
      /\ f.severity = p.severities /\ f.type = p.type
      BY <1>3, <1>4, <1>5, <1>6, <1>7, FilterFields
<1>9. PICK c : c = currentParams(l) OBVIOUS
<1>10. /\ c.forTeam = TrimSpace[p.forTeam] /\ c.scopes = p.scopes
       /\ c.severities = p.severities /\ c.type = p.type
       BY <1>7, <1>8, <1>9 DEF currentParams
<1> QED BY <1>1, <1>2, <1>9, <1>10 DEF bannerLinkMatches

\* A tag link carries the filters; its tags are the others and the one chosen.
LEMMA TagLinkFields ==
    ASSUME NEW q, NEW tag, NEW l, l = dashboardTagFilterURL(filtersOf(q), tag)
    PROVE  /\ Carries(l, q)
           /\ l.tag = Append(kept(tagsOf(q), {t \in Pair : tag.rest # None \/ t.key # tag.key}), cut(tag))
           /\ l.team = IF tag.rest = None /\ tag.key = "team" THEN tag.value ELSE teamOf(q)
           /\ l.limit = 0 /\ l.offset = 0 /\ Paged(l)
<1>1. PICK f : f = filtersOf(q) OBVIOUS
<1>2. PICK d : d = dashboardFilterQuery(f) OBVIOUS
<1>3. Carries(d, q) /\ d.limit = 0 /\ d.offset = 0 /\ Paged(d) BY <1>1, <1>2, FilterQueryCarries
<1>4. f.tag = tagsOf(q) /\ f.team = teamOf(q) BY <1>1, FilterFields
<1>5. d = [NoQuery EXCEPT !.view = f.view, !.team = f.team, !.range = f.range,
                    !.start_after = f.start_after, !.start_before = f.start_before,
                    !.type = f.type, !.user = f.user,
                    !.scope = f.scope, !.severity = f.severity, !.tag = f.tag]
      BY <1>2 DEF dashboardFilterQuery
<1>6. l = [d EXCEPT !.tag = Append(kept(f.tag, {t \in Pair : tag.rest # None \/ t.key # tag.key}), cut(tag)),
                    !.team = IF tag.rest = None /\ tag.key = "team" THEN tag.value ELSE f.team]
      BY <1>1, <1>2 DEF dashboardTagFilterURL
<1>7. /\ l.view = d.view /\ l.range = d.range /\ l.start_after = d.start_after
      /\ l.start_before = d.start_before /\ l.type = d.type /\ l.user = d.user
      /\ l.scope = d.scope /\ l.severity = d.severity /\ l.for_team = d.for_team
      /\ l.limit = d.limit /\ l.offset = d.offset /\ DOMAIN l = DOMAIN d
      BY <1>6
<1>8. /\ l.tag = Append(kept(f.tag, {t \in Pair : tag.rest # None \/ t.key # tag.key}), cut(tag))
      /\ l.team = IF tag.rest = None /\ tag.key = "team" THEN tag.value ELSE f.team
      BY <1>5, <1>6 DEF NoQuery
<1> QED BY <1>3, <1>4, <1>7, <1>8 DEF Carries, Paged

LEMMA TagRemovalFields ==
    ASSUME NEW q, NEW pair, NEW l, l = dashboardTagRemoveURL(filtersOf(q), pair)
    PROVE  /\ Carries(l, q)
           /\ l.tag = kept(tagsOf(q), Pair \ {pair})
           /\ l.team = IF pair.key = "team" /\ teamOf(q) = pair.value THEN EmptyText ELSE teamOf(q)
           /\ l.limit = 0 /\ l.offset = 0 /\ Paged(l)
<1>1. PICK f : f = filtersOf(q) OBVIOUS
<1>2. PICK d : d = dashboardFilterQuery(f) OBVIOUS
<1>3. Carries(d, q) /\ d.limit = 0 /\ d.offset = 0 /\ Paged(d) BY <1>1, <1>2, FilterQueryCarries
<1>4. f.tag = tagsOf(q) /\ f.team = teamOf(q) BY <1>1, FilterFields
<1>5. d = [NoQuery EXCEPT !.view = f.view, !.team = f.team, !.range = f.range,
                    !.start_after = f.start_after, !.start_before = f.start_before,
                    !.type = f.type, !.user = f.user,
                    !.scope = f.scope, !.severity = f.severity, !.tag = f.tag]
      BY <1>2 DEF dashboardFilterQuery
<1>6. l = [d EXCEPT !.tag = kept(f.tag, Pair \ {pair}),
                    !.team = IF pair.key = "team" /\ f.team = pair.value THEN EmptyText ELSE f.team]
      BY <1>1, <1>2 DEF dashboardTagRemoveURL
<1>7. /\ l.view = d.view /\ l.range = d.range /\ l.start_after = d.start_after
      /\ l.start_before = d.start_before /\ l.type = d.type /\ l.user = d.user
      /\ l.scope = d.scope /\ l.severity = d.severity /\ l.for_team = d.for_team
      /\ l.limit = d.limit /\ l.offset = d.offset /\ DOMAIN l = DOMAIN d
      BY <1>6
<1>8. /\ l.tag = kept(f.tag, Pair \ {pair})
      /\ l.team = IF pair.key = "team" /\ f.team = pair.value THEN EmptyText ELSE f.team
      BY <1>5, <1>6 DEF NoQuery
<1> QED BY <1>3, <1>4, <1>7, <1>8 DEF Carries, Paged

\* The tags of a link that carries the filters.
LEMMA LinkTags ==
    ASSUME NEW q, IsQuery(q), isListing(q), NEW l, Carries(l, q)
    PROVE  tagsOf(l) = kept(l.tag, {t \in Pair : t.key # EmptyText})
<1>1. isListing(l) BY Carried
<1> QED BY <1>1 DEF tagsOf, parseDashboardTags

LEMMA NoEmptyKey ==
    ASSUME NEW q, IsQuery(q)
    PROVE  EmptyText \notin keysOf(tagsOf(q))
BY TagsHaveKeys DEF keysOf

\* What the tags of a tag link say of each key.
LEMMA TagLinkKeys ==
    ASSUME NEW s \in Seq(Pair), EmptyText \notin keysOf(s), NEW p \in Pair,
           NEW K, \A t \in Pair : t.key # p.key => t \in K,
           NEW r, r = kept(Append(kept(s, K), p), {t \in Pair : t.key # EmptyText})
    PROVE  tagMap(r) = IF p.key = EmptyText THEN tagMap(s)
                       ELSE [k \in keysOf(s) \cup {p.key} |-> IF k = p.key THEN p.value ELSE tagMap(s)[k]]
<1>2. PICK N : N = {t \in Pair : t.key # EmptyText} OBVIOUS
<1>3. PICK o : o = kept(s, K) OBVIOUS
<1>4. PICK a : a = Append(o, p) OBVIOUS
<1>5. o \in Seq(Pair) /\ a \in Seq(Pair) BY <1>3, <1>4, KeptIsSeq
<1>6. r = kept(a, N) BY <1>2, <1>3, <1>4
<1>7. ASSUME NEW k, k # EmptyText
      PROVE  /\ k \in keysOf(r) <=> k \in keysOf(a)
             /\ k \in keysOf(a) => tagMap(r)[k] = tagMap(a)[k]
  <2>1. \A i \in DOMAIN a : a[i].key = k => a[i] \in N BY <1>2, <1>5, <1>7
  <2> QED BY <1>5, <1>6, <2>1, KeptTagMap
<1>8. ASSUME NEW k, k # p.key
      PROVE  /\ k \in keysOf(o) <=> k \in keysOf(s)
             /\ k \in keysOf(s) => tagMap(o)[k] = tagMap(s)[k]
  <2>1. \A i \in DOMAIN s : s[i].key = k => s[i] \in K BY <1>8
  <2> QED BY <1>3, <2>1, KeptTagMap
<1>9. /\ keysOf(a) = keysOf(o) \cup {p.key} /\ tagMap(a)[p.key] = p.value
      /\ \A k \in keysOf(o) \ {p.key} : tagMap(a)[k] = tagMap(o)[k]
      BY <1>4, <1>5, AppendTagMap
<1>10. EmptyText \notin keysOf(r)
  <2>1. \A n \in DOMAIN r : r[n].key # EmptyText BY <1>2, <1>5, <1>6, KeptIsSeq
  <2> QED BY <2>1 DEF keysOf
<1>11. \A k : k # EmptyText /\ k # p.key =>
          /\ k \in keysOf(r) <=> k \in keysOf(s)
          /\ k \in keysOf(s) => tagMap(r)[k] = tagMap(s)[k]
      BY <1>7, <1>8, <1>9
<1>12. tagMap(r) = [k \in keysOf(r) |-> tagMap(r)[k]] BY DEF tagMap, keysOf
<1>13. tagMap(s) = [k \in keysOf(s) |-> tagMap(s)[k]] BY DEF tagMap, keysOf
<1>14. CASE p.key = EmptyText
  <2>1. \A k : k \in keysOf(r) <=> k \in keysOf(s) BY <1>10, <1>11, <1>14
  <2>2. keysOf(r) = keysOf(s) BY <2>1
  <2>3. \A k \in keysOf(s) : tagMap(r)[k] = tagMap(s)[k] BY <1>11, <1>14
  <2> QED BY <1>12, <1>13, <1>14, <2>2, <2>3
<1>15. CASE p.key # EmptyText
  <2>1. p.key \in keysOf(r) /\ tagMap(r)[p.key] = p.value BY <1>7, <1>9, <1>15
  <2>2. \A k : k \in keysOf(r) <=> k \in keysOf(s) \cup {p.key} BY <1>10, <1>11, <1>15, <2>1
  <2>3. keysOf(r) = keysOf(s) \cup {p.key} BY <2>2
  <2>4. \A k \in keysOf(r) : tagMap(r)[k] = IF k = p.key THEN p.value ELSE tagMap(s)[k]
        BY <1>10, <1>11, <2>1, <2>3
  <2> QED BY <1>12, <1>15, <2>3, <2>4
<1> QED BY <1>14, <1>15

\* The filters with the one that a tag link adds.
WithTag(tags, p) ==
    IF p.key = EmptyText THEN tags
    ELSE [k \in DOMAIN tags \cup {p.key} |-> IF k = p.key THEN p.value ELSE tags[k]]

LEMMA CutFields ==
    \A tag \in EventTags :
       /\ cut(tag) \in Pair /\ cut(tag).key = tag.key
       /\ cut(tag).value =
             IF tag.rest = None THEN tag.value ELSE Joined[<<tag.rest, tag.value>>]
       /\ tag.value \in Text
<1>1. \A tag \in EventTags : cut(tag) \in Pair /\ tag \in EventTag BY DashboardAssumption
<1> QED BY <1>1 DEF cut, EventTag

\* A tag link of the listing.
LEMMA ListingTagLink ==
    ASSUME NEW q, IsQuery(q), isListing(q), NEW tag \in EventTags,
           NEW l, l = dashboardTagFilterURL(filtersOf(q), tag)
    PROVE  LET x == listParams(l)
               y == listParams(q)
           IN  /\ x.tags = WithTag(y.tags, cut(tag))
               /\ x.alertedOnly = y.alertedOnly /\ x.after = y.after /\ x.before = y.before
               /\ x.type = y.type /\ x.user = y.user
<1>1. PICK p : p = cut(tag) OBVIOUS
<1>2. PICK K : K = {t \in Pair : tag.rest # None \/ t.key # tag.key} OBVIOUS
<1>3. PICK s : s = tagsOf(q) OBVIOUS
<1>4. p \in Pair /\ p.key = tag.key BY <1>1, CutFields
<1>5. Carries(l, q) /\ l.tag = Append(kept(s, K), p)
      BY <1>1, <1>2, <1>3, TagLinkFields
<1>6. tagMap(tagsOf(l)) = WithTag(tagMap(s), p)
  <2>1. tagsOf(l) = kept(l.tag, {t \in Pair : t.key # EmptyText}) BY <1>5, LinkTags
  <2>2. s \in Seq(Pair) /\ EmptyText \notin keysOf(s) BY <1>3, TagsHaveKeys, NoEmptyKey
  <2>3. PICK r : r = tagsOf(l) OBVIOUS
  <2>4. r = kept(Append(kept(s, K), p), {t \in Pair : t.key # EmptyText})
        BY <1>5, <2>1, <2>3
  <2>5. \A t \in Pair : t.key # p.key => t \in K BY <1>2, <1>4
  <2>6. tagMap(r) = IF p.key = EmptyText THEN tagMap(s)
                    ELSE [k \in keysOf(s) \cup {p.key} |-> IF k = p.key THEN p.value ELSE tagMap(s)[k]]
        BY ONLY <1>4, <2>2, <2>4, <2>5, TagLinkKeys
  <2> QED BY <2>3, <2>6, TagMapKeys DEF WithTag
<1>7. PICK x : x = listParams(l) OBVIOUS
<1>8. PICK y : y = listParams(q) OBVIOUS
<1>9. /\ x.tags = tagMap(tagsOf(l)) /\ x.after = startAfter(l) /\ x.before = startBefore(l)
      /\ x.alertedOnly = (dashboardView(l) = "alerts")
      /\ x.type = TrimSpace[l.type] /\ x.user = IF isListing(l) THEN l.user ELSE EmptyText
      BY <1>7, FilterFields DEF listParams
<1>10. /\ y.tags = tagMap(s) /\ y.after = startAfter(q) /\ y.before = startBefore(q)
       /\ y.alertedOnly = (dashboardView(q) = "alerts")
       /\ y.type = TrimSpace[q.type] /\ y.user = IF isListing(q) THEN q.user ELSE EmptyText
       BY <1>3, <1>8, FilterFields DEF listParams
<1>11. x.alertedOnly = y.alertedOnly /\ x.after = y.after /\ x.before = y.before
       /\ x.type = y.type /\ x.user = y.user
       BY <1>5, <1>9, <1>10, Carried
<1>12. x.tags = WithTag(y.tags, p) BY <1>6, <1>9, <1>10
<1> QED BY <1>1, <1>7, <1>8, <1>11, <1>12

\* A tag link of an event's own page.
LEMMA EventTagLink ==
    ASSUME NEW tag \in EventTags
    PROVE  listParams(tagFilterURL(tag)).tags = WithTag(<< >>, cut(tag))
<1>1. PICK p : p = cut(tag) OBVIOUS
<1>2. PICK l : l = tagFilterURL(tag) OBVIOUS
<1>3. p \in Pair BY <1>1, CutFields
<1>4. l.view = EmptyText /\ l.alerted = EmptyText /\ l.tag = <<p>>
      BY <1>1, <1>2 DEF tagFilterURL, NoQuery
<1>5. isListing(l) BY <1>4 DEF isListing, dashboardView, Views, EmptyText
<1>6. PICK N : N = {t \in Pair : t.key # EmptyText} OBVIOUS
<1>7. PICK r : r = kept(<<p>>, N) OBVIOUS
<1>8. tagsOf(l) = r BY <1>4, <1>5, <1>6, <1>7 DEF tagsOf, parseDashboardTags
<1>9. tagMap(r) = WithTag(<< >>, p)
  <2>1. PICK s : s = << >> OBVIOUS
  <2>2. s \in Seq(Pair) /\ EmptyText \notin keysOf(s) /\ keysOf(s) = {} /\ DOMAIN s = {}
        BY <2>1 DEF keysOf
  <2>3. kept(s, Pair) = s BY <2>2, KeptAll
  <2>4. r = kept(Append(kept(s, Pair), p), {t \in Pair : t.key # EmptyText})
    <3>1. Append(s, p) = <<p>> BY <2>1
    <3> QED BY <1>6, <1>7, <2>3, <3>1
  <2>5. tagMap(r) = IF p.key = EmptyText THEN tagMap(s)
                    ELSE [k \in keysOf(s) \cup {p.key} |-> IF k = p.key THEN p.value ELSE tagMap(s)[k]]
        BY <1>3, <2>2, <2>4, TagLinkKeys
  <2>6. tagMap(s) = s BY <2>1, <2>2 DEF tagMap, keysOf
  <2> QED BY <2>1, <2>2, <2>5, <2>6 DEF WithTag
<1> QED BY <1>1, <1>2, <1>8, <1>9, FilterFields DEF listParams

LEMMA TagLinks == BrowseInv => tagLinkRefines
<1> SUFFICES ASSUME BrowseInv, NEW tag \in EventTags
             PROVE  LET bef == listParams(query)
                        aft == listParams(dashboardTagFilterURL(filtersOf(query), tag))
                        text == IF tag.rest = None THEN tag.value
                                ELSE Joined[<<tag.rest, tag.value>>]
                        with(tags) ==
                           IF tag.key = EmptyText THEN tags
                           ELSE [k \in DOMAIN tags \cup {tag.key} |->
                                   IF k = tag.key THEN text ELSE tags[k]]
                        others(x) == <<x.alertedOnly, x.after, x.before, x.type, x.user>>
                    IN  /\ isListing(query) =>
                              aft.tags = with(bef.tags) /\ others(aft) = others(bef)
                        /\ listParams(tagFilterURL(tag)).tags = with(<< >>)
    BY DEF tagLinkRefines
<1>1. PICK p : p = cut(tag) OBVIOUS
<1>2. /\ p.key = tag.key
      /\ p.value = IF tag.rest = None THEN tag.value ELSE Joined[<<tag.rest, tag.value>>]
      BY <1>1, CutFields
<1>3. PICK q : q = query OBVIOUS
<1>4. PICK l : l = dashboardTagFilterURL(filtersOf(q), tag) OBVIOUS
<1>5. PICK x, y, z : x = listParams(l) /\ y = listParams(q) /\ z = listParams(tagFilterURL(tag))
      OBVIOUS
<1>6. isListing(q) =>
         /\ x.tags = WithTag(y.tags, p)
         /\ x.alertedOnly = y.alertedOnly /\ x.after = y.after /\ x.before = y.before
         /\ x.type = y.type /\ x.user = y.user
      BY <1>1, <1>3, <1>4, <1>5, ListingTagLink DEF BrowseInv
<1>7. z.tags = WithTag(<< >>, p) BY <1>1, <1>5, EventTagLink
<1> QED BY <1>2, <1>3, <1>4, <1>5, <1>6, <1>7 DEF WithTag

LEMMA PairsDiffer ==
    ASSUME NEW a \in Pair, NEW b \in Pair, a # b, a.key = b.key
    PROVE  a.value # b.value
BY DEF Pair

LEMMA Removals == BrowseInv => tagRemovalClean
<1> SUFFICES ASSUME BrowseInv, NEW i \in DOMAIN filtersOf(query).tag
             PROVE  LET p == filtersOf(query).tag[i]
                        aft == filtersOf(dashboardTagRemoveURL(filtersOf(query), p))
                    IN  /\ \A j \in DOMAIN aft.tag : aft.tag[j] # p
                        /\ p.key = "team" /\ p.value # EmptyText => aft.team # p.value
    BY DEF tagRemovalClean
<1>1. PICK q : q = query OBVIOUS
<1>2. PICK s : s = tagsOf(q) OBVIOUS
<1>3. filtersOf(query).tag = s BY <1>1, <1>2, FilterFields
<1>4. PICK p : p = s[i] OBVIOUS
<1>5. PICK l : l = dashboardTagRemoveURL(filtersOf(q), p) OBVIOUS
<1>6. IsQuery(q) BY <1>1 DEF BrowseInv
<1>7. s \in Seq(Pair) /\ p \in Pair BY <1>2, <1>3, <1>4, <1>6, TagsHaveKeys
<1>8. isListing(q)
  <2>1. CASE ~isListing(q)
    <3>1. s = << >> BY <1>2, <2>1 DEF tagsOf
    <3> QED BY <1>3, <3>1
  <2> QED BY <2>1
<1>9. PICK r : r = kept(s, Pair \ {p}) OBVIOUS
<1>10. /\ Carries(l, q) /\ l.tag = r
       /\ l.team = IF p.key = "team" /\ teamOf(q) = p.value THEN EmptyText ELSE teamOf(q)
       BY <1>2, <1>5, <1>9, TagRemovalFields
<1>11. r \in Seq(Pair) /\ \A n \in DOMAIN r : r[n] \in Pair \ {p} BY <1>7, <1>9, KeptIsSeq
<1>12. \A n \in DOMAIN r : r[n].key # EmptyText
  <2>1. PICK N : N = {t \in Pair : t.key # EmptyText} OBVIOUS
  <2>2. s \in [1..Len(s) -> N] BY <1>2, <1>6, <1>7, <2>1, TagsHaveKeys
  <2>3. s \in Seq(N)
    <3>1. PICK n : n = Len(s) OBVIOUS
    <3>2. n \in Nat BY <1>7, <3>1
    <3>3. \A f \in [1..n -> N] : f \in Seq(N) BY <3>2
    <3> QED BY <2>2, <3>1, <3>3
  <2>4. r \in Seq(N) BY <1>9, <2>3, KeptIsSeq
  <2> QED BY <2>1, <2>4
<1>13. tagsOf(l) = r
  <2>1. isListing(l) BY <1>6, <1>8, <1>10, Carried
  <2> QED BY <1>10, <1>11, <1>12, <2>1, TagsReadBack
<1>14. ASSUME p.key = "team", p.value # EmptyText PROVE teamOf(l) # p.value
  <2>1. CASE teamTag(r) # EmptyText
    <3>1. teamOf(l) = teamTag(r) BY <1>13, <2>1 DEF teamOf
    <3>2. "team" \in keysOf(r) BY <2>1, TagMapKeys DEF teamTag
    <3>3. PICK n : IsLast(r, "team", n) BY <1>11, <3>2, LastExists
    <3>4. n \in DOMAIN r /\ r[n].key = "team" BY <3>3 DEF IsLast
    <3>5. tagMap(r)["team"] = r[n].value BY <1>11, <3>3, TagMapAt
    <3>6. teamTag(r) = r[n].value BY <3>2, <3>5, TagMapKeys DEF teamTag
    <3>7. r[n] \in Pair /\ r[n] # p BY <1>11, <3>4
    <3>8. r[n].value # p.value BY <1>7, <1>14, <3>4, <3>7, PairsDiffer
    <3> QED BY <3>1, <3>6, <3>8
  <2>2. CASE teamTag(r) = EmptyText
    <3>1. teamOf(l) = IF TrimSpace[l.team] # EmptyText THEN TrimSpace[l.team] ELSE TrimSpace[l.for_team]
          BY <1>13, <2>2 DEF teamOf
    <3>2. l.for_team = EmptyText BY <1>10 DEF Carries
    <3>3. teamOf(l) = TrimSpace[l.team] BY <3>1, <3>2, Texts
    <3>4. CASE teamOf(q) = p.value
      <4>1. l.team = EmptyText BY <1>10, <1>14, <3>4
      <4> QED BY <1>14, <3>3, <4>1, Texts
    <3>5. CASE teamOf(q) # p.value /\ teamTag(s) = EmptyText
      <4>1. teamOf(q) = IF TrimSpace[q.team] # EmptyText THEN TrimSpace[q.team] ELSE TrimSpace[q.for_team]
            BY <1>2, <3>5 DEF teamOf
      <4>2. TrimSpace[teamOf(q)] = teamOf(q) BY <1>6, <4>1, Texts DEF IsQuery
      <4> QED BY <1>10, <3>3, <3>5, <4>2
    <3>6. CASE teamOf(q) # p.value /\ teamTag(s) # EmptyText
      <4>1. teamOf(q) = teamTag(s) BY <1>2, <3>6 DEF teamOf
      <4>2. "team" \in keysOf(s) BY <3>6, TagMapKeys DEF teamTag
      <4>3. PICK n : IsLast(s, "team", n) BY <1>7, <4>2, LastExists
      <4>4. teamTag(s) = s[n].value
        <5>1. tagMap(s)["team"] = s[n].value BY <1>7, <4>3, TagMapAt
        <5> QED BY <4>2, <5>1, TagMapKeys DEF teamTag
      <4>5. s[n] # p BY <3>6, <4>1, <4>4
      <4>6. s[n] \in Pair \ {p} BY <1>7, <4>3, <4>5 DEF IsLast
      <4>7. "team" \in keysOf(r) /\ tagMap(r)["team"] = s[n].value
        <5>1. PICK K : K = Pair \ {p} OBVIOUS
        <5>2. r = kept(s, K) /\ s[n] \in K BY <1>9, <4>6, <5>1
        <5>3. s \in Seq(Pair) BY <1>7
        <5>4. PICK k : k = "team" OBVIOUS
        <5>5. IsLast(s, k, n) /\ s[n] \in K BY <4>3, <5>2, <5>4
        <5>6. k \in keysOf(kept(s, K)) /\ tagMap(kept(s, K))[k] = s[n].value
              BY <5>3, <5>5, KeptLast
        <5> QED BY <5>2, <5>4, <5>6
      <4>8. teamTag(r) = s[n].value BY <4>7, TagMapKeys DEF teamTag
      <4> QED BY <2>2, <3>6, <4>4, <4>8
    <3> QED BY <3>4, <3>5, <3>6
  <2> QED BY <2>1, <2>2
<1>15. PICK f : f = filtersOf(l) OBVIOUS
<1>16. f.tag = r /\ f.team = teamOf(l) BY <1>13, <1>15, FilterFields
<1>17. /\ \A j \in DOMAIN f.tag : f.tag[j] # p
       /\ p.key = "team" /\ p.value # EmptyText => f.team # p.value
       BY <1>11, <1>14, <1>16
<1> QED BY <1>1, <1>3, <1>4, <1>5, <1>15, <1>17

-----------------------------------------------------------------------------
(* The pages of the dashboard *)

LEMMA PageSize ==
    ASSUME NEW q, IsQuery(q)
    PROVE  limitOf(q) \in 1..MaxLimit /\ offsetOf(q) \in 0..MaxInt
<1>1. q.limit \in Int /\ q.offset \in Int /\ q.offset <= MaxInt BY DashboardAssumption DEF IsQuery
<1>2. parseBoundedInt(q.limit, 1, DashboardLimit) \in Nat \ {0}
      BY <1>1, DashboardAssumption, LimitAssumption DEF parseBoundedInt
<1>3. limitOf(q) \in 1..MaxLimit BY <1>2, LimitAssumption DEF limitOf, effectiveLimit
<1>4. offsetOf(q) \in 0..MaxInt BY <1>1, DashboardAssumption DEF offsetOf, parseBoundedInt
<1> QED BY <1>3, <1>4

\* A page link has the offset and limit it was given and the filters of its page.
LEMMA PageLink ==
    ASSUME NEW q, IsQuery(q), NEW o \in Int, o <= MaxInt, NEW n \in 1..MaxLimit,
           NEW l, l = paginationURL(q, o, n)
    PROVE  /\ IsQuery(l)
           /\ limitOf(l) = n /\ offsetOf(l) = IF o < 0 THEN 0 ELSE o
           /\ filtersOf(l) = filtersOf(q) /\ listParams(l) = listParams(q)
<1>1. /\ l.view = q.view /\ l.alerted = q.alerted /\ l.team = q.team /\ l.for_team = q.for_team
      /\ l.range = q.range /\ l.start_after = q.start_after /\ l.start_before = q.start_before
      /\ l.type = q.type /\ l.user = q.user /\ l.scope = q.scope /\ l.severity = q.severity
      /\ l.tag = q.tag
      BY DEF paginationURL
<1>2. l.limit = n /\ l.offset = (IF o < 0 THEN 0 ELSE o) /\ Paged(l)
      BY DEF paginationURL, IsQuery, Paged
<1>3. l.limit \in 1..MaxInt /\ l.offset \in 0..MaxInt BY <1>2, DashboardAssumption, LimitAssumption
<1>4. IsQuery(l) BY <1>1, <1>2, <1>3, DashboardAssumption DEF IsQuery
<1>5. limitOf(l) = n BY <1>2, LimitAssumption DEF limitOf, parseBoundedInt, effectiveLimit
<1>6. offsetOf(l) = IF o < 0 THEN 0 ELSE o BY <1>2, <1>3 DEF offsetOf, parseBoundedInt
<1>7. dashboardView(l) = dashboardView(q) BY <1>1 DEF dashboardView
<1>8. isListing(l) = isListing(q) BY <1>7 DEF isListing
<1>9. rangeFilter(l) = rangeFilter(q) BY <1>1, <1>8 DEF rangeFilter
<1>10. \A t : customBound(l, t) = customBound(q, t) BY <1>9 DEF customBound
<1>11. startAfter(l) = startAfter(q) /\ startBefore(l) = startBefore(q)
       BY <1>1, <1>9, <1>10 DEF startAfter, startBefore
<1>12. tagsOf(l) = tagsOf(q) BY <1>1, <1>8 DEF tagsOf, parseDashboardTags
<1>13. teamOf(l) = teamOf(q) BY <1>1, <1>12 DEF teamOf
<1>14. filtersOf(l) = filtersOf(q) BY <1>1, <1>7, <1>8, <1>9, <1>10, <1>12, <1>13 DEF filtersOf
<1>15. listParams(l) = listParams(q) BY <1>7, <1>11, <1>14 DEF listParams
<1> QED BY <1>4, <1>5, <1>6, <1>14, <1>15

\* The two page links.
LEMMA PageLinks ==
    ASSUME NEW q, IsQuery(q)
    PROVE  /\ IsQuery(nextURL(q)) /\ IsQuery(prevURL(q))
           /\ limitOf(nextURL(q)) = limitOf(q) /\ limitOf(prevURL(q)) = limitOf(q)
           /\ offsetOf(q) + limitOf(q) <= MaxInt => offsetOf(nextURL(q)) = offsetOf(q) + limitOf(q)
           /\ offsetOf(prevURL(q)) = IF offsetOf(q) < limitOf(q) THEN 0 ELSE offsetOf(q) - limitOf(q)
           /\ filtersOf(nextURL(q)) = filtersOf(q) /\ listParams(nextURL(q)) = listParams(q)
           /\ filtersOf(prevURL(q)) = filtersOf(q) /\ listParams(prevURL(q)) = listParams(q)
<1>1. PICK n, o : n = limitOf(q) /\ o = offsetOf(q) OBVIOUS
<1>2. n \in 1..MaxLimit /\ o \in 0..MaxInt /\ MaxLimit \in Nat /\ MaxInt \in Nat /\ MaxLimit <= MaxInt
      BY <1>1, PageSize, LimitAssumption, DashboardAssumption
<1>3. PICK e : e = pageEnd(q) OBVIOUS
<1>4. e = IF o + n > MaxInt THEN o + n - 2 * (MaxInt + 1) ELSE o + n
      BY <1>1, <1>2, <1>3 DEF pageEnd
<1>5. e \in Int /\ e <= MaxInt /\ (o + n <= MaxInt => e = o + n) BY <1>2, <1>4
<1>6. PICK x : x = nextURL(q) OBVIOUS
<1>7. PICK y : y = prevURL(q) OBVIOUS
<1>8. x = paginationURL(q, e, n) BY <1>1, <1>3, <1>6 DEF nextURL
<1>9. PICK d : d = o - n OBVIOUS
<1>10. d \in Int /\ d <= MaxInt /\ (d < 0 <=> o < n) BY <1>2, <1>9
<1>11. y = paginationURL(q, d, n) BY <1>1, <1>7, <1>9 DEF prevURL
<1>12. /\ IsQuery(x) /\ limitOf(x) = n /\ offsetOf(x) = IF e < 0 THEN 0 ELSE e
       /\ filtersOf(x) = filtersOf(q) /\ listParams(x) = listParams(q)
       BY <1>2, <1>5, <1>8, PageLink
<1>13. /\ IsQuery(y) /\ limitOf(y) = n /\ offsetOf(y) = IF d < 0 THEN 0 ELSE d
       /\ filtersOf(y) = filtersOf(q) /\ listParams(y) = listParams(q)
       BY <1>2, <1>10, <1>11, PageLink
<1>14. o + n <= MaxInt => offsetOf(x) = o + n BY <1>2, <1>5, <1>12
<1>15. offsetOf(y) = IF o < n THEN 0 ELSE o - n BY <1>9, <1>10, <1>13
<1> QED BY <1>1, <1>6, <1>7, <1>12, <1>13, <1>14, <1>15

LEMMA PagesJoin == BrowseInv => PaginationContiguous
<1> SUFFICES ASSUME BrowseInv PROVE PaginationContiguous OBVIOUS
<1>1. PICK q : q = query OBVIOUS
<1>2. IsQuery(q) BY <1>1 DEF BrowseInv
<1>3. PICK n, o : n = limitOf(q) /\ o = offsetOf(q) OBVIOUS
<1>4. n \in 1..MaxLimit /\ o \in 0..MaxInt /\ MaxLimit \in Nat /\ MaxInt \in Nat
      BY <1>2, <1>3, PageSize, LimitAssumption, DashboardAssumption
<1>5. PICK x : x = nextURL(q) OBVIOUS
<1>6. PICK y : y = prevURL(q) OBVIOUS
<1>7. /\ limitOf(x) = n /\ (o + n <= MaxInt => offsetOf(x) = o + n)
      /\ filtersOf(x) = filtersOf(q) /\ listParams(x) = listParams(q)
      BY <1>2, <1>3, <1>5, PageLinks
<1>8. /\ IsQuery(y) /\ limitOf(y) = n /\ offsetOf(y) = IF o < n THEN 0 ELSE o - n
      /\ filtersOf(y) = filtersOf(q) /\ listParams(y) = listParams(q)
      BY <1>2, <1>3, <1>6, PageLinks
<1>9. offsetOf(y) + limitOf(y) >= o BY <1>4, <1>8
<1>10. offsetOf(y) = 0 \/ offsetOf(nextURL(y)) = o
  <2>1. SUFFICES ASSUME offsetOf(y) # 0 PROVE offsetOf(nextURL(y)) = o OBVIOUS
  <2>2. offsetOf(y) = o - n /\ offsetOf(y) + limitOf(y) = o BY <1>4, <1>8, <2>1
  <2>3. offsetOf(y) + limitOf(y) <= MaxInt BY <1>4, <2>2
  <2>4. offsetOf(nextURL(y)) = offsetOf(y) + limitOf(y) BY <1>8, <2>3, PageLinks
  <2> QED BY <2>2, <2>4
<1> QED BY <1>1, <1>3, <1>5, <1>6, <1>7, <1>8, <1>9, <1>10 DEF PaginationContiguous

-----------------------------------------------------------------------------
(* Browsing *)

LEMMA BrowseStarts == BrowseInit => BrowseInv
<1> SUFFICES ASSUME BrowseInit PROVE BrowseInv OBVIOUS
<1>1. query \in Query BY DashboardAssumption DEF BrowseInit
<1> QED BY <1>1 DEF BrowseInv, IsQuery, Query, Paged

LEMMA ZeroParses == 0 \in NaN..MaxInt
BY DashboardAssumption

\* A link with a team, the tags and the filters of a page.
LEMMA CarriedIsQuery ==
    ASSUME NEW q, IsQuery(q), NEW l, Carries(l, q), l.team \in Text, l.tag \in Seq(Pair),
           l.limit = 0, l.offset = 0, Paged(l)
    PROVE  IsQuery(l)
<1>1. l.for_team \in Text /\ l.type \in Text BY Texts DEF Carries, IsQuery
<1>2. l.scope \in SUBSET Text /\ l.severity \in SUBSET Text BY NormalizedAgain DEF Carries, IsQuery
<1> QED BY <1>1, <1>2, ZeroParses DEF IsQuery

LEMMA ViewOrRangeOK == BrowseInv /\ (SelectView \/ SelectRange) => BrowseInv'
<1> SUFFICES ASSUME BrowseInv, SelectView \/ SelectRange PROVE BrowseInv' OBVIOUS
<1>1. PICK t : t = filtersOf(query).team OBVIOUS
<1>2. t \in Text BY <1>1, FilterFields, TeamInText DEF BrowseInv
<1>3. PICK v, r : query' = dashboardURL(v, t, r) BY <1>1 DEF SelectView, SelectRange
<1>4. /\ query'.team = t /\ query'.for_team = EmptyText /\ query'.type = EmptyText
      /\ query'.scope = {} /\ query'.severity = {} /\ query'.tag = << >>
      /\ query'.limit = 0 /\ query'.offset = 0 /\ Paged(query')
      BY <1>3 DEF dashboardURL, NoQuery, Paged
<1> QED BY <1>2, <1>4, Texts, ZeroParses DEF BrowseInv, IsQuery

LEMMA PresetOK == BrowseInv /\ SelectPreset => BrowseInv'
<1> SUFFICES ASSUME BrowseInv, SelectPreset PROVE BrowseInv' OBVIOUS
<1>1. PICK t : t = filtersOf(query).team OBVIOUS
<1>2. t \in Text BY <1>1, FilterFields, TeamInText DEF BrowseInv
<1>3. PICK s : query' = currentPresetURL(s, t) BY <1>1 DEF SelectPreset
<1>4. PICK p : p = [forTeam |-> t,
                    scopes |-> IF s = "site" THEN {"site"} ELSE {},
                    severities |-> IF s = "high-severity" THEN {"sev0", "sev1"} ELSE {},
                    type |-> IF s = "maintenance" THEN "maintenance" ELSE EmptyText]
      OBVIOUS
<1>5. query' = currentURL(p) BY <1>3, <1>4 DEF currentPresetURL
<1>6. /\ p.forTeam \in Text /\ p.scopes \in SUBSET Text /\ p.severities \in SUBSET Text
      /\ p.type \in Text
      BY <1>2, <1>4, WordsAreNormal, Texts
<1>7. /\ query'.team = p.forTeam /\ query'.for_team = EmptyText
      /\ query'.scope = p.scopes /\ query'.severity = p.severities /\ query'.type = p.type
      /\ query'.tag = << >> /\ query'.limit = 0 /\ query'.offset = 0 /\ Paged(query')
      BY <1>5, CurrentURLFields
<1> QED BY <1>6, <1>7, Texts, ZeroParses DEF BrowseInv, IsQuery

LEMMA BannerOK == BrowseInv /\ OpenBanner => BrowseInv'
<1> SUFFICES ASSUME BrowseInv, OpenBanner PROVE BrowseInv' OBVIOUS
<1>1. PICK p : p = highVisibilityParams(query) OBVIOUS
<1>2. /\ p.forTeam \in Text /\ p.scopes \in SUBSET Text /\ p.severities \in SUBSET Text
      /\ p.type \in Text
      BY <1>1, BannerFields DEF BrowseInv
<1>3. query' = currentURL(p) BY <1>1 DEF OpenBanner
<1>4. /\ query'.team = p.forTeam /\ query'.for_team = EmptyText
      /\ query'.scope = p.scopes /\ query'.severity = p.severities /\ query'.type = p.type
      /\ query'.tag = << >> /\ query'.limit = 0 /\ query'.offset = 0 /\ Paged(query')
      BY <1>3, CurrentURLFields
<1> QED BY <1>2, <1>4, Texts, ZeroParses DEF BrowseInv, IsQuery

LEMMA AddTagOK == BrowseInv /\ AddTag => BrowseInv'
<1> SUFFICES ASSUME BrowseInv, AddTag PROVE BrowseInv' OBVIOUS
<1>1. PICK q : q = query OBVIOUS
<1>2. PICK tag \in EventTags : query' = dashboardTagFilterURL(filtersOf(q), tag) BY <1>1 DEF AddTag
<1>3. PICK l : l = query' OBVIOUS
<1>4. IsQuery(q) /\ cut(tag) \in Pair /\ tag.value \in Text BY <1>1, CutFields DEF BrowseInv
<1>5. PICK s : s = kept(tagsOf(q), {t \in Pair : tag.rest # None \/ t.key # tag.key}) OBVIOUS
<1>6. /\ Carries(l, q) /\ l.tag = Append(s, cut(tag))
      /\ l.team = IF tag.rest = None /\ tag.key = "team" THEN tag.value ELSE teamOf(q)
      /\ l.limit = 0 /\ l.offset = 0 /\ Paged(l)
      BY <1>2, <1>3, <1>5, TagLinkFields
<1>7. s \in Seq(Pair) BY <1>4, <1>5, TagsHaveKeys, KeptIsSeq
<1>8. l.tag \in Seq(Pair) BY <1>4, <1>6, <1>7
<1>9. l.team \in Text BY <1>4, <1>6, TeamInText
<1>10. IsQuery(l) BY <1>4, <1>6, <1>8, <1>9, CarriedIsQuery
<1> QED BY <1>3, <1>10 DEF BrowseInv

LEMMA RemoveTagOK == BrowseInv /\ RemoveTag => BrowseInv'
<1> SUFFICES ASSUME BrowseInv, RemoveTag PROVE BrowseInv' OBVIOUS
<1>1. PICK q : q = query OBVIOUS
<1>2. PICK p : query' = dashboardTagRemoveURL(filtersOf(q), p) BY <1>1 DEF RemoveTag
<1>3. PICK l : l = query' OBVIOUS
<1>4. IsQuery(q) BY <1>1 DEF BrowseInv
<1>5. PICK s : s = kept(tagsOf(q), Pair \ {p}) OBVIOUS
<1>6. /\ Carries(l, q) /\ l.tag = s
      /\ l.team = IF p.key = "team" /\ teamOf(q) = p.value THEN EmptyText ELSE teamOf(q)
      /\ l.limit = 0 /\ l.offset = 0 /\ Paged(l)
      BY <1>2, <1>3, <1>5, TagRemovalFields
<1>7. s \in Seq(Pair) BY <1>4, <1>5, TagsHaveKeys, KeptIsSeq
<1>8. l.tag \in Seq(Pair) BY <1>6, <1>7
<1>9. l.team \in Text BY <1>4, <1>6, TeamInText, Texts
<1>10. IsQuery(l) BY <1>4, <1>6, <1>8, <1>9, CarriedIsQuery
<1> QED BY <1>3, <1>10 DEF BrowseInv

LEMMA OpenTagOK == BrowseInv /\ OpenTag => BrowseInv'
<1> SUFFICES ASSUME BrowseInv, OpenTag PROVE BrowseInv' OBVIOUS
<1>1. PICK tag \in EventTags : query' = tagFilterURL(tag) BY DEF OpenTag
<1>2. PICK p : p = cut(tag) OBVIOUS
<1>3. p \in Pair BY <1>2, CutFields
<1>4. /\ query'.team = EmptyText /\ query'.for_team = EmptyText /\ query'.type = EmptyText
      /\ query'.scope = {} /\ query'.severity = {} /\ query'.tag = <<p>>
      /\ query'.limit = 0 /\ query'.offset = 0 /\ Paged(query')
      BY <1>1, <1>2 DEF tagFilterURL, NoQuery, Paged
<1>5. <<p>> \in Seq(Pair) BY <1>3
<1> QED BY <1>4, <1>5, Texts, ZeroParses DEF BrowseInv, IsQuery

LEMMA TurnPageOK == BrowseInv /\ TurnPage => BrowseInv'
<1> SUFFICES ASSUME BrowseInv, TurnPage PROVE BrowseInv' OBVIOUS
<1>1. query' = nextURL(query) \/ query' = prevURL(query) BY DEF TurnPage
<1>2. IsQuery(nextURL(query)) /\ IsQuery(prevURL(query)) BY PageLinks DEF BrowseInv
<1>3. PICK l : l = query' OBVIOUS
<1>4. IsQuery(l) BY <1>1, <1>2, <1>3
<1> QED BY <1>3, <1>4 DEF BrowseInv

LEMMA BrowseStep == BrowseInv /\ [BrowseNext]_query => BrowseInv'
<1> SUFFICES ASSUME BrowseInv, [BrowseNext]_query PROVE BrowseInv' OBVIOUS
<1>1. CASE UNCHANGED query BY <1>1 DEF BrowseInv
<1> QED BY <1>1, ViewOrRangeOK, PresetOK, BannerOK, AddTagOK, RemoveTagOK, OpenTagOK, TurnPageOK
        DEF BrowseNext

LEMMA BrowseHolds == BrowseSpec => []BrowseInv
BY BrowseStarts, BrowseStep, PTL DEF BrowseSpec

-----------------------------------------------------------------------------
(* Theorems *)

\* ListCurrent returns one start for each operation that is not over, and none
\* for the others, whatever was recorded and in which order.
THEOREM CurrentIsExact == ListSpec => []CurrentListsOpenOperations
<1>1. ListingInv => CurrentListsOpenOperations BY CurrentIsOpen DEF ListingInv
<1> QED BY <1>1, ListingHolds, PTL

\* A filter of ListCurrent narrows the listing after one start stands for each
\* operation: it never brings in another.
THEOREM FilteringHides == ListSpec => []FilterNeverPromotes
<1>1. ListingInv => FilterNeverPromotes BY FiltersHide
<1> QED BY <1>1, ListingHolds, PTL

\* When OperationState says closed, GetActivity of the start returns an end event
\* that closes it, whichever of the two identifiers the events carry.
THEOREM ClosedShowsWhy == ListSpec => []ClosedHasClosure
<1>1. ListingInv => ClosedHasClosure BY ClosuresShow DEF ListingInv
<1> QED BY <1>1, ListingHolds, PTL

\* A bound splits the events into those before and those from it on, a window is
\* its two bounds, and pages of any limit neither overlap nor leave a gap.
THEOREM PartitionsHold == ListSpec => []ListingsTile
<1>1. ListingInv => ListingsTile BY RangesTile, PagesTile DEF ListingInv, ListingsTile
<1> QED BY <1>1, ListingHolds, PTL

\* listAll over a registry that grows misses or repeats at most one event for
\* each one recorded while it runs.
THEOREM LossIsBounded == ListSpec => []LossBounded
<1>1. ListingInv => LossBounded BY DEF ListingInv, LossBounded, now
<1> QED BY <1>1, ListingHolds, PTL

\* What GetAnnotations and GetAnnotationsBatch return, row by row and whatever is
\* recorded meanwhile, is what the toggle and the AlertedOnly subquery would say
\* of the same snapshot.
THEOREM ReadersAgree == WalkSpec => []AnnotationReadersAgree
BY ReadersAgreeHere, WalkHolds, PTL

\* From any URL and along any chain of links: the links built from the parsed
\* filters read back as the same filters, the banner's link shows what the banner
\* counts, a tag link filters on the tag, or on the part of its key before a colon
\* when it has one, and keeps the other filters, and a removed tag is gone, with
\* its team.
THEOREM LinksAreRight == BrowseSpec => []LinksLeadWhereTheySay
<1>1. BrowseInv => LinksLeadWhereTheySay
      BY FiltersSurvive, BannerMatches, TagLinks, Removals DEF LinksLeadWhereTheySay
<1> QED BY <1>1, BrowseHolds, PTL

\* Next continues where a page ends and Previous leaves no gap before it, for any
\* limit and offset in the URL, and both keep the listing.
THEOREM PagesFollow == BrowseSpec => []PaginationContiguous
BY PagesJoin, BrowseHolds, PTL
=============================================================================
