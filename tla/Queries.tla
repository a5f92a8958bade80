------------------------------- MODULE Queries -------------------------------
(***************************************************************************)
(* The read side of the registry: the filters of GET /events, Current and  *)
(* the activity trail, each as the SQL of internal/store/postgres/         *)
(* postgres.go and the Go around it compute it from one snapshot.  The     *)
(* registry grows one event at a time, in any order of sequence numbers,   *)
(* and every reachable content is queried.                                 *)
(*                                                                         *)
(* Times are in fractions of a second, Second of them making one.  Ids are *)
(* numbers, compared as the strings are.                                   *)
(***************************************************************************)
EXTENDS EventModel, ListLimits, FiniteSets

CONSTANTS
    Second,       \* time units in a second
    Workloads,    \* by name, the events clients may send; ts is the client's timestamp
    MaxEvents,    \* bound on the size of the registry
    Bounds,       \* the time bounds to try
    CurrentQueries \* the Current filters to try

Events == [id : Nat, parent : Nat \cup {None}, type : Text, tags : TagMap, ts : Nat, seq : Nat]

ASSUME QueryAssumption ==
    /\ Second \in Nat \ {0}
    /\ MaxEvents \in Nat
    /\ None \notin Int
    /\ \A w \in DOMAIN Workloads : \A e \in Workloads[w] : e \in Events
    /\ Bounds \subseteq Nat

VARIABLES
    db,           \* the recorded events
    workload      \* which events clients send in this behaviour

registry == <<db, workload>>

\* t.UTC().Truncate(time.Second), applied to what is stored and to bounds.
canonicalTime(t) == t - (t % Second)

Init == db = {} /\ workload \in DOMAIN Workloads

\* Store.Create; the id is new, the sequence number unused, the parent recorded.
recordable(e) ==
    /\ Cardinality(db) < MaxEvents
    /\ \A f \in db : f.id # e.id /\ f.seq # e.seq
    /\ e.parent # None => \E f \in db : f.id = e.parent

Record(e) ==
    /\ recordable(e)
    /\ db' = db \cup {[e EXCEPT !.ts = canonicalTime(@)]}
    /\ UNCHANGED workload

-----------------------------------------------------------------------------
(* List.                                                                   *)

NoParams == [parent |-> None, after |-> None, before |-> None, around |-> None, window |-> None,
             type |-> EmptyText, topLevel |-> FALSE, alerted |-> FALSE, tags |-> NoTags]

\* The AlertedOnly subquery: a meta-event with no newer one is an alert.
alertedParents(rows) ==
    {m.parent : m \in {m \in rows :
        /\ m.type \in {"alert", "clear-alert"}
        /\ m.parent # None
        /\ ~\E newer \in rows :
            /\ newer.parent = m.parent
            /\ newer.type \in {"alert", "clear-alert"}
            /\ newer.seq > m.seq
        /\ m.type = "alert"}}

\* Mutant: an inclusive upper bound.
inTime_Inclusive(p, ts) ==
    IF p.around # None /\ p.window # None /\ p.window > 0
    THEN /\ ts >= canonicalTime(p.around - p.window)
         /\ ts <= canonicalTime(p.around + p.window)
    ELSE /\ p.after # None => ts >= canonicalTime(p.after)
         /\ p.before # None => ts <= canonicalTime(p.before)

\* Around and Window win over the start bounds when the window is positive.
inTime(p, ts) ==
    IF p.around # None /\ p.window # None /\ p.window > 0
    THEN /\ ts >= canonicalTime(p.around - p.window)
         /\ ts < canonicalTime(p.around + p.window)
    ELSE /\ p.after # None => ts >= canonicalTime(p.after)
         /\ p.before # None => ts < canonicalTime(p.before)

\* buildWhereClause, without the user_name filter.
matching(rows, p) ==
    {e \in rows :
        /\ p.parent # None => e.parent = p.parent
        /\ inTime(p, e.ts)
        /\ p.type # EmptyText => e.type = p.type
        /\ p.topLevel => e.parent = None
        /\ p.alerted => e.id \in alertedParents(rows)
        /\ \A k \in TagKeys : p.tags[k] # None => e.tags[k] = p.tags[k]}

\* Mutant: no tie-break between events of one second.
listedBefore_NoTieBreak(e, f) == e.ts > f.ts

\* ORDER BY timestamp DESC, id ASC.
listedBefore(e, f) == e.ts > f.ts \/ (e.ts = f.ts /\ e.id < f.id)

\* LIMIT and OFFSET.
page(rows, limit, offset) ==
    {e \in rows :
        Cardinality({f \in rows : listedBefore(f, e)}) \in offset..(offset + limit - 1)}

-----------------------------------------------------------------------------
(* Current.                                                                *)

operation(e) == <<e.type, correlation(e)>>

\* Mutant: every open start is listed.
representatives_All(rows) == active(rows)

\* representative_rank = 1: the earliest open start of each operation.
representatives(rows) ==
    {e \in active(rows) :
        \A f \in active(rows) : operation(f) = operation(e) =>
            e.ts < f.ts \/ (e.ts = f.ts /\ e.id <= f.id)}

NoCurrentParams == [forTeam |-> EmptyText, scopes |-> {}, severities |-> {}, type |-> EmptyText]

\* The filters of buildCurrentWhereClause on one row.
shown(p, e) ==
    /\ p.forTeam # EmptyText =>
        \/ Tag(e.tags, "team") \in {p.forTeam, EmptyText}
        \/ e.tags["scope"] = "site"
    /\ p.scopes # {} => e.tags["scope"] \in p.scopes
    /\ p.severities # {} =>
        e.tags["severity"] # None /\ ToLower[e.tags["severity"]] \in {ToLower[s] : s \in p.severities}
    /\ p.type # EmptyText => e.type = p.type

\* Mutant: filtering before the reduction.
ListCurrent_FilterFirst(rows, p) == representatives({e \in rows : shown(p, e) \/ Tag(e.tags, "phase") = "end"})

\* Store.ListCurrent: filtering applies after the reduction.
ListCurrent(rows, p) == {e \in representatives(rows) : shown(p, e)}

-----------------------------------------------------------------------------
(* Activity.                                                               *)

\* Mutant: the ends are looked up by deploy_id whenever there is one.
closures_DeployFirst(rows, start) ==
    LET key == IF Tag(start.tags, "deploy_id") # EmptyText THEN "deploy_id" ELSE "change_id"
    IN  matching(rows, [NoParams EXCEPT !.type = start.type, !.topLevel = TRUE,
                                        !.tags[key] = Tag(start.tags, key),
                                        !.tags["phase"] = "end"])

\* GetActivity's second listing: top-level ends that carry the key and value.
closures(rows, start) ==
    LET identity == operationIdentity(start)
    IN  IF identity = NoIdentity THEN {}
        ELSE matching(rows, [NoParams EXCEPT !.type = start.type, !.topLevel = TRUE,
                                             !.tags[identity.key] = identity.value,
                                             !.tags["phase"] = "end"])

\* GetActivity: children and closures (both listings complete; see Paging).
GetActivity(rows, e) == matching(rows, [NoParams EXCEPT !.parent = e.id]) \cup closures(rows, e)

-----------------------------------------------------------------------------
(* Properties.                                                             *)

\* The end events that, by the Go precedence of the two identifiers, name the
\* same operation as a start.
endsOf(rows, start) ==
    {e \in rows : /\ e.type = start.type
                  /\ Tag(e.tags, "phase") = "end"
                  /\ operationIdentity([e EXCEPT !.tags["phase"] = "start"])
                        = operationIdentity(start)}

\* Current is the open operations, each once: a closable start is open exactly
\* while no end names its operation, OperationState agrees, and Current shows
\* one row for it, its earliest start.
CurrentListsOpenOperations ==
    LET current == ListCurrent(db, NoCurrentParams)
        starts == {e \in db : operationIdentity(e) # NoIdentity}
        sameOperation(e, f) == e.type = f.type /\ operationIdentity(e) = operationIdentity(f)
    IN  /\ current \subseteq starts
        /\ \A s \in starts :
            LET rows == {e \in current : sameOperation(e, s)}
            IN  /\ OperationState(db, s) = "open" <=> endsOf(db, s) = {}
                /\ Cardinality(rows) = IF endsOf(db, s) = {} THEN 1 ELSE 0
                /\ \A e \in rows : e.ts <= s.ts

\* Filtering applies after the reduction: a filter hides operations, it never
\* brings up a later start that stands behind the representative.
FilterNeverPromotes ==
    \A p \in CurrentQueries : ListCurrent(db, p) \subseteq ListCurrent(db, NoCurrentParams)

\* A closed operation shows why: the activity of its start contains an end
\* event that closes it.
ClosedHasClosure ==
    \A s \in db : operationIdentity(s) # NoIdentity /\ OperationState(db, s) = "closed" =>
        GetActivity(db, s) \cap endsOf(db, s) # {}

\* Consecutive time ranges tile the history: an event is before a bound or
\* after it, never both and never neither, although bounds are truncated; and
\* a window is the range between its ends.
rangesTile ==
    \A t \in Bounds :
        LET earlier == matching(db, [NoParams EXCEPT !.before = t])
            later == matching(db, [NoParams EXCEPT !.after = t])
        IN  /\ earlier \cup later = db
            /\ earlier \cap later = {}
            /\ \A w \in 1..t :
                matching(db, [NoParams EXCEPT !.around = t, !.window = w])
                = matching(db, [NoParams EXCEPT !.after = t - w, !.before = t + w])

\* Pages tile a listing: for any requested limit, walking the offsets by the
\* effective limit shows every event on exactly one page, and no page is longer
\* than the limit.
pagesTile ==
    \A limit \in {effectiveLimit(asked) : asked \in -1..(MaxLimit + 1)} :
        LET pages == {<<n, page(db, limit, n * limit)>> : n \in 0..MaxEvents}
        IN  /\ UNION {p[2] : p \in pages} = db
            /\ \A p, q \in pages : p[1] # q[1] => p[2] \cap q[2] = {}
            /\ \A p \in pages : Cardinality(p[2]) <= limit

\* Neither a boundary between two time ranges nor one between two pages loses
\* or repeats an event: what the filters of List and its LIMIT and OFFSET cut
\* a history into is a partition of it.
ListingsTile == rangesTile /\ pagesTile
=============================================================================
