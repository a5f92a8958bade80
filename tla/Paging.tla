-------------------------------- MODULE Paging --------------------------------
(***************************************************************************)
(* ChangeService.listAll, the loop behind GetActivity, while the registry  *)
(* grows.  Every page costs two statements, COUNT and SELECT ... LIMIT     *)
(* OFFSET, and each of them sees its own snapshot.                         *)
(***************************************************************************)
EXTENDS Queries

CONSTANT Params   \* by workload, the listings that may be asked for

\* GetActivity lists by parent or by tags; it never asks for alerted events.
ASSUME PagingAssumption ==
    \A w \in DOMAIN Workloads : \A p \in Params[w] : ~p.alerted

VARIABLES
    pc,       \* idle, count, page, done or failed
    params,   \* the listing that runs
    offset,   \* params.Offset
    total,    \* result.TotalCount of the current page
    got,      \* the events collected so far
    twice,    \* those collected more than once
    before    \* the events that matched when the listing began

listing == <<pc, params, offset, total, got, twice, before>>
pvars == <<registry, listing>>

ListInit ==
    /\ Init
    /\ pc = "idle"
    /\ params = NoParams
    /\ offset = 0 /\ total = 0
    /\ got = {} /\ twice = {} /\ before = {}

Begin ==
    /\ pc = "idle"
    /\ pc' = "count"
    /\ params' \in Params[workload]
    /\ before' = matching(db, params')
    /\ UNCHANGED <<registry, offset, total, got, twice>>

\* SELECT COUNT(*).
Count ==
    /\ pc = "count"
    /\ total' = Cardinality(matching(db, params))
    /\ pc' = "page"
    /\ UNCHANGED <<registry, params, offset, got, twice, before>>

\* Mutant: the offset stays.
Page_SameOffset ==
    /\ pc = "page"
    /\ LET rows == page(matching(db, params), MaxLimit, offset)
       IN  /\ got' = got \cup rows
           /\ twice' = twice \cup (got \cap rows)
           /\ pc' = IF rows = {} \/ offset + Cardinality(rows) >= total THEN "done" ELSE "count"
    /\ UNCHANGED <<registry, params, offset, total, before>>

\* Mutant: the offset advances by the limit plus one.
Page_Skips ==
    /\ pc = "page"
    /\ LET rows == page(matching(db, params), MaxLimit, offset)
       IN  /\ got' = got \cup rows
           /\ twice' = twice \cup (got \cap rows)
           /\ IF rows = {} \/ offset + Cardinality(rows) >= total
              THEN pc' = "done" /\ UNCHANGED offset
              ELSE pc' = "count" /\ offset' = offset + MaxLimit + 1
    /\ UNCHANGED <<registry, params, total, before>>

\* SELECT ... LIMIT OFFSET, and the loop's exit test.
Page ==
    /\ pc = "page"
    /\ LET rows == page(matching(db, params), MaxLimit, offset)
       IN  /\ got' = got \cup rows
           /\ twice' = twice \cup (got \cap rows)
           /\ IF rows = {} \/ offset + Cardinality(rows) >= total
              THEN pc' = "done" /\ UNCHANGED offset
              ELSE pc' = "count" /\ offset' = offset + Cardinality(rows)
    /\ UNCHANGED <<registry, params, total, before>>

\* A statement fails: the listing returns the error and no events.
Fail ==
    /\ pc \in {"count", "page"}
    /\ pc' = "failed"
    /\ UNCHANGED <<registry, params, offset, total, got, twice, before>>

\* Another request records an event.
Grow == (\E e \in Workloads[workload] : Record(e)) /\ UNCHANGED listing

Stop ==
    /\ pc \in {"done", "failed"} \/ (pc = "idle" /\ Params[workload] = {})
    /\ UNCHANGED pvars

ListNext == Begin \/ Count \/ Page \/ Fail \/ Grow \/ Stop

\* The loop runs on; nothing has to be recorded.
ListSpec == ListInit /\ [][ListNext]_pvars /\ WF_pvars(Count \/ Page)

-----------------------------------------------------------------------------
\* A listing invents nothing, and an event that was there from the start is
\* missed only if another one was recorded meanwhile, and likewise for an event
\* returned twice: a listing during which nothing is recorded is exact.
LossBounded ==
    pc = "done" =>
        LET now == matching(db, params)
            new == Cardinality(now \ before)
        IN  /\ got \subseteq now
            /\ Cardinality(before \ got) <= new
            /\ Cardinality(twice) <= new

\* The loop ends, whatever COUNT says from page to page.
ListingEnds == pc = "count" ~> pc \in {"done", "failed"}

\* change.go, on GetActivity: "returns all child annotations for an event".
ListAllComplete == pc = "done" => before \subseteq got
=============================================================================
