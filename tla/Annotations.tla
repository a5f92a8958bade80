----------------------------- MODULE Annotations -----------------------------
(***************************************************************************)
(* Reading star and alert state: GetAnnotations and GetAnnotationsBatch,   *)
(* one row per step, while the registry grows.  The rows are those of the  *)
(* statement's snapshot, newest first.                                     *)
(*                                                                         *)
(* The code keeps a value and a "resolved" flag for each kind of           *)
(* annotation; here that pair is the transition that resolved it, or None. *)
(***************************************************************************)
EXTENDS Queries

VARIABLES
    reader,    \* "idle", "single", "batch", "done" or "failed"
    snapshot,  \* history: the registry the statement saw
    unread,    \* the rows of the result the loop has not come to
    verdict    \* by event asked for and kind: the transition that resolved it, or None

walk == <<reader, snapshot, unread, verdict>>
wvars == <<registry, walk>>

kindOf(type) == IF type \in {"star", "unstar"} THEN "star" ELSE "alert"

WalkInit ==
    /\ Init
    /\ reader = "idle"
    /\ snapshot = {} /\ unread = {}
    /\ verdict = << >>

\* SELECT ... WHERE parent_id ... AND event_type IN ..., and the empty results.
selectMetas(ids) ==
    /\ reader = "idle"
    /\ snapshot' = db
    /\ unread' = {e \in db : e.parent \in ids /\ e.type \in Transitions}
    /\ verdict' = [i \in ids |-> [k \in Kinds |-> None]]
    /\ UNCHANGED registry

GetAnnotations(id) == selectMetas({id}) /\ reader' = "single"

GetAnnotationsBatch(ids) == selectMetas(ids) /\ reader' = "batch"

reading == reader \in {"single", "batch"}

\* GetAnnotations alone breaks when both kinds are resolved.
decided == reader = "single" /\ \A i \in DOMAIN verdict, k \in Kinds : verdict[i][k] # None

\* Mutant: newest by timestamp.
newest_ByTimestamp(e) == \A f \in unread : ~listedBefore(f, e)

\* ORDER BY ingest_sequence DESC.
newest(e) == \A f \in unread : f.seq <= e.seq

\* One iteration: a kind that is resolved stays as it is.
Scan ==
    /\ reading /\ ~decided
    /\ \E e \in unread :
          /\ newest(e)
          /\ unread' = unread \ {e}
          /\ verdict' = IF verdict[e.parent][kindOf(e.type)] # None THEN verdict
                        ELSE [verdict EXCEPT ![e.parent][kindOf(e.type)] = e.type]
    /\ UNCHANGED <<registry, reader, snapshot>>

Finish ==
    /\ reading
    /\ unread = {} \/ decided
    /\ reader' = "done"
    /\ UNCHANGED <<registry, snapshot, unread, verdict>>

\* The query, a scan or the iteration fails: an error and no annotations.
Interrupt ==
    /\ reading
    /\ reader' = "failed"
    /\ UNCHANGED <<registry, snapshot, unread, verdict>>

\* Another request records an event.
Meanwhile == (\E e \in Workloads[workload] : Record(e)) /\ UNCHANGED walk

Answered == reader \in {"done", "failed"} /\ UNCHANGED wvars

\* One event is asked for by an id that need not be recorded, several by the ids
\* of a listing.
WalkNext ==
    \/ \E e \in Workloads[workload] : GetAnnotations(e.id)
    \/ \E ids \in SUBSET {e.id : e \in db} : ids # {} /\ GetAnnotationsBatch(ids)
    \/ Scan \/ Finish \/ Interrupt \/ Meanwhile \/ Answered

WalkSpec == WalkInit /\ [][WalkNext]_wvars

-----------------------------------------------------------------------------
\* The derivations of star and alert state agree on every content, whatever is
\* recorded meanwhile: what a loop returns, the toggle's read of the latest
\* transition and the AlertedOnly subquery, on the snapshot the loop's
\* statement saw.
AnnotationReadersAgree ==
    reader = "done" => \A id \in DOMAIN verdict :
        /\ \A kind \in Kinds :
              verdict[id][kind] = activeType(kind) <=> isActive(snapshot, id, kind)
        /\ verdict[id]["alert"] = "alert" <=>
              \E e \in matching(snapshot, [NoParams EXCEPT !.alerted = TRUE]) : e.id = id
=============================================================================
