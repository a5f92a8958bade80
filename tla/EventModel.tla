----------------------------- MODULE EventModel -----------------------------
(***************************************************************************)
(* Change events and the pure rules the registry applies to them: the tag  *)
(* policy for new events (internal/service/change.go), the derived         *)
(* star/alert state and the correlated lifecycle behind Current            *)
(* (internal/store/postgres/postgres.go).                                  *)
(*                                                                         *)
(* A database is a set of event records.  Go's "" and SQL's NULL in the    *)
(* columns id, external_id and parent_id are None.  Tags are a Go map over *)
(* the well-known keys: a function that is None where a key is missing.    *)
(***************************************************************************)
EXTENDS Naturals

CONSTANTS
    None,       \* absent id, external id or tag
    Text,       \* the strings used as event types and tag values
    TrimSpace,  \* strings.TrimSpace on Text
    ToLower     \* strings.ToLower on Text

EmptyText == ""
TagKeys == {"phase", "change_id", "deploy_id", "team", "severity", "scope"}
Phases == {"start", "end"}
Transitions == {"star", "unstar", "alert", "clear-alert"}
Severities == {"sev0", "sev1", "sev2", "sev3"}
Scopes == {"service", "system", "site"}

ASSUME TextAssumption ==
    /\ {EmptyText, "link"} \cup Phases \cup Transitions \subseteq Text
    /\ None \notin Text
    /\ TrimSpace \in [Text -> Text]
    /\ ToLower \in [Text -> Text]
    /\ \A t \in Text : TrimSpace[TrimSpace[t]] = TrimSpace[t]
    /\ \A t \in Text : ToLower[ToLower[t]] = ToLower[t]
    /\ \A t \in Text : TrimSpace[ToLower[t]] = ToLower[TrimSpace[t]]
    /\ TrimSpace["link"] = "link" /\ ToLower["link"] = "link"

TagMap == [TagKeys -> Text \cup {None}]
NoTags == [k \in TagKeys |-> None]

\* tags[key] of a Go map: "" for a missing key.
Tag(tags, key) == IF tags[key] = None THEN EmptyText ELSE tags[key]

-----------------------------------------------------------------------------
(* The policy for new events: change.go, validateCreateRequest and below.  *)

canonicalType(type) ==
    IF ToLower[TrimSpace[type]] = "maintenance" THEN "maintenance" ELSE type

normalizeEventTags(tags) ==
    [k \in TagKeys |->
        IF tags[k] = None THEN None
        ELSE IF k \in {"severity", "scope"} THEN ToLower[TrimSpace[tags[k]]]
        ELSE TrimSpace[tags[k]]]

validatePhaseTags(type, tags) ==
    LET hasPhase == tags["phase"] # None
        validPhase == Tag(tags, "phase") \in Phases
        hasIdentifier == Tag(tags, "change_id") # EmptyText \/ Tag(tags, "deploy_id") # EmptyText
        hasIdentifierTag == tags["change_id"] # None \/ tags["deploy_id"] # None
    IN  /\ type = "maintenance" => hasPhase /\ validPhase /\ hasIdentifier
        /\ hasPhase => validPhase /\ hasIdentifier
        /\ hasIdentifierTag => hasPhase

validateClassificationTags(tags) ==
    /\ tags["severity"] # None => ToLower[tags["severity"]] \in Severities
    /\ tags["scope"] # None => ToLower[tags["scope"]] \in Scopes

validateEventTags(type, tags) ==
    validatePhaseTags(type, tags) /\ validateClassificationTags(tags)

-----------------------------------------------------------------------------
(* Star and alert state: derived from the meta-events of a parent, the one *)
(* with the largest ingest_sequence deciding.                              *)

Kinds == {"star", "alert"}
activeType(kind) == IF kind = "star" THEN "star" ELSE "alert"
inactiveType(kind) == IF kind = "star" THEN "unstar" ELSE "clear-alert"

transitionsOf(db, parent, kind) ==
    {e \in db : e.parent = parent /\ e.type \in {activeType(kind), inactiveType(kind)}}

\* The toggle's read "ORDER BY ingest_sequence DESC LIMIT 1" = active type.
isActive(db, parent, kind) ==
    \E e \in transitionsOf(db, parent, kind) :
        /\ e.type = activeType(kind)
        /\ \A f \in transitionsOf(db, parent, kind) : f.seq <= e.seq

-----------------------------------------------------------------------------
(* The correlated lifecycle.                                               *)

NoIdentity == [key |-> EmptyText, value |-> EmptyText]

\* The Go rule: the identity of a closable start, or NoIdentity.
operationIdentity(e) ==
    IF e.parent # None \/ Tag(e.tags, "phase") # "start"
    THEN NoIdentity
    ELSE IF Tag(e.tags, "change_id") # EmptyText
         THEN [key |-> "change_id", value |-> Tag(e.tags, "change_id")]
         ELSE IF Tag(e.tags, "deploy_id") # EmptyText
              THEN [key |-> "deploy_id", value |-> Tag(e.tags, "deploy_id")]
              ELSE NoIdentity

\* The SQL rule (CTE correlated): CASE for the key, COALESCE for the value,
\* "" standing for a NULL value.
correlation(e) ==
    [key   |-> IF Tag(e.tags, "change_id") # EmptyText THEN "change_id" ELSE "deploy_id",
     value |-> IF Tag(e.tags, "change_id") # EmptyText
               THEN Tag(e.tags, "change_id") ELSE Tag(e.tags, "deploy_id")]

\* CTE phase_event joined with correlated: the events with the given phase
\* that carry a correlation value.
correlated(db, phase) ==
    {e \in db : /\ e.parent = None
                /\ Tag(e.tags, "phase") = phase
                /\ correlation(e).value # EmptyText}

\* CTE ended: the operations that some end event names.
ended(db) == {<<e.type, correlation(e)>> : e \in correlated(db, "end")}

\* CTE active: the starts of operations that have not ended.
active(db) == {e \in correlated(db, "start") : <<e.type, correlation(e)>> \notin ended(db)}

\* OperationState: ListCurrent filtered by type, key and value has a row.
OperationState(db, start) ==
    IF \E e \in active(db) : e.type = start.type /\ correlation(e) = operationIdentity(start)
    THEN "open" ELSE "closed"

\* Mutant: the end event keeps the phase of the start it closes.
closeTags_KeepPhase(start) == start.tags

\* maps.Clone(start.Tags); tags[key] = value; tags["phase"] = "end".
closeTags(start) == [start.tags EXCEPT !["phase"] = "end"]

\* The SHA-256 of type, key and value, taken to be injective.
operationCloseExternalID(type, identity) == <<"pcr:close", type, identity>>
=============================================================================
